---------------------------- MODULE ExpiryProofs ----------------------------
(***************************************************************************)
(* The bounds of the retention in time, for any lengths of fragment and    *)
(* day, any retention, one that wraps included, and any age of the frames. *)
(*                                                                         *)
(* The code compares folders and seconds of the day; the proofs go through *)
(* one number instead, the second of the epoch at which a file starts, and *)
(* show that the comparison is that of seconds.  A cutoff before the epoch *)
(* expires nothing.                                                        *)
(***************************************************************************)
EXTENDS Expiry, ArchiveTimeProofs

\* The time between a purge and its cutoff, as the code computes it.
Kept(days) == -Wrap(FragmentMs - RetentionMs(days))

\* The second of the cutoff.
CutoffSecond(days, t) == CutoffTime(days, t) \div MsPerSecond

-----------------------------------------------------------------------------
LEMMA Constants ==
    /\ DayMs \in Nat \ {0} /\ DayMs = SecondsPerDay * MsPerSecond
    /\ StartTime \in Nat /\ StartTime >= DayMs
    /\ MsPerSecond \in Nat \ {0} /\ SecondsPerDay \in Nat \ {0}
    /\ FragmentMs \in Nat /\ DurationBound \in Nat \ {0}
    /\ FragmentMs < DurationBound
<1> USE TimeAssumption, ExpiryAssumption
<1>1. DayMs \in Nat \ {0}
  BY DEF DayMs
<1> QED
  BY <1>1, TimeConstants DEF DayMs

LEMMA IntegerRemainder ==
    ASSUME NEW a \in Int, NEW b \in Nat \ {0}
    PROVE  /\ a % b \in 0..(b - 1)
           /\ a \in 0..(b - 1) => a % b = a
OBVIOUS

\* A retention that fits is kept as it is, less the fragment; one that wraps
\* is never kept for longer than that.
LEMMA KeptBounds ==
    ASSUME NEW days \in Retentions
    PROVE  /\ RetentionMs(days) \in Nat /\ Kept(days) \in Int
           /\ FitsDuration(days) => Kept(days) = RetentionMs(days) - FragmentMs
           /\ Kept(days) <= RetentionMs(days) - FragmentMs
           /\ \A t \in Nat : CutoffTime(days, t) = t - Kept(days)
<1> DEFINE r == RetentionMs(days)  x == FragmentMs - r
           h == DurationBound  w == Wrap(x)
<1>1. days \in Nat
  BY ExpiryAssumption
<1>2. r \in Nat
  BY <1>1, Constants, ProductIsMonotone DEF RetentionMs
<1>3. h \in Nat \ {0} /\ FragmentMs \in Nat /\ FragmentMs < h
  BY Constants
<1>4. Kept(days) = -w /\ \A t \in Nat : CutoffTime(days, t) = t + w
  BY DEF Kept, CutoffTime
<1>5. FitsDuration(days) <=> r - FragmentMs <= h
  BY DEF FitsDuration
<1> HIDE DEF r, h
<1>6. x \in Int /\ x + h \in Int /\ 2 * h \in Nat \ {0} /\ x < h
  BY <1>2, <1>3
<1>7. w = ((x + h) % (2 * h)) - h
  BY DEF Wrap, h
<1> HIDE DEF w
<1>8. /\ (x + h) % (2 * h) \in 0..(2 * h - 1)
      /\ x + h \in 0..(2 * h - 1) => (x + h) % (2 * h) = x + h
  BY <1>6, IntegerRemainder
<1> DEFINE m == (x + h) % (2 * h)
<1>9. m \in 0..(2 * h - 1) /\ w = m - h
      /\ (x + h \in 0..(2 * h - 1) => m = x + h)
  BY <1>7, <1>8
<1> HIDE DEF m
<1>10. w \in Int /\ w >= -h
  BY <1>3, <1>9
<1>11. r - FragmentMs <= h => w = x
  BY <1>2, <1>3, <1>6, <1>9
<1>12. -w <= r - FragmentMs
  BY <1>2, <1>3, <1>10, <1>11
<1>13. r - FragmentMs <= h => -w = r - FragmentMs
  BY <1>2, <1>3, <1>11
<1>14. \A t \in Nat : t + w = t - (-w)
  BY <1>10
<1> QED
  BY <1>2, <1>4, <1>5, <1>10, <1>12, <1>13, <1>14 DEF r

\* The cutoff in milliseconds, seconds, and folder and second of the day.
LEMMA CutoffBounds ==
    ASSUME NEW days \in Retentions, NEW t \in Nat, CutoffTime(days, t) >= 0
    PROVE  /\ CutoffTime(days, t) \in Nat
           /\ CutoffSecond(days, t) \in Nat
           /\ CutoffSecond(days, t) * MsPerSecond <= CutoffTime(days, t)
           /\ CutoffTime(days, t) < (CutoffSecond(days, t) + 1) * MsPerSecond
           /\ Cutoff(days, t)[1] \in Nat
           /\ Cutoff(days, t)[2] \in 0..(SecondsPerDay - 1)
           /\ CutoffSecond(days, t)
                = Cutoff(days, t)[1] * SecondsPerDay + Cutoff(days, t)[2]
<1> DEFINE c == CutoffTime(days, t)  m == MsPerSecond  d == SecondsPerDay
           q == c \div m
<1>1. c \in Nat
  BY KeptBounds
<1>2. m \in Nat \ {0} /\ d \in Nat \ {0} /\ DayMs \in Nat \ {0}
  BY Constants
<1>3. Cutoff(days, t)
        = <<Quotient(c, DayMs), Quotient(Remainder(c, DayMs), m)>>
  BY DEF Cutoff
<1>4. CutoffSecond(days, t) = q
  BY DEF CutoffSecond
<1>5. DayMs = d * m
  BY Constants
<1> HIDE DEF c, m, d
<1>6. /\ q \in Nat /\ c % m \in 0..(m - 1) /\ c = m * q + (c % m)
  BY <1>1, <1>2, Division
<1>7. /\ q * m = m * q /\ (q + 1) * m = m * q + m /\ m * q \in Nat
  <2> HIDE DEF q
  <2> QED
    BY <1>2, <1>6
<1>8. q * m <= c /\ c < (q + 1) * m
  <2> DEFINE p == m * q  e == c % m
  <2>1. p \in Nat /\ e \in 0..(m - 1) /\ c = p + e
    BY <1>6, <1>7
  <2>2. q * m = p /\ (q + 1) * m = p + m
    BY <1>7
  <2> HIDE DEF p, e, q
  <2> QED
    BY <1>2, <2>1, <2>2
<1>9. Quotient(c, DayMs) = c \div DayMs
  BY <1>1 DEF Quotient
<1>10. Remainder(c, DayMs) = c % DayMs
  <2>1. /\ c \div DayMs \in Nat /\ c % DayMs \in 0..(DayMs - 1)
        /\ c = DayMs * (c \div DayMs) + (c % DayMs)
    BY <1>1, <1>2, Division
  <2>2. Remainder(c, DayMs) = c - DayMs * (c \div DayMs)
    BY <1>9 DEF Remainder
  <2> DEFINE p == DayMs * (c \div DayMs)  e == c % DayMs
  <2>3. p \in Int /\ e \in Int /\ c = p + e
    BY <1>2, <2>1
  <2>4. Remainder(c, DayMs) = c - p
    BY <2>2
  <2> HIDE DEF p
  <2> QED
    BY <2>3, <2>4
<1>11. Quotient(c % DayMs, m) = (c % DayMs) \div m
  <2>1. c % DayMs >= 0
    BY <1>1, <1>2, Division
  <2> QED
    BY <2>1 DEF Quotient
<1>12. /\ c \div DayMs = q \div d
       /\ (c % DayMs) \div m = q % d
  BY <1>1, <1>2, <1>5, NestedDivision
<1>13. Cutoff(days, t)[1] = q \div d /\ Cutoff(days, t)[2] = q % d
  BY <1>3, <1>9, <1>10, <1>11, <1>12
<1>14. /\ q \div d \in Nat /\ q % d \in 0..(d - 1)
       /\ q = d * (q \div d) + (q % d)
  <2> HIDE DEF q
  <2> QED
    BY <1>2, <1>6, Division
<1>15. d * (q \div d) = (q \div d) * d
  <2> DEFINE g == q \div d
  <2>1. g \in Nat
    BY <1>14
  <2> HIDE DEF g
  <2>2. d * g = g * d
    BY <1>2, <2>1
  <2> QED
    BY <2>2 DEF g
<1> QED
  BY <1>1, <1>4, <1>6, <1>8, <1>13, <1>14, <1>15 DEF c, m, d

\* Before the epoch a cutoff expires nothing.
LEMMA NegativeCutoff ==
    ASSUME NEW days \in Retentions, NEW ts \in Nat, ts >= StartTime,
           NEW t \in Nat, ~(CutoffTime(days, t) >= 0)
    PROVE  ~RowExpires(days, ts, t) /\ ~FileExpires(days, ts, t)
<1> DEFINE c == CutoffTime(days, t)  folder == GetFolderName(ts)
<1>1. c \in Int /\ c < 0
  BY KeptBounds
<1>2. DayMs \in Nat \ {0} /\ DayMs <= ts
  BY Constants
<1>3. folder >= 1 /\ folder \in Nat
  <2>1. folder = ts \div DayMs
    BY Constants, NestedDivision DEF GetFolderName
  <2>2. DayMs \div DayMs = 1
    <3>1. DayMs = DayMs * 1 + 0 /\ 0 \in 0..(DayMs - 1)
      BY <1>2
    <3> QED
      BY <1>2, <3>1, DivisionIsUnique
  <2>3. DayMs \div DayMs <= ts \div DayMs
    BY <1>2, DivisionIsMonotone
  <2>4. folder \in Nat
    BY StartSecondBounds
  <2> QED
    BY <2>1, <2>2, <2>3, <2>4
<1>4. Cutoff(days, t)[1] = Quotient(c, DayMs)
  BY DEF Cutoff
<1> HIDE DEF c
<1>5. Quotient(c, DayMs) = -((-c) \div DayMs)
  BY <1>1 DEF Quotient
<1>6. (-c) \div DayMs \in Nat
  <2>1. -c \in Nat
    BY <1>1
  <2> QED
    BY <1>2, <2>1, Division
<1>7. /\ ~(folder < Cutoff(days, t)[1]) /\ ~(folder = Cutoff(days, t)[1])
  <2> DEFINE g == (-c) \div DayMs
  <2>1. g \in Nat /\ Cutoff(days, t)[1] = -g
    BY <1>4, <1>5, <1>6
  <2> HIDE DEF g, folder
  <2> QED
    BY <1>3, <2>1
<1> QED
  BY <1>7 DEF RowExpires, FileExpires, ArchiveKey

\* The DELETE statement compares the second at which a file starts with the
\* second of the cutoff.
LEMMA RowExpiresInSeconds ==
    ASSUME NEW days \in Retentions, NEW ts \in Nat, NEW t \in Nat,
           CutoffTime(days, t) >= 0
    PROVE  RowExpires(days, ts, t) <=> StartSecond(ts) <= CutoffSecond(days, t)
<1> DEFINE key == ArchiveKey(ts)  cut == Cutoff(days, t)
<1>1. /\ key[1] = GetFolderName(ts) /\ key[2] = GetFileName(ts)
      /\ key[1] \in Nat /\ key[2] \in 0..(SecondsPerDay - 1)
      /\ StartSecond(ts) = key[1] * SecondsPerDay + key[2]
  BY StartSecondBounds DEF ArchiveKey, StartSecond
<1>2. /\ cut[1] \in Nat
      /\ cut[2] \in 0..(SecondsPerDay - 1)
      /\ CutoffSecond(days, t) = cut[1] * SecondsPerDay + cut[2]
  BY CutoffBounds
<1>3. RowExpires(days, ts, t) <=>
        key[1] < cut[1] \/ (key[1] = cut[1] /\ key[2] <= cut[2])
  BY DEF RowExpires
<1> HIDE DEF key, cut
<1>4. key[1] < cut[1] \/ (key[1] = cut[1] /\ key[2] <= cut[2])
      <=> key[1] * SecondsPerDay + key[2] <= cut[1] * SecondsPerDay + cut[2]
  <2> DEFINE f == key[1]  a == key[2]  g == cut[1]  b == cut[2]
  <2>1. /\ f \in Nat /\ a \in 0..(SecondsPerDay - 1)
        /\ g \in Nat /\ b \in 0..(SecondsPerDay - 1)
        /\ SecondsPerDay \in Nat \ {0}
    BY <1>1, <1>2, Constants
  <2> HIDE DEF f, a, g, b
  <2>2. f < g \/ (f = g /\ a <= b)
        <=> f * SecondsPerDay + a <= g * SecondsPerDay + b
    BY <2>1, Lexicographic
  <2> QED
    BY <2>2 DEF f, a, g, b
<1> QED
  BY <1>1, <1>2, <1>3, <1>4

\* A row that the purge deletes is less than a fragment younger than the cutoff.
LEMMA ExpiredRowIsOld ==
    ASSUME NEW days \in Retentions, NEW ts \in Nat, ts >= StartTime,
           NEW t \in Nat, RowExpires(days, ts, t)
    PROVE  t - ts > Kept(days) - FragmentMs
<1> DEFINE s == StartSecond(ts)  c == CutoffSecond(days, t)
<1>1. s \in Nat /\ s * MsPerSecond <= ts /\ ts < s * MsPerSecond + FragmentMs
  BY StartSecondBounds
<1>2. CutoffTime(days, t) >= 0
  BY NegativeCutoff
<1>3. c \in Nat /\ c * MsPerSecond <= CutoffTime(days, t)
  BY <1>2, CutoffBounds
<1>4. s <= c
  BY <1>2, RowExpiresInSeconds
<1>5. CutoffTime(days, t) = t - Kept(days) /\ Kept(days) \in Int
  BY KeptBounds
<1> HIDE DEF s, c
<1>6. s * MsPerSecond <= c * MsPerSecond /\ s * MsPerSecond \in Nat
      /\ c * MsPerSecond \in Nat
  BY <1>1, <1>3, <1>4, ProductIsMonotone, Constants
<1> QED
  BY <1>1, <1>3, <1>5, <1>6, Constants

\* A row that the purge leaves is younger than the cutoff.
LEMMA KeptRowIsYoung ==
    ASSUME NEW days \in Retentions, NEW ts \in Nat, NEW t \in Nat,
           ~RowExpires(days, ts, t)
    PROVE  t - ts < RetentionMs(days) - FragmentMs
<1> DEFINE s == StartSecond(ts)  c == CutoffSecond(days, t)
<1>1. s \in Nat /\ s * MsPerSecond <= ts
  BY StartSecondBounds
<1>2. /\ CutoffTime(days, t) = t - Kept(days) /\ Kept(days) \in Int
      /\ RetentionMs(days) \in Nat
      /\ Kept(days) <= RetentionMs(days) - FragmentMs
  BY KeptBounds
<1>3. CutoffTime(days, t) < ts
  <2>1. CASE CutoffTime(days, t) >= 0
    <3>1. c \in Nat /\ CutoffTime(days, t) < (c + 1) * MsPerSecond
      BY <2>1, CutoffBounds
    <3>2. ~(s <= c)
      BY <2>1, RowExpiresInSeconds
    <3> HIDE DEF s, c
    <3>3. (c + 1) * MsPerSecond <= s * MsPerSecond /\ s * MsPerSecond \in Nat
          /\ (c + 1) * MsPerSecond \in Nat
      <4>1. c + 1 \in Nat /\ c + 1 <= s
        BY <1>1, <3>1, <3>2
      <4> QED
        BY <1>1, <4>1, ProductIsMonotone, Constants
    <3> QED
      BY <1>1, <1>2, <3>1, <3>3
  <2>2. CASE ~(CutoffTime(days, t) >= 0)
    BY <1>2, <2>2
  <2> QED
    BY <2>1, <2>2
<1> QED
  BY <1>2, <1>3, Constants

\* A file that the purge leaves may be a day older than that.
LEMMA KeptFileIsYoung ==
    ASSUME NEW days \in Retentions, NEW ts \in Nat, NEW t \in Nat,
           ~FileExpires(days, ts, t)
    PROVE  t - ts < RetentionMs(days) - FragmentMs + DayMs
<1> DEFINE f == GetFolderName(ts)  a == GetFileName(ts)
           g == Cutoff(days, t)[1]  b == Cutoff(days, t)[2]  d == SecondsPerDay
<1>1. /\ f \in Nat /\ a \in 0..(d - 1)
      /\ (f * d + a) * MsPerSecond <= ts
  BY StartSecondBounds DEF StartSecond
<1>2. /\ CutoffTime(days, t) = t - Kept(days) /\ Kept(days) \in Int
      /\ RetentionMs(days) \in Nat
      /\ Kept(days) <= RetentionMs(days) - FragmentMs
  BY KeptBounds
<1>3. d \in Nat \ {0} /\ MsPerSecond \in Nat \ {0} /\ DayMs \in Nat
  BY Constants
<1>4. DayMs = d * MsPerSecond
  BY DEF DayMs
<1>5. CutoffTime(days, t) < ts + DayMs
  <2>1. CASE CutoffTime(days, t) >= 0
    <3>1. /\ g \in Nat /\ b \in 0..(d - 1)
          /\ CutoffTime(days, t) < (g * d + b + 1) * MsPerSecond
      BY <2>1, CutoffBounds
    <3>2. g <= f
      BY <1>1, <3>1 DEF FileExpires
    <3> HIDE DEF f, a, g, b, d
    <3>3. g * d <= f * d /\ g * d \in Nat /\ f * d \in Nat
      BY <1>1, <1>3, <3>1, <3>2, ProductIsMonotone
    <3>4. g * d + b + 1 <= (f * d + a) + d
      BY <1>1, <1>3, <3>1, <3>3
    <3>5. /\ (g * d + b + 1) * MsPerSecond <= ((f * d + a) + d) * MsPerSecond
          /\ (g * d + b + 1) * MsPerSecond \in Nat
      <4>1. g * d + b + 1 \in Nat /\ (f * d + a) + d \in Nat
        BY <1>1, <1>3, <3>1, <3>3
      <4> QED
        BY <1>3, <3>4, <4>1, ProductIsMonotone
    <3>6. ((f * d + a) + d) * MsPerSecond
            = (f * d + a) * MsPerSecond + d * MsPerSecond
      <4>1. f * d + a \in Int
        BY <1>1, <3>3
      <4>2. \A x, y, z \in Int : (x + y) * z = x * z + y * z
        OBVIOUS
      <4> QED
        BY <1>3, <4>1, <4>2
    <3>7. (f * d + a) * MsPerSecond \in Nat /\ d * MsPerSecond \in Nat
      BY <1>1, <1>3, <3>3
    <3> QED
      BY <1>1, <1>2, <1>4, <3>1, <3>5, <3>6, <3>7
  <2>2. CASE ~(CutoffTime(days, t) >= 0)
    BY <1>2, <1>3, <2>2
  <2> QED
    BY <2>1, <2>2
<1> QED
  BY <1>2, <1>3, <1>5, Constants

\* A row that has expired stays expired.
LEMMA ExpiryIsForEver ==
    ASSUME NEW days \in Retentions, NEW ts \in Nat, ts >= StartTime,
           NEW t \in Nat, NEW u \in Nat, t <= u, RowExpires(days, ts, t)
    PROVE  RowExpires(days, ts, u)
<1>1. CutoffTime(days, t) >= 0
  BY NegativeCutoff
<1>2. /\ CutoffTime(days, t) \in Nat /\ CutoffTime(days, u) \in Nat
      /\ CutoffTime(days, t) <= CutoffTime(days, u)
  BY <1>1, KeptBounds
<1>3. CutoffSecond(days, t) <= CutoffSecond(days, u)
  <2> HIDE DEF CutoffTime
  <2> QED
    BY <1>2, DivisionIsMonotone, Constants DEF CutoffSecond
<1>4. StartSecond(ts) <= CutoffSecond(days, t)
  BY <1>1, RowExpiresInSeconds
<1>5. /\ StartSecond(ts) \in Nat /\ CutoffSecond(days, t) \in Nat
      /\ CutoffSecond(days, u) \in Nat /\ CutoffTime(days, u) >= 0
  BY <1>1, <1>2, StartSecondBounds, CutoffBounds
<1> QED
  BY <1>3, <1>4, <1>5, RowExpiresInSeconds

\* The purge takes no file of which it would leave the row.
LEMMA FilesExpireAfterRows ==
    ASSUME NEW days, NEW ts \in Nat, NEW t \in Nat, FileExpires(days, ts, t)
    PROVE  RowExpires(days, ts, t)
BY DEF FileExpires, RowExpires, ArchiveKey

-----------------------------------------------------------------------------
\* What TypeOK keeps: timestamps lie between the start and the clock.
LEMMA Typing ==
    ASSUME TypeOK
    PROVE  /\ retentionDays \in Retentions
           /\ now \in Nat /\ started \in Nat /\ started <= now
           /\ \A ts \in onDisk \cup pending \cup indexed :
                 ts \in Nat /\ ts >= StartTime
BY Constants DEF TypeOK

\* The clock, the recorder and the purge keep to timestamps that the clock has
\* reached: Record is never ahead of it and BeginPurge reads it.
THEOREM TypeCorrect == Spec => []TypeOK
<1>1. Init => TypeOK
  BY Constants, ExpiryAssumption DEF Init, TypeOK
<1>2. TypeOK /\ [Next]_vars => TypeOK'
  <2> SUFFICES ASSUME TypeOK, [Next]_vars
               PROVE  TypeOK'
    OBVIOUS
  <2>0. StartTime \in Nat /\ now \in Nat /\ StartTime <= now
    BY Constants DEF TypeOK
  <2>1. CASE Tick
    BY <2>0, <2>1 DEF Tick, TypeOK
  <2>2. CASE Record
    <3>1. PICK ts \in StartTime..now :
             /\ pending' = pending \cup {ts}
             /\ onDisk' = onDisk \cup {ts} \/ onDisk' = onDisk
      BY <2>2 DEF Record
    <3>2. frames' \in 0..MaxFrames
      BY <2>2, ExpiryAssumption DEF Record, TypeOK
    <3> QED
      BY <2>2, <3>1, <3>2 DEF Record, TypeOK
  <2>3. CASE Flush
    BY <2>3 DEF Flush, TypeOK
  <2>4. CASE BeginPurge
    BY <2>0, <2>4 DEF BeginPurge, TypeOK
  <2>5. CASE DeleteRows
    BY <2>5 DEF DeleteRows, TypeOK
  <2>6. CASE DeleteRowsFails
    BY <2>6 DEF DeleteRowsFails, TypeOK
  <2>7. CASE DeleteFiles
    BY <2>7 DEF DeleteFiles, TypeOK
  <2>8. CASE DeleteFilesFails
    BY <2>8 DEF DeleteFilesFails, ExpiredFiles, TypeOK
  <2>9. CASE UNCHANGED vars
    BY <2>9 DEF vars, TypeOK
  <2> QED
    BY <2>1, <2>2, <2>3, <2>4, <2>5, <2>6, <2>7, <2>8, <2>9 DEF Next, Purge
<1> QED
  BY <1>1, <1>2, PTL DEF Spec

\* A row still to be flushed must have expired as well when its file is gone.
DanglingFramesExpire ==
    \A ts \in (indexed \cup pending) \ onDisk : RowExpires(retentionDays, ts, now)

\* However late a batch is flushed, whatever deletion fails and whatever the
\* retention, a row without its file is within reach of the next DELETE:
\* purgeOnce takes a file only when it has taken the row or will.
THEOREM DanglingExpire == Spec => []DanglingRowsExpire
<1>1. Init => DanglingFramesExpire
  BY DEF Init, DanglingFramesExpire
<1>2. TypeOK /\ DanglingFramesExpire /\ [Next]_vars => DanglingFramesExpire'
  <2> SUFFICES ASSUME TypeOK, DanglingFramesExpire, [Next]_vars
               PROVE  DanglingFramesExpire'
    OBVIOUS
  <2> DEFINE Expired(ts, t) == RowExpires(retentionDays, ts, t)
  <2>0. \A ts \in (indexed \cup pending) \ onDisk : Expired(ts, now)
    BY DEF DanglingFramesExpire
  <2>a. retentionDays' = retentionDays
    BY DEF Next, Tick, Record, Flush, Purge, BeginPurge, DeleteRows,
       DeleteRowsFails, DeleteFiles, DeleteFilesFails, vars
  <2>b. ASSUME NEW ts \in Nat, ts >= StartTime,
               FileExpires(retentionDays, ts, started)
        PROVE  Expired(ts, now)
    BY <2>b, Typing, FilesExpireAfterRows, ExpiryIsForEver
  <2> SUFFICES ASSUME NEW ts \in (indexed' \cup pending') \ onDisk'
               PROVE  Expired(ts, now')
    BY <2>a DEF DanglingFramesExpire
  <2> HIDE DEF Expired
  <2>1. CASE Tick
    <3>1. ts \in (indexed \cup pending) \ onDisk /\ now' = now + 1
      BY <2>1 DEF Tick
    <3>2. Expired(ts, now) /\ ts \in Nat /\ ts >= StartTime
      BY <2>0, <3>1, Typing
    <3>3. now \in Nat /\ now + 1 \in Nat /\ now <= now + 1
      BY Typing
    <3> QED
      BY <3>1, <3>2, <3>3, Typing, ExpiryIsForEver DEF Expired
  <2>2. CASE Record
    <3>1. PICK x \in StartTime..now :
             /\ pending' = pending \cup {x}
             /\ \/ onDisk' = onDisk \cup {x}
                \/ FileExpires(retentionDays, x, started) /\ onDisk' = onDisk
      BY <2>2 DEF Record
    <3>2. indexed' = indexed /\ now' = now /\ x \in Nat /\ x >= StartTime
      BY <2>2, Constants, Typing DEF Record
    <3> QED
      BY <2>0, <2>b, <3>1, <3>2
  <2>3. CASE Flush
    BY <2>0, <2>3 DEF Flush
  <2>4. CASE BeginPurge \/ DeleteRows \/ DeleteRowsFails
    BY <2>0, <2>4 DEF BeginPurge, DeleteRows, DeleteRowsFails
  <2>5. CASE DeleteFiles \/ DeleteFilesFails
    <3>1. \A x \in onDisk \ onDisk' : FileExpires(retentionDays, x, started)
      BY <2>5 DEF DeleteFiles, DeleteFilesFails, ExpiredFiles
    <3>2. /\ now' = now /\ pending' = pending /\ indexed' = indexed
      BY <2>5 DEF DeleteFiles, DeleteFilesFails
    <3>3. CASE ts \in onDisk
      BY <2>b, <3>1, <3>2, <3>3, Typing
    <3>4. CASE ts \notin onDisk
      BY <2>0, <3>2, <3>4
    <3> QED
      BY <3>3, <3>4
  <2>6. CASE UNCHANGED vars
    BY <2>0, <2>6 DEF vars
  <2> QED
    BY <2>1, <2>2, <2>3, <2>4, <2>5, <2>6 DEF Next, Purge
<1>3. DanglingFramesExpire => DanglingRowsExpire
  BY DEF DanglingFramesExpire, DanglingRowsExpire
<1> QED
  BY <1>1, <1>2, <1>3, TypeCorrect, PTL DEF Spec

\* Up to the longest retention that a Duration holds, purgeOnce takes nothing
\* that is younger than the retention less two fragments: one by which the
\* cutoff is late, one by which a frame is younger than the start of its file.
THEOREM KeptLong == Spec => KeptLongEnough
<1> DEFINE Old(ts) == started - ts > RetentionMs(retentionDays) - 2 * FragmentMs
           Step == FitsDuration(retentionDays) =>
                     \A ts \in (onDisk \ onDisk') \cup (indexed \ indexed') : Old(ts)
<1>1. TypeOK /\ [Next]_vars => [Step]_vars
  <2> SUFFICES ASSUME TypeOK, Next, FitsDuration(retentionDays),
                      NEW ts \in (onDisk \ onDisk') \cup (indexed \ indexed')
               PROVE  Old(ts)
    OBVIOUS
  <2>1. ts \in Nat /\ ts >= StartTime /\ started \in Nat
    BY Typing
  <2>2. RowExpires(retentionDays, ts, started)
    <3>1. CASE Tick \/ Record \/ Flush \/ BeginPurge \/ DeleteRowsFails
      BY <3>1 DEF Tick, Record, Flush, BeginPurge, DeleteRowsFails
    <3>2. CASE DeleteRows
      BY <3>2 DEF DeleteRows, ExpiredRows
    <3>3. CASE DeleteFiles \/ DeleteFilesFails
      <4>1. FileExpires(retentionDays, ts, started)
        BY <3>3 DEF DeleteFiles, DeleteFilesFails, ExpiredFiles
      <4> QED
        BY <2>1, <4>1, FilesExpireAfterRows
    <3> QED
      BY <3>1, <3>2, <3>3 DEF Next, Purge
  <2>3. started - ts > Kept(retentionDays) - FragmentMs
    BY <2>1, <2>2, Typing, ExpiredRowIsOld
  <2>4. /\ Kept(retentionDays) = RetentionMs(retentionDays) - FragmentMs
        /\ RetentionMs(retentionDays) \in Nat /\ FragmentMs \in Nat
    BY Typing, KeptBounds, Constants
  <2> QED
    BY <2>1, <2>3, <2>4
<1> QED
  BY <1>1, TypeCorrect, PTL DEF Spec, KeptLongEnough

\* A DELETE and a removal that succeed leave only rows younger than the
\* retention less a fragment, and files at most a day older than that.
THEOREM Complete == Spec => PurgeIsComplete
<1> DEFINE limit == RetentionMs(retentionDays) - FragmentMs
           Rows == DeleteRows => \A ts \in indexed' : started - ts < limit
           Files == DeleteFiles => \A ts \in onDisk' : started - ts < limit + DayMs
<1>1. TypeOK => Rows /\ Files
  <2> SUFFICES ASSUME TypeOK
               PROVE  Rows /\ Files
    OBVIOUS
  <2>1. started \in Nat /\ retentionDays \in Retentions
    BY Typing
  <2>2. Rows
    BY <2>1, Typing, KeptRowIsYoung DEF DeleteRows, ExpiredRows
  <2>3. Files
    BY <2>1, Typing, KeptFileIsYoung DEF DeleteFiles, ExpiredFiles
  <2> QED
    BY <2>2, <2>3
<1>2. TypeOK /\ [Next]_vars => [Rows /\ Files]_vars
  BY <1>1
<1> QED
  BY <1>2, TypeCorrect, PTL DEF Spec, PurgeIsComplete
=============================================================================
