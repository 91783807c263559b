--------------------------- MODULE JobRowsProofs -----------------------------
(* About JobRows: its row updates yield rows, and retries are put off, for *)
(* longer each time until the delay is the cap or overflows.               *)
EXTENDS JobRows, WellFoundedInduction, TLAPS

(* The row that Enqueue inserts is a row. *)
LEMMA InsertedRowType ==
    ASSUME NEW j \in Jobs, NEW t \in Nat
    PROVE  InsertedRow(j, t) \in Row
<1>1. Params[j].runAt \in Nat
  BY ParamsAssumption DEF EnqueueParams
<1>2. AbsentRow \in Row
  BY DEF AbsentRow, Row, Status
<1>3. (IF Params[j].runAt = 0 THEN t ELSE Params[j].runAt) \in Nat
  BY <1>1
<1> QED
  BY Zenon, <1>2, <1>3 DEF InsertedRow, Row, Status

(* The row that Dequeue writes for a picked job is a row. *)
LEMMA ClaimedRowType ==
    ASSUME NEW r \in Row, NEW w \in Workers \cup {NULL}, NEW t \in Nat
    PROVE  ClaimedRow(r, w, t) \in Row
<1>1. t + Lease \in Nat
  BY LeaseAssumption
<1>2. r.attempts + 1 \in Nat
  BY DEF Row
<1> QED
  BY Zenon, <1>1, <1>2 DEF Row, Status, ClaimedRow

(* So are the rows that the other updates write. *)
LEMMA RowTypes ==
    ASSUME NEW r \in Row, NEW t \in Nat
    PROVE  /\ ReclaimedRow(r) \in Row
           /\ ExtendedRow(r, t) \in Row
           /\ SucceededRow(r) \in Row
           /\ RetriedRow(r, t) \in Row
           /\ DeadRow(r) \in Row
           /\ CancelledRow(r) \in Row
           /\ RequeuedRow(r, t) \in Row
<1>1. ReclaimedRow(r) \in Row
  BY Zenon DEF Row, Status, ReclaimedRow
<1>2. ExtendedRow(r, t) \in Row
  BY LeaseAssumption DEF Row, Status, ExtendedRow
<1>3. SucceededRow(r) \in Row
  BY Zenon DEF Row, Status, SucceededRow
<1>4. RetriedRow(r, t) \in Row
  BY Zenon DEF Row, Status, RetriedRow
<1>5. DeadRow(r) \in Row
  BY Zenon DEF Row, Status, DeadRow
<1>6. CancelledRow(r) \in Row
  BY DEF Row, Status, CancelledRow
<1>7. RequeuedRow(r, t) \in Row
  BY Zenon DEF Row, Status, RequeuedRow
<1> QED
  BY <1>1, <1>2, <1>3, <1>4, <1>5, <1>6, <1>7

-----------------------------------------------------------------------------
(* The delay of a retry. *)

(* BackoffDelay replaces a base that is not positive. *)
LEMMA BaseType == base \in Nat \ {0}
  BY BackoffAssumption DEF base

(* A set with 0 and the successors of its members has all numbers.  (The   *)
(* least number outside of it would be the successor of one inside.)       *)
LEMMA SetInduction ==
    ASSUME NEW S, 0 \in S, \A n \in Nat : n \in S => n + 1 \in S
    PROVE  \A n \in Nat : n \in S
<1> DEFINE T == {n \in Nat : n \notin S}
           R == OpToRel(<, Nat)
<1> SUFFICES ASSUME T # {} PROVE FALSE
  OBVIOUS
<1>1. \A x, y \in Nat : x < y => <<x, y>> \in R
  BY Zenon DEF OpToRel
<1>2. PICK m \in T : \A y \in T : ~(<<y, m>> \in R)
  <2>1. T \subseteq Nat /\ IsWellFoundedOn(R, Nat)
    BY Zenon, NatLessThanWellFounded
  <2> HIDE DEF T, R
  <2> QED
    BY Zenon, <2>1, WFMin
<1>3. m \in Nat /\ m # 0
  BY Zenon
<1>4. m - 1 \in Nat /\ m - 1 < m /\ m - 1 + 1 = m
  BY <1>3
<1>5. m - 1 \in S
  BY Zenon, <1>1, <1>2, <1>3, <1>4
<1> QED
  BY Zenon, <1>4, <1>5

(* The recursive definition of Pow defines a function. *)
LEMMA PowDef ==
    ASSUME NEW k \in Nat
    PROVE  Pow(k)[0] = 1 /\ \A n \in 1 .. k : Pow(k)[n] = 2 * Pow(k)[n - 1]
<1> DEFINE Pows(m) == {g \in [0 .. m -> Nat] : g[0] = 1 /\ \A i \in 1 .. m : g[i] = 2 * g[i - 1]}
           D == {m \in Nat : Pows(m) # {}}
<1>1. 0 \in D
  <2> DEFINE g == [i \in 0 .. 0 |-> 1]
  <2>1. g \in [0 .. 0 -> Nat] /\ g[0] = 1
    OBVIOUS
  <2>2. \A i \in 1 .. 0 : FALSE
    OBVIOUS
  <2>3. g \in Pows(0)
    <3> HIDE DEF g
    <3> QED
      BY Zenon, <2>1, <2>2
  <2> QED
    BY Zenon, <2>3
<1>2. ASSUME NEW m \in Nat, m \in D PROVE m + 1 \in D
  <2>1. PICK g : g \in Pows(m)
    BY Zenon, <1>2
  <2> DEFINE h == [i \in 0 .. m + 1 |-> IF i = m + 1 THEN 2 * g[m] ELSE g[i]]
  <2>2. h \in [0 .. m + 1 -> Nat] /\ h[0] = 1
    BY <2>1
  <2>3. ASSUME NEW i \in 1 .. m + 1 PROVE h[i] = 2 * h[i - 1]
    BY <2>1
  <2>4. h \in Pows(m + 1)
    <3> HIDE DEF h
    <3> QED
      BY Zenon, <2>2, <2>3
  <2>5. m + 1 \in Nat
    OBVIOUS
  <2> QED
    BY Zenon, <2>4, <2>5
<1> HIDE DEF D
<1>3. k \in D
  BY Zenon, <1>1, <1>2, SetInduction
<1>4. PICK g : g \in Pows(k)
  BY Zenon, <1>3 DEF D
<1> DEFINE Eq(h) == h = [n \in 0 .. k |-> IF n = 0 THEN 1 ELSE 2 * h[n - 1]]
<1>5. Eq(g)
  <2>1. g \in [0 .. k -> Nat]
    BY Zenon, <1>4
  <2>2. ASSUME NEW n \in 0 .. k PROVE g[n] = IF n = 0 THEN 1 ELSE 2 * g[n - 1]
    BY <1>4
  <2> QED
    BY Zenon, <2>1, <2>2
<1>6. Pow(k) = CHOOSE h : Eq(h)
  BY Zenon DEF Pow
<1> DEFINE p == Pow(k)
<1> HIDE DEF Eq, p
<1>7. Eq(p)
  BY Zenon, <1>5, <1>6 DEF p
<1>8. p[0] = 1 /\ \A n \in 1 .. k : p[n] = 2 * p[n - 1]
  BY <1>7 DEF Eq
<1> QED
  BY Zenon, <1>8 DEF p

(* It does not depend on how far it is computed. *)
LEMMA PowSame ==
    ASSUME NEW k \in Nat, NEW m \in 0 .. k
    PROVE  Pow(k)[m] = Pow(m)[m]
<1> DEFINE D == {n \in Nat : n <= m => Pow(k)[n] = Pow(m)[n]}
<1>0. m \in Nat
  OBVIOUS
<1>1. 0 \in D
  BY Zenon, <1>0, PowDef
<1>2. ASSUME NEW n \in Nat, n \in D PROVE n + 1 \in D
  <2> SUFFICES ASSUME n + 1 <= m PROVE Pow(k)[n + 1] = Pow(m)[n + 1]
    OBVIOUS
  <2>1. n + 1 \in 1 .. k /\ n + 1 \in 1 .. m /\ (n + 1) - 1 = n /\ n <= m /\ m \in Nat
    OBVIOUS
  <2>2. Pow(k)[n + 1] = 2 * Pow(k)[n] /\ Pow(m)[n + 1] = 2 * Pow(m)[n]
    BY Zenon, <2>1, PowDef
  <2> QED
    BY Zenon, <1>2, <2>1, <2>2
<1> HIDE DEF D
<1>3. m \in Nat /\ m <= m
  BY <1>0
<1>4. m \in D
  BY Zenon, <1>1, <1>2, <1>3, SetInduction
<1> QED
  BY Zenon, <1>3, <1>4 DEF D

(* The product in BackoffDelay is the base at first, and doubles with      *)
(* every attempt: it is positive, and grows beyond every bound.            *)
LEMMA Doubling ==
    /\ Doubled(0) = base
    /\ \A n \in Nat : Doubled(n + 1) = 2 * Doubled(n)
    /\ \A n \in Nat : Doubled(n) \in Nat /\ Doubled(n) > n /\ Doubled(n) >= base
<1>1. Doubled(0) = base
  <2>1. Pow(0)[0] = 1
    BY PowDef
  <2> QED
    BY <2>1, BaseType DEF Doubled
<1> DEFINE D == {n \in Nat : Pow(n)[n] \in Nat /\ Pow(n)[n] > n}
<1>2. ASSUME NEW n \in Nat PROVE Pow(n + 1)[n + 1] = 2 * Pow(n)[n]
  <2>1. n + 1 \in Nat /\ n + 1 \in 1 .. n + 1 /\ n \in 0 .. n + 1 /\ (n + 1) - 1 = n
    OBVIOUS
  <2>2. Pow(n + 1)[n + 1] = 2 * Pow(n + 1)[n]
    BY Zenon, <2>1, PowDef
  <2>3. Pow(n + 1)[n] = Pow(n)[n]
    BY Zenon, <2>1, PowSame
  <2> QED
    BY Zenon, <2>2, <2>3
<1>3. \A n \in Nat : n \in D
  <2>1. 0 \in D
    BY PowDef
  <2>2. ASSUME NEW n \in Nat, n \in D PROVE n + 1 \in D
    BY <1>2, <2>2
  <2> HIDE DEF D
  <2> QED
    BY Zenon, <2>1, <2>2, SetInduction
<1>4. ASSUME NEW n \in Nat
      PROVE  Doubled(n + 1) = 2 * Doubled(n) /\ Doubled(n) \in Nat /\ Doubled(n) > n /\ Doubled(n) >= base
  <2> DEFINE x == Pow(n)[n]
  <2>1. x \in Nat /\ x > n /\ Pow(n + 1)[n + 1] = 2 * x
    BY Zenon, <1>2, <1>3
  <2>2. Doubled(n) = base * x /\ Doubled(n + 1) = base * (2 * x)
    BY Zenon, <2>1 DEF Doubled
  <2> HIDE DEF x
  <2>3. base * x \in Nat /\ base * x >= x /\ base * x >= base /\ base * (2 * x) = 2 * (base * x)
    BY <2>1, BaseType
  <2> QED
    BY <2>1, <2>2, <2>3
<1> QED
  BY Zenon, <1>1, <1>4

(* The product in BackoffDelay is an integer. *)
LEMMA DoubledType == \A n \in Nat : Doubled(n) \in Int
  BY Doubling

(* A retry is put off by something, and by no more than the cap, however   *)
(* many attempts there were: BackoffDelay may overflow and return a        *)
(* negative duration, which intervalLiteral then replaces.                 *)
THEOREM BackoffBounded == \A n \in Nat : Delays(n) # {} /\ Delays(n) \subseteq 1 .. CapDelay
<1> SUFFICES ASSUME NEW n \in Nat
             PROVE  Delays(n) # {} /\ Delays(n) \subseteq 1 .. CapDelay
  OBVIOUS
<1>1. ASSUME NEW delay \in Converted(Doubled(n)), NEW jitter \in 0 .. base - 1
      PROVE  intervalLiteral(Capped(delay, jitter)) \in 1 .. CapDelay
  <2>1. delay \in Int
    BY <1>1, BackoffAssumption, DoubledType DEF Converted
  <2> QED
    BY <2>1, BaseType, BackoffAssumption DEF intervalLiteral, Capped, Wrapped
<1>2. PICK delay \in Converted(Doubled(n)) : TRUE
  BY DEF Converted
<1>3. intervalLiteral(Capped(delay, 0)) \in Delays(n)
  BY <1>2, BaseType DEF Delays
<1> QED
  BY <1>1, <1>3 DEF Delays

(* As long as the product and the jitter fit, the delay is what the        *)
(* comment of BackoffDelay promises, up to the cap.                        *)
THEOREM BackoffExact ==
    ASSUME NEW n \in Nat, Doubled(n) + base <= MaxDuration, NEW d \in Delays(n)
    PROVE  d = CapDelay \/ d \in Doubled(n) .. Doubled(n) + base - 1
<1>1. Doubled(n) \in Nat \ {0}
  BY Doubling
<1>2. PICK jitter \in 0 .. base - 1 : d = intervalLiteral(Capped(Doubled(n), jitter))
  BY <1>1, BaseType, BackoffAssumption DEF Delays, Converted
<1> QED
  BY <1>1, <1>2, BaseType, BackoffAssumption DEF intervalLiteral, Capped, Wrapped

(* So long, whatever the jitter, a retry is put off by more than the one   *)
(* before it, until the cap is reached.                                    *)
THEOREM BackoffGrows ==
    ASSUME NEW n \in Nat, Doubled(n + 1) + base <= MaxDuration,
           NEW d \in Delays(n), NEW e \in Delays(n + 1)
    PROVE  d < e \/ e = CapDelay
<1>1. /\ Doubled(n) \in Nat /\ Doubled(n) >= base /\ Doubled(n + 1) = 2 * Doubled(n)
      /\ n + 1 \in Nat /\ base \in Nat \ {0} /\ MaxDuration \in Nat /\ CapDelay \in Nat
  BY Doubling, BaseType, BackoffAssumption
<1>2. Doubled(n) + base <= MaxDuration
  BY <1>1
<1>3. d = CapDelay \/ d \in Doubled(n) .. Doubled(n) + base - 1
  BY Zenon, <1>1, <1>2, BackoffExact
<1>4. e = CapDelay \/ e \in Doubled(n + 1) .. Doubled(n + 1) + base - 1
  BY Zenon, <1>1, BackoffExact
<1>5. d \in 1 .. CapDelay /\ e \in 1 .. CapDelay
  BY Zenon, <1>1, BackoffBounded
<1>6. d = CapDelay => Doubled(n) + base > CapDelay
  <2>1. PICK jitter \in 0 .. base - 1 : d = intervalLiteral(Capped(Doubled(n), jitter))
    BY <1>1, <1>2 DEF Delays, Converted
  <2> QED
    BY <1>1, <1>2, <2>1, BackoffAssumption DEF intervalLiteral, Capped, Wrapped
<1> QED
  BY <1>1, <1>3, <1>4, <1>5, <1>6

(* After enough attempts the product does not fit, and from then on the    *)
(* delay may be a second: the cap is applied after the overflow.           *)
THEOREM BackoffOverflow ==
    /\ \E n \in Nat : Doubled(n) > MaxDuration
    /\ \A n \in Nat : Doubled(n) > MaxDuration =>
          Second \in Delays(n) /\ Doubled(n + 1) > MaxDuration
<1>1. MaxDuration \in Nat /\ Doubled(MaxDuration) > MaxDuration
  BY Doubling, BackoffAssumption
<1>2. ASSUME NEW n \in Nat, Doubled(n) > MaxDuration
      PROVE  Second \in Delays(n) /\ Doubled(n + 1) > MaxDuration
  <2>1. 0 - MaxDuration - 1 \in Converted(Doubled(n))
    BY <1>2, BackoffAssumption, DoubledType DEF Converted
  <2>2. intervalLiteral(Capped(0 - MaxDuration - 1, 0)) = Second
    BY BackoffAssumption DEF intervalLiteral, Capped, Wrapped
  <2>3. 0 \in 0 .. base - 1
    BY BaseType
  <2>4. Second \in Delays(n)
    BY <2>1, <2>2, <2>3 DEF Delays
  <2>5. Doubled(n + 1) > MaxDuration
    BY <1>1, <1>2, Doubling
  <2> QED
    BY Zenon, <2>4, <2>5
<1> QED
  BY Zenon, <1>1, <1>2

(* So a delay is a natural number. *)
LEMMA DelayType == \A n \in Nat : \A d \in Delays(n) : d \in Nat
  BY BackoffBounded
=============================================================================
