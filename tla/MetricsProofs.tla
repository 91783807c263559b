---------------------------- MODULE MetricsProofs ----------------------------
(***************************************************************************)
(* Theorems about Metrics: what the numbers of a stats.tick add up to,     *)
(* although the counters of Redis are incremented and read one by one.     *)
(***************************************************************************)
EXTENDS Metrics, FiniteSetTheorems, WellFoundedInduction, TLAPS

(* A set with 0 and the successors of its members has all numbers.  (The   *)
(* least number outside of it would be the successor of one inside.)       *)
LEMMA SetInduction ==
    ASSUME NEW S, 0 \in S, \A n \in Nat : n \in S => n + 1 \in S
    PROVE  \A n \in Nat : n \in S
<1> DEFINE T == {n \in Nat : n \notin S}
           R == OpToRel(<, Nat)
<1> SUFFICES ASSUME T # {} PROVE FALSE
  OBVIOUS
<1>1. \A x, y \in Nat : x < y => <<x, y>> \in R
  BY Zenon DEF OpToRel
<1>2. PICK m \in T : \A y \in T : ~(<<y, m>> \in R)
  <2>1. T \subseteq Nat /\ IsWellFoundedOn(R, Nat)
    BY Zenon, NatLessThanWellFounded
  <2> HIDE DEF T, R
  <2> QED
    BY Zenon, <2>1, WFMin
<1>3. m \in Nat /\ m # 0
  BY Zenon
<1>4. m - 1 \in Nat /\ m - 1 < m /\ m - 1 + 1 = m
  BY <1>3
<1>5. m - 1 \in S
  BY Zenon, <1>1, <1>2, <1>3, <1>4
<1> QED
  BY Zenon, <1>4, <1>5

(* The bounds are numbers. *)
LEMMA Bounds ==
    /\ Window \in Nat /\ Window > 0 /\ Expiry \in Nat /\ Window <= Expiry
    /\ MaxNow \in Nat /\ MaxRetries \in Nat /\ Seconds \subseteq Nat /\ IsFiniteSet(Conns) /\ NULL \notin Nat
  BY MetricsAssumption DEF Seconds

-----------------------------------------------------------------------------
(* Sums. *)

(* The recursive definition of SumBefore defines a function. *)
LEMMA SumBeforeDef ==
    ASSUME NEW f \in [Seconds -> Nat]
    PROVE  /\ SumBefore(f) \in [0 .. MaxNow + 1 -> Nat]
           /\ SumBefore(f)[0] = 0
           /\ \A n \in Seconds : SumBefore(f)[n + 1] = SumBefore(f)[n] + f[n]
<1> DEFINE Sums(n) == {g \in [0 .. n -> Nat] : /\ g[0] = 0
                                               /\ \A i \in 1 .. n : g[i] = g[i - 1] + f[i - 1]}
           S == SumBefore(f)
<1>0. MaxNow \in Nat /\ \A i \in 1 .. MaxNow + 1 : i - 1 \in Seconds /\ f[i - 1] \in Nat
  BY Bounds DEF Seconds
<1>1. \A n \in Nat : n <= MaxNow + 1 => Sums(n) # {}
  <2> DEFINE D == {n \in Nat : n <= MaxNow + 1 => Sums(n) # {}}
  <2>1. 0 \in D
    <3> DEFINE g == [i \in 0 .. 0 |-> 0]
    <3>1. g \in [0 .. 0 -> Nat] /\ g[0] = 0
      OBVIOUS
    <3>2. \A i \in 1 .. 0 : FALSE
      OBVIOUS
    <3>3. g \in Sums(0)
      <4> HIDE DEF g
      <4> QED
        BY Zenon, <3>1, <3>2
    <3> QED
      BY Zenon, <3>3
  <2>2. ASSUME NEW n \in Nat, n \in D PROVE n + 1 \in D
    <3>0. n + 1 \in Nat /\ (n + 1 <= MaxNow + 1 => n <= MaxNow + 1)
      BY <1>0
    <3> SUFFICES ASSUME n + 1 <= MaxNow + 1 PROVE Sums(n + 1) # {}
      BY Zenon, <3>0
    <3>1. PICK g : g \in Sums(n)
      BY Zenon, <2>2, <3>0
    <3> DEFINE h == [i \in 0 .. n + 1 |-> IF i = n + 1 THEN g[n] + f[n] ELSE g[i]]
    <3>2. f[n] \in Nat /\ n \in 0 .. n
      BY <1>0 DEF Seconds
    <3>3. h \in [0 .. n + 1 -> Nat] /\ h[0] = 0
      BY <3>1, <3>2
    <3>4. ASSUME NEW i \in 1 .. n + 1 PROVE h[i] = h[i - 1] + f[i - 1]
      BY <3>1, <3>2
    <3>5. h \in Sums(n + 1)
      <4> HIDE DEF h
      <4> QED
        BY Zenon, <3>3, <3>4
    <3> QED
      BY Zenon, <3>5
  <2> HIDE DEF D
  <2>3. \A n \in Nat : n \in D
    BY Zenon, <2>1, <2>2, SetInduction
  <2> QED
    BY <2>3 DEF D
<1>2. PICK g : g \in Sums(MaxNow + 1)
  <2>1. MaxNow + 1 \in Nat /\ MaxNow + 1 <= MaxNow + 1
    BY <1>0
  <2> QED
    BY Zenon, <1>1, <2>1
<1>3. g = [n \in 0 .. MaxNow + 1 |-> IF n = 0 THEN 0 ELSE g[n - 1] + f[n - 1]]
  <2>1. g \in [0 .. MaxNow + 1 -> Nat]
    BY Zenon, <1>2
  <2>2. ASSUME NEW n \in 0 .. MaxNow + 1 PROVE g[n] = IF n = 0 THEN 0 ELSE g[n - 1] + f[n - 1]
    BY <1>0, <1>2
  <2> QED
    BY Zenon, <2>1, <2>2
<1>4. S = [n \in 0 .. MaxNow + 1 |-> IF n = 0 THEN 0 ELSE S[n - 1] + f[n - 1]]
  <2> DEFINE Eq(h) == h = [n \in 0 .. MaxNow + 1 |-> IF n = 0 THEN 0 ELSE h[n - 1] + f[n - 1]]
  <2>1. S = CHOOSE h : Eq(h)
    BY Zenon DEF SumBefore
  <2>2. Eq(g)
    BY Zenon, <1>3
  <2> HIDE DEF Eq, S
  <2>3. Eq(S)
    BY Zenon, <2>1, <2>2
  <2> QED
    BY Zenon, <2>3 DEF Eq
<1> HIDE DEF S
<1>5. S[0] = 0 /\ \A n \in Seconds : S[n + 1] = S[n] + f[n]
  BY <1>0, <1>4 DEF Seconds
<1>6. \A n \in Nat : n <= MaxNow + 1 => S[n] \in Nat
  <2> DEFINE D == {n \in Nat : n <= MaxNow + 1 => S[n] \in Nat}
  <2>1. 0 \in D
    BY <1>5
  <2>2. ASSUME NEW n \in Nat, n \in D PROVE n + 1 \in D
    BY <1>0, <1>5, <2>2 DEF Seconds
  <2> HIDE DEF D
  <2>3. \A n \in Nat : n \in D
    BY Zenon, <2>1, <2>2, SetInduction
  <2> QED
    BY <2>3 DEF D
<1>7. S \in [0 .. MaxNow + 1 -> Nat]
  BY <1>0, <1>4, <1>6
<1> QED
  BY Zenon, <1>5, <1>7 DEF S

(* A sum grows with the seconds it is over. *)
LEMMA SumMonotone ==
    ASSUME NEW f \in [Seconds -> Nat], NEW m \in 0 .. MaxNow + 1, NEW n \in 0 .. MaxNow + 1, m <= n
    PROVE  SumBefore(f)[m] <= SumBefore(f)[n]
<1> DEFINE S == SumBefore(f)
           D == {d \in Nat : m + d <= MaxNow + 1 => S[m] <= S[m + d]}
<1>0. MaxNow \in Nat /\ S \in [0 .. MaxNow + 1 -> Nat] /\ \A i \in Seconds : S[i + 1] = S[i] + f[i]
  BY Bounds, SumBeforeDef
<1> HIDE DEF S
<1>1. 0 \in D
  BY <1>0
<1>2. ASSUME NEW d \in Nat, d \in D PROVE d + 1 \in D
  <2> SUFFICES ASSUME m + (d + 1) <= MaxNow + 1 PROVE S[m] <= S[m + (d + 1)]
    OBVIOUS
  <2>1. m + d \in Seconds /\ m + d \in 0 .. MaxNow + 1 /\ m + (d + 1) = m + d + 1 /\ m + d <= MaxNow + 1
    BY <1>0 DEF Seconds
  <2>2. S[m] <= S[m + d] /\ S[m + d + 1] = S[m + d] + f[m + d]
    BY Zenon, <1>0, <1>2, <2>1
  <2>3. f[m + d] \in Nat /\ S[m] \in Nat /\ S[m + d] \in Nat
    BY Zenon, <1>0, <2>1
  <2>4. S[m] <= S[m + d] + f[m + d]
    BY <2>2, <2>3
  <2> QED
    BY Zenon, <2>1, <2>2, <2>4
<1> HIDE DEF D
<1>3. \A d \in Nat : d \in D
  BY Zenon, <1>1, <1>2, SetInduction
<1>4. n - m \in Nat /\ m + (n - m) = n /\ n <= MaxNow + 1
  BY <1>0
<1>5. S[m] <= S[m + (n - m)]
  BY <1>3, <1>4 DEF D
<1> QED
  BY <1>4, <1>5 DEF S

(* One more in second k is one more in the sums over it. *)
LEMMA SumIncrement ==
    ASSUME NEW f \in [Seconds -> Nat], NEW k \in Seconds, NEW n \in 0 .. MaxNow + 1
    PROVE  SumBefore([f EXCEPT ![k] = @ + 1])[n] = SumBefore(f)[n] + IF k < n THEN 1 ELSE 0
<1> DEFINE h == [f EXCEPT ![k] = @ + 1]
           S == SumBefore(f)
           U == SumBefore(h)
           D == {i \in Nat : i <= MaxNow + 1 => U[i] = S[i] + IF k < i THEN 1 ELSE 0}
<1>0. MaxNow \in Nat /\ k \in Nat /\ Seconds = 0 .. MaxNow
  BY Bounds DEF Seconds
<1>1. h \in [Seconds -> Nat] /\ \A i \in Seconds : h[i] = f[i] + IF i = k THEN 1 ELSE 0
  BY <1>0
<1>2. /\ S \in [0 .. MaxNow + 1 -> Nat] /\ S[0] = 0 /\ \A i \in Seconds : S[i + 1] = S[i] + f[i]
      /\ U \in [0 .. MaxNow + 1 -> Nat] /\ U[0] = 0 /\ \A i \in Seconds : U[i + 1] = U[i] + h[i]
  <2> HIDE DEF h
  <2> QED
    BY Zenon, <1>1, SumBeforeDef
<1> HIDE DEF h, S, U
<1>3. 0 \in D
  BY <1>0, <1>2
<1>4. ASSUME NEW i \in Nat, i \in D PROVE i + 1 \in D
  <2> SUFFICES ASSUME i + 1 <= MaxNow + 1 PROVE U[i + 1] = S[i + 1] + IF k < i + 1 THEN 1 ELSE 0
    OBVIOUS
  <2>1. i \in Seconds /\ i \in 0 .. MaxNow + 1 /\ i <= MaxNow + 1
    BY <1>0
  <2>2. U[i] = S[i] + IF k < i THEN 1 ELSE 0
    BY Zenon, <1>4, <2>1
  <2>3. /\ U[i + 1] = U[i] + h[i] /\ S[i + 1] = S[i] + f[i] /\ h[i] = f[i] + IF i = k THEN 1 ELSE 0
        /\ S[i] \in Nat /\ U[i] \in Nat /\ f[i] \in Nat /\ h[i] \in Nat
    BY Zenon, <1>1, <1>2, <2>1
  <2>4. CASE k < i
    BY <1>0, <2>2, <2>3, <2>4
  <2>5. CASE k = i
    <3>1. ~(k < i) /\ k < i + 1
      BY <1>0, <2>5
    <3>2. U[i] = S[i] + 0 /\ h[i] = f[i] + 1
      BY Zenon, <2>2, <2>3, <2>5, <3>1
    <3>3. U[i + 1] = S[i + 1] + 1
      BY <2>3, <3>2
    <3> QED
      BY Zenon, <3>1, <3>3
  <2>6. CASE k > i
    BY <1>0, <2>2, <2>3, <2>6
  <2> QED
    BY <1>0, <2>4, <2>5, <2>6
<1> HIDE DEF D
<1>5. \A i \in Nat : i \in D
  BY Zenon, <1>3, <1>4, SetInduction
<1>6. U[n] = S[n] + IF k < n THEN 1 ELSE 0
  BY <1>0, <1>5 DEF D
<1> QED
  BY Zenon, <1>6 DEF h, S, U

-----------------------------------------------------------------------------
(* RecordComplete, step by step. *)

(* What is left to do at each step. *)
Todo0 == <<"time", "completed", "throughput", "expire">>
Todo1 == <<"completed", "throughput", "expire">>
Todo2 == <<"throughput", "expire">>
Todo3 == <<"expire">>

(* A recorder is idle, or at one of these steps, or waits for the replies; *)
(* once it has read the clock, its second is not in the future.            *)
AtStep(r, time) ==
    \/ r = Idle
    \/ /\ r.status \in Completed
       /\ \/ r.todo = Todo0 /\ r.second = NULL
          \/ /\ r.todo \in {Todo1, Todo2, Todo3, <<>>}
             /\ r.second \in Seconds /\ r.second <= time

Staged == \A s \in Conns : AtStep(recorder[s], now)

(* How the steps follow each other. *)
LEMMA Steps ==
    /\ RecordComplete = Todo0
    /\ Head(Todo0) = "time" /\ Tail(Todo0) = Todo1
    /\ Head(Todo1) = "completed" /\ Tail(Todo1) = Todo2
    /\ Head(Todo2) = "throughput" /\ Tail(Todo2) = Todo3
    /\ Head(Todo3) = "expire" /\ Tail(Todo3) = <<>>
    /\ \A t \in {Todo0, Todo1, Todo2, Todo3} :
          t # <<>> /\ t \in Seq({"time", "completed", "throughput", "expire"})
    /\ Todo0 # Todo1 /\ Todo0 # Todo2 /\ Todo0 # Todo3
    /\ Todo1 # Todo2 /\ Todo1 # Todo3 /\ Todo2 # Todo3
<1> USE DEF Todo0, Todo1, Todo2, Todo3
<1>1. Len(Todo0) = 4 /\ Len(Todo1) = 3 /\ Len(Todo2) = 2 /\ Len(Todo3) = 1 /\ Len(<<>>) = 0
  OBVIOUS
<1>2. RecordComplete = Todo0
  BY DEF RecordComplete
<1>3. Head(Todo0) = "time" /\ Head(Todo1) = "completed" /\ Head(Todo2) = "throughput" /\ Head(Todo3) = "expire"
  OBVIOUS
<1>4. Tail(Todo0) = Todo1
  OBVIOUS
<1>5. Tail(Todo1) = Todo2
  OBVIOUS
<1>6. Tail(Todo2) = Todo3 /\ Tail(Todo3) = <<>>
  OBVIOUS
<1>7. \A t \in {Todo0, Todo1, Todo2, Todo3} : t \in Seq({"time", "completed", "throughput", "expire"})
  <2> DEFINE Words == {"time", "completed", "throughput", "expire"}
  <2>1. Todo0 \in Seq(Words)
    OBVIOUS
  <2>2. Todo1 \in Seq(Words)
    OBVIOUS
  <2>3. Todo2 \in Seq(Words) /\ Todo3 \in Seq(Words)
    OBVIOUS
  <2> QED
    BY Zenon, <2>1, <2>2, <2>3
<1> HIDE DEF Todo0, Todo1, Todo2, Todo3
<1>8. \A t \in {Todo0, Todo1, Todo2, Todo3} : t # <<>>
  BY <1>1
<1>9. /\ Todo0 # Todo1 /\ Todo0 # Todo2 /\ Todo0 # Todo3
      /\ Todo1 # Todo2 /\ Todo1 # Todo3 /\ Todo2 # Todo3
  BY <1>1
<1> QED
  BY Zenon, <1>2, <1>3, <1>4, <1>5, <1>6, <1>7, <1>8, <1>9

(* The recorder on connection s goes on to what is in todo. *)
GoesOn(s, todo, second) ==
    recorder' = [recorder EXCEPT ![s] = [todo |-> todo, status |-> recorder[s].status, second |-> second,
                                         retries |-> recorder[s].retries]]

ReadsClock(s) ==
    /\ recorder[s].todo = Todo0 /\ GoesOn(s, Todo1, now)
    /\ UNCHANGED <<completed, throughput, counted, expires>>

IncrementsCompleted(s) ==
    /\ recorder[s].todo = Todo1 /\ GoesOn(s, Todo2, recorder[s].second)
    /\ completed' = [completed EXCEPT ![recorder[s].status] = @ + 1]
    /\ UNCHANGED <<throughput, counted, expires>>

IncrementsThroughput(s) ==
    /\ recorder[s].todo = Todo2 /\ GoesOn(s, Todo3, recorder[s].second)
    /\ throughput' = [throughput EXCEPT ![recorder[s].second] = @ + 1]
    /\ counted' = [counted EXCEPT ![recorder[s].second] = @ + 1]
    /\ UNCHANGED <<completed, expires>>

SetsExpiry(s) ==
    /\ recorder[s].todo = Todo3
    /\ recorder' = [recorder EXCEPT ![s] = Idle] \/ GoesOn(s, <<>>, recorder[s].second)
    /\ \/ expires' = [expires EXCEPT ![recorder[s].second] = now + Expiry]
       \/ UNCHANGED expires
    /\ UNCHANGED <<completed, throughput, counted>>

(* Exec is one of these. *)
LEMMA ExecCases ==
    ASSUME Staged, NEW s \in Conns, Exec(s)
    PROVE  /\ recorder[s].status \in Completed
           /\ recorder[s].todo # Todo0 => recorder[s].second \in Seconds /\ recorder[s].second <= now
           /\ UNCHANGED <<now, settled, resent, tick, published, faults>>
           /\ ReadsClock(s) \/ IncrementsCompleted(s) \/ IncrementsThroughput(s) \/ SetsExpiry(s)
<1>1. /\ recorder[s].status \in Completed
      /\ \/ recorder[s].todo = Todo0
         \/ /\ recorder[s].todo \in {Todo1, Todo2, Todo3}
            /\ recorder[s].second \in Seconds /\ recorder[s].second <= now
  <2>1. recorder[s].todo # <<>> /\ Idle.todo = <<>>
    BY Zenon DEF Exec, Idle
  <2>2. AtStep(recorder[s], now)
    BY Zenon DEF Staged
  <2> QED
    BY Zenon, <2>1, <2>2 DEF AtStep
<1>2. UNCHANGED <<now, settled, resent, tick, published, faults>>
  BY Zenon DEF Exec, ticks
<1>3. ASSUME recorder[s].todo = Todo0 PROVE ReadsClock(s)
  <2>1. Head(recorder[s].todo) = "time" /\ Tail(recorder[s].todo) = Todo1 /\ Todo1 # <<>>
    BY Zenon, <1>3, Steps
  <2>2. GoesOn(s, Todo1, now)
    BY Zenon, <2>1 DEF Exec, GoesOn
  <2>3. UNCHANGED <<completed, throughput, counted, expires>>
    BY Zenon, <2>1 DEF Exec
  <2> QED
    BY Zenon, <1>3, <2>2, <2>3 DEF ReadsClock
<1>4. ASSUME recorder[s].todo = Todo1 PROVE IncrementsCompleted(s)
  <2>1. Head(recorder[s].todo) = "completed" /\ Tail(recorder[s].todo) = Todo2 /\ Todo2 # <<>>
    BY Zenon, <1>4, Steps
  <2>2. GoesOn(s, Todo2, recorder[s].second)
    BY Zenon, <2>1 DEF Exec, GoesOn
  <2>3. /\ completed' = [completed EXCEPT ![recorder[s].status] = @ + 1]
        /\ UNCHANGED <<throughput, counted, expires>>
    BY Zenon, <2>1 DEF Exec
  <2> QED
    BY Zenon, <1>4, <2>2, <2>3 DEF IncrementsCompleted
<1>5. ASSUME recorder[s].todo = Todo2 PROVE IncrementsThroughput(s)
  <2>1. Head(recorder[s].todo) = "throughput" /\ Tail(recorder[s].todo) = Todo3 /\ Todo3 # <<>>
    BY Zenon, <1>5, Steps
  <2>2. GoesOn(s, Todo3, recorder[s].second)
    BY Zenon, <2>1 DEF Exec, GoesOn
  <2>3. /\ throughput' = [throughput EXCEPT ![recorder[s].second] = @ + 1]
        /\ counted' = [counted EXCEPT ![recorder[s].second] = @ + 1]
        /\ UNCHANGED <<completed, expires>>
    BY Zenon, <2>1 DEF Exec
  <2> QED
    BY Zenon, <1>5, <2>2, <2>3 DEF IncrementsThroughput
<1>6. ASSUME recorder[s].todo = Todo3 PROVE SetsExpiry(s)
  <2>1. Head(recorder[s].todo) = "expire" /\ Tail(recorder[s].todo) = <<>>
    BY Zenon, <1>6, Steps
  <2>2. recorder' = [recorder EXCEPT ![s] = Idle] \/ GoesOn(s, <<>>, recorder[s].second)
    BY Zenon, <2>1 DEF Exec, GoesOn
  <2>3. /\ expires' = [expires EXCEPT ![recorder[s].second] = now + Expiry] \/ UNCHANGED expires
        /\ UNCHANGED <<completed, throughput, counted>>
    BY Zenon, <2>1 DEF Exec
  <2> QED
    BY Zenon, <1>6, <2>2, <2>3 DEF SetsExpiry
<1> QED
  BY Zenon, <1>1, <1>2, <1>3, <1>4, <1>5, <1>6

-----------------------------------------------------------------------------
(* A tick, step by step. *)

(* The seconds of a window lie before the end of it. *)
LEMMA FromType ==
    ASSUME NEW t \in Seconds, NEW k \in Nat
    PROVE  /\ From(t, k) \in 0 .. MaxNow + 1 /\ From(t, k) <= t + 1 /\ t + 1 \in 0 .. MaxNow + 1
           /\ From(t, k + 1) <= From(t, k)
           /\ From(t, k) \in Nat
  BY Bounds DEF From, Seconds

(* What can be counted is a number. *)
LEMMA CountableType ==
    ASSUME counted \in [Seconds -> Nat], NEW t \in Seconds
    PROVE  Countable(t) \in Nat
<1> DEFINE S == SumBefore(counted)
<1>1. /\ From(t, Window) \in 0 .. MaxNow + 1 /\ t + 1 \in 0 .. MaxNow + 1 /\ From(t, Window) <= t + 1
  BY Zenon, FromType, Bounds
<1>2. S[From(t, Window)] \in Nat /\ S[t + 1] \in Nat
  BY Zenon, <1>1, SumBeforeDef
<1>3. S[From(t, Window)] <= S[t + 1]
  BY Zenon, <1>1, SumMonotone
<1> HIDE DEF S
<1>4. S[t + 1] - S[From(t, Window)] \in Nat
  BY <1>2, <1>3
<1> QED
  BY Zenon, <1>4 DEF S, Countable

(* What a GET of throughput changes. *)
LEMMA WindowReadFacts ==
    ASSUME MetricsTypeOK, NEW v \in Nat
    PROVE  LET r == WindowRead(v)
           IN /\ r \in Tick
              /\ r.window = tick.window + v
              /\ r.at = tick.at /\ r.atStart = tick.atStart /\ r.total = tick.total /\ r.intact = tick.intact
              /\ tick.i + 1 < Window => r.pc = tick.pc /\ r.i = tick.i + 1 /\ r.floor = tick.floor
              /\ ~(tick.i + 1 < Window) => r.pc = "total" /\ r.i = 0 /\ r.floor = Total
<1>1. tick \in Tick /\ tick.window + v \in Nat /\ tick.i + 1 \in Nat
  BY DEF MetricsTypeOK, Tick
<1>2. Total \in Nat
  BY DEF MetricsTypeOK, Total, Completed
<1>3. CASE tick.i + 1 < Window
  <2>1. WindowRead(v) = [tick EXCEPT !.window = tick.window + v, !.i = tick.i + 1, !.pc = tick.pc, !.floor = tick.floor]
    BY Zenon, <1>3 DEF WindowRead
  <2> QED
    BY ZenonT(60), <1>1, <1>3, <2>1 DEF Tick
<1>4. CASE ~(tick.i + 1 < Window)
  <2>1. WindowRead(v) = [tick EXCEPT !.window = tick.window + v, !.i = 0, !.pc = "total", !.floor = Total]
    BY Zenon, <1>4 DEF WindowRead
  <2>2. 0 \in Nat
    OBVIOUS
  <2> QED
    BY ZenonT(60), <1>1, <1>2, <1>4, <2>1, <2>2 DEF Tick
<1> QED
  BY Zenon, <1>3, <1>4

(* What a GET of a counter changes. *)
LEMMA TotalReadFacts ==
    ASSUME MetricsTypeOK, NEW v \in Nat
    PROVE  LET r == TotalRead(v)
           IN /\ r \in Tick
              /\ r.total = tick.total + v
              /\ r.window = tick.window /\ r.floor = tick.floor /\ r.intact = tick.intact
              /\ tick.i + 1 < 3 => /\ r.pc = tick.pc /\ r.i = tick.i + 1
                                   /\ r.at = tick.at /\ r.atStart = tick.atStart
              /\ ~(tick.i + 1 < 3) => r.pc = "publish" /\ r.at = 0
<1>1. tick \in Tick /\ tick.total + v \in Nat /\ tick.i + 1 \in Nat /\ 0 \in Nat /\ 0 \in Seconds
  <2>1. tick \in Tick /\ tick.total \in Nat /\ tick.i \in Nat
    BY Zenon DEF MetricsTypeOK, Tick
  <2>2. 0 \in Seconds
    BY Bounds DEF Seconds
  <2> QED
    BY <2>1, <2>2
<1>2. Len(Statuses) = 3
  BY DEF Statuses
<1>3. CASE tick.i + 1 < 3
  <2>1. TotalRead(v) = [tick EXCEPT !.total = tick.total + v, !.i = tick.i + 1]
    BY Zenon, <1>2, <1>3 DEF TotalRead
  <2> QED
    BY ZenonT(60), <1>1, <1>3, <2>1 DEF Tick
<1>4. CASE ~(tick.i + 1 < 3)
  <2>1. TotalRead(v) = [tick EXCEPT !.total = tick.total + v, !.pc = "publish", !.at = 0, !.atStart = 0]
    BY Zenon, <1>2, <1>4 DEF TotalRead
  <2> QED
    BY ZenonT(60), <1>1, <1>4, <2>1 DEF Tick
<1> QED
  BY Zenon, <1>3, <1>4

-----------------------------------------------------------------------------
(* The inductive invariant. *)

(* Connections whose pipeline has counted nothing yet, and those whose has *)
(* counted the attempt but not in its second.                              *)
Uncounted == {s \in Conns : recorder[s].todo \in {Todo0, Todo1}}
Halfway == {s \in Conns : recorder[s].todo = Todo2}

(* An attempt is settled before it is counted, and counted before it is    *)
(* counted in its second: with those on the way, there is no more of the   *)
(* one than of the other.                                                  *)
Counts ==
    /\ Total + Cardinality(Uncounted) <= settled + resent
    /\ SumBefore(counted)[MaxNow + 1] + Cardinality(Halfway) <= Total

(* A key holds what it was incremented by, for Expiry seconds at least. *)
Kept ==
    \A t \in Seconds :
        /\ expires[t] # NULL => t + Expiry <= expires[t]
        /\ throughput[t] <= counted[t]
        /\ now < t + Expiry => throughput[t] = counted[t]

(* What the first i counters hold, and what the others do. *)
Got(i) == (IF i > 0 THEN completed["succeeded"] ELSE 0) + (IF i > 1 THEN completed["dead"] ELSE 0)
Rest(i) == completed["failed"] + (IF i < 2 THEN completed["dead"] ELSE 0) + (IF i < 1 THEN completed["succeeded"] ELSE 0)

(* The total that the last tick showed. *)
Shown == IF published = NULL THEN 0 ELSE published.total

(* The loop over the window has read no more than the seconds it is past   *)
(* have counted, and with the seconds before it has all it began with.     *)
WindowSoFar ==
    tick.pc = "window" =>
        /\ tick.i < Window
        /\ tick.window <= SumBefore(counted)[tick.at + 1] - SumBefore(counted)[From(tick.at, tick.i)]
        /\ tick.intact /\ now < tick.at + 1 + Expiry - Window =>
              tick.atStart <= tick.window + SumBefore(counted)[From(tick.at, tick.i)]
                                          - SumBefore(counted)[From(tick.at, Window)]

(* The loop over the counters has read no more than these hold, and with   *)
(* the others it has all it began with.                                    *)
TotalSoFar ==
    /\ tick.pc = "total" => /\ tick.i \in 0 .. 2
                            /\ tick.total <= Got(tick.i)
                            /\ tick.intact => tick.floor <= tick.total + Rest(tick.i)
    /\ tick.pc = "publish" => tick.total <= Total /\ (tick.intact => tick.floor <= tick.total)
    /\ tick.pc \in {"total", "publish"} => tick.window <= tick.floor /\ Shown <= tick.floor

Reading ==
    /\ tick.at <= now /\ Shown <= Total
    /\ tick.pc \in {"idle", "window"} => tick.total = 0
    /\ tick.pc = "idle" => tick.window = 0 /\ tick.i = 0
    /\ WindowSoFar /\ TotalSoFar /\ WindowCounts

-----------------------------------------------------------------------------
(* The types, and the steps of the recorders. *)

(* A step of a worker, or of the clock. *)
WorkerStep ==
    \/ \E s \in Conns : Settle(s) \/ Exec(s) \/ Reply(s) \/ ExecFails(s)
    \/ \E s, q \in Conns : Resend(s, q)
    \/ Pass

(* What the workers do, and what the ticker does. *)
LEMMA NextCases ==
    ASSUME [Next]_vars
    PROVE  \/ WorkerStep
           \/ Snapshot \/ ReadWindow \/ ReadTotal \/ ReadFails \/ Publish
           \/ UNCHANGED vars
  BY Zenon DEF Next, Ticking, WorkerStep

(* A ticker's step leaves the workers and Redis alone. *)
LEMMA TickerFrame ==
    ASSUME Snapshot \/ ReadWindow \/ ReadTotal \/ ReadFails \/ Publish \/ UNCHANGED vars
    PROVE  UNCHANGED <<now, settled, resent, recorder, completed, throughput, expires, counted>>
  BY Zenon DEF Snapshot, ReadWindow, ReadTotal, ReadFails, Publish, vars, redis

(* A step of a worker, or of the clock, leaves the ticker alone. *)
LEMMA WorkerFrame ==
    ASSUME WorkerStep
    PROVE  UNCHANGED <<tick, published>>
  BY Zenon DEF WorkerStep, Settle, Exec, Reply, ExecFails, Resend, Pass, ticks

(* No pipeline at all. *)
LEMMA IdleType == Idle \in Recorder
<1>1. <<>> \in Seq({"time", "completed", "throughput", "expire"})
  OBVIOUS
<1> QED
  BY Zenon, <1>1 DEF Idle, Recorder

(* The pipeline of connection c is sent again on d. *)
SentAgain(c, d, left, again) ==
    /\ recorder' = [recorder EXCEPT ![c] = left, ![d] = again]
    /\ left \in Recorder /\ AtStep(left, now) /\ left.todo = recorder[c].todo
    /\ again \in Recorder /\ AtStep(again, now) /\ again.todo = Todo1

(* It is that of an attempt that has its second. *)
LEMMA ResendFacts ==
    ASSUME MetricsTypeOK, Staged, NEW c \in Conns, NEW d \in Conns, Resend(c, d)
    PROVE  /\ c # d /\ recorder[d] = Idle
           /\ resent' = resent + 1 /\ faults' = faults + 1
           /\ UNCHANGED <<now, settled, completed, throughput, expires, counted>>
           /\ \E left, again : SentAgain(c, d, left, again)
<1> DEFINE sent == recorder[c]
           left == IF sent.todo = <<>> THEN Idle ELSE [sent EXCEPT !.retries = NULL]
           again == [todo |-> Tail(RecordComplete), status |-> sent.status, second |-> sent.second,
                     retries |-> sent.retries - 1]
<1>1. sent \in Recorder /\ sent.retries \in Nat \cup {NULL}
  BY Zenon DEF MetricsTypeOK, Recorder
<1>2. sent.second # NULL /\ sent.retries # NULL /\ sent.retries # 0
  BY Zenon DEF Resend
<1>3. sent.retries - 1 \in Nat
  BY <1>1, <1>2
<1>4. /\ sent.status \in Completed /\ sent.todo \in {Todo1, Todo2, Todo3, <<>>}
      /\ sent.second \in Seconds /\ sent.second <= now
  <2>1. AtStep(sent, now) /\ Idle.second = NULL
    BY Zenon DEF Staged, Idle
  <2> QED
    BY Zenon, <1>2, <2>1 DEF AtStep
<1>5. recorder' = [recorder EXCEPT ![c] = left, ![d] = again]
  BY Zenon DEF Resend
<1>6. again \in Recorder /\ AtStep(again, now) /\ again.todo = Todo1
  BY Zenon, <1>3, <1>4, Steps DEF Recorder, AtStep
<1>7. left \in Recorder /\ AtStep(left, now) /\ left.todo = sent.todo
  <2>1. CASE sent.todo = <<>>
    <3>1. left = Idle /\ Idle.todo = <<>>
      BY Zenon, <2>1 DEF Idle
    <3> QED
      BY Zenon, <2>1, <3>1, IdleType DEF AtStep
  <2>2. CASE sent.todo # <<>>
    <3>1. left = [sent EXCEPT !.retries = NULL]
      BY Zenon, <2>2
    <3>2. left \in Recorder /\ left.todo = sent.todo /\ left.status = sent.status /\ left.second = sent.second
      BY <1>1, <3>1 DEF Recorder
    <3> HIDE DEF left
    <3> QED
      BY Zenon, <1>4, <3>2 DEF AtStep
  <2> QED
    BY Zenon, <2>1, <2>2
<1>8. /\ c # d /\ recorder[d] = Idle
      /\ resent' = resent + 1 /\ faults' = faults + 1
      /\ UNCHANGED <<now, settled, completed, throughput, expires, counted>>
  BY Zenon DEF Resend, Fault, redis
<1> HIDE DEF left, again
<1>9. SentAgain(c, d, left, again)
  BY Zenon, <1>5, <1>6, <1>7 DEF SentAgain
<1> QED
  BY Zenon, <1>8, <1>9

(* The first state is well-formed. *)
LEMMA MetricsTypeInit ==
    ASSUME Init
    PROVE  MetricsTypeOK /\ Staged
<1>1. 0 \in Seconds /\ 0 \in Nat
  BY Bounds DEF Seconds
<1>2. Idle \in Recorder
  BY Zenon, IdleType
<1>3. IdleTick \in Tick
  BY Zenon, <1>1 DEF IdleTick, Tick
<1> QED
  BY ZenonT(30), <1>1, <1>2, <1>3 DEF Init, MetricsTypeOK, Staged, AtStep

(* Steps of the workers and of the clock keep the types. *)
LEMMA WorkerTypes ==
    ASSUME MetricsTypeOK, Staged,
           WorkerStep
    PROVE  MetricsTypeOK'
<1>0. UNCHANGED <<tick, published>>
  BY Zenon, WorkerFrame
<1>a. Idle \in Recorder
  BY Zenon, IdleType
<1>b. ASSUME NEW todo \in {Todo0, Todo1, Todo2, Todo3, <<>>}, NEW status \in Completed,
             NEW second \in Seconds \cup {NULL}, NEW retries \in Nat \cup {NULL}
      PROVE  [todo |-> todo, status |-> status, second |-> second, retries |-> retries] \in Recorder
  <2>1. todo \in Seq({"time", "completed", "throughput", "expire"})
    BY Zenon, Steps, IdleType DEF Idle, Recorder
  <2> QED
    BY Zenon, <2>1 DEF Recorder
<1>c. \A s \in Conns : recorder[s].retries \in Nat \cup {NULL}
  BY Zenon DEF MetricsTypeOK, Recorder
<1>1. ASSUME NEW s \in Conns, Settle(s) PROVE MetricsTypeOK'
  <2>1. settled' \in Nat
    BY <1>1 DEF Settle, MetricsTypeOK
  <2>2. PICK status \in Completed :
          recorder' = [recorder EXCEPT ![s] = [todo |-> Todo0, status |-> status, second |-> NULL,
                                               retries |-> MaxRetries]]
    BY Zenon, <1>1, Steps DEF Settle
  <2>3. recorder' \in [Conns -> Recorder]
    BY Zenon, <1>b, <2>2, Bounds DEF MetricsTypeOK
  <2> QED
    BY Zenon, <1>0, <1>1, <2>1, <2>3 DEF Settle, MetricsTypeOK, redis
<1>2. ASSUME NEW s \in Conns, Exec(s) PROVE MetricsTypeOK'
  <2>1. /\ recorder[s].status \in Completed
        /\ recorder[s].todo # Todo0 => recorder[s].second \in Seconds /\ recorder[s].second <= now
        /\ UNCHANGED <<now, settled, resent, tick, published, faults>>
        /\ ReadsClock(s) \/ IncrementsCompleted(s) \/ IncrementsThroughput(s) \/ SetsExpiry(s)
    BY Zenon, <1>2, ExecCases
  <2>2. now \in Seconds /\ now + Expiry \in Nat
    BY Bounds DEF MetricsTypeOK, Seconds
  <2>3. CASE ReadsClock(s)
    <3>1. recorder' \in [Conns -> Recorder]
      BY Zenon, <1>b, <1>c, <2>1, <2>2, <2>3 DEF ReadsClock, GoesOn, MetricsTypeOK
    <3> QED
      BY Zenon, <2>1, <2>3, <3>1 DEF ReadsClock, MetricsTypeOK
  <2>4. CASE IncrementsCompleted(s)
    <3>1. recorder' \in [Conns -> Recorder]
      BY Zenon, <1>b, <1>c, <2>1, <2>4, Steps DEF IncrementsCompleted, GoesOn, MetricsTypeOK
    <3>2. completed' \in [Completed -> Nat]
      BY <2>1, <2>4 DEF IncrementsCompleted, MetricsTypeOK
    <3> QED
      BY Zenon, <2>1, <2>4, <3>1, <3>2 DEF IncrementsCompleted, MetricsTypeOK
  <2>5. CASE IncrementsThroughput(s)
    <3>1. recorder' \in [Conns -> Recorder]
      BY Zenon, <1>b, <1>c, <2>1, <2>5, Steps DEF IncrementsThroughput, GoesOn, MetricsTypeOK
    <3>2. throughput' \in [Seconds -> Nat] /\ counted' \in [Seconds -> Nat]
      <4>1. recorder[s].second \in Seconds
        BY Zenon, <2>1, <2>5, Steps DEF IncrementsThroughput
      <4> QED
        BY <2>5, <4>1 DEF IncrementsThroughput, MetricsTypeOK
    <3> QED
      BY Zenon, <2>1, <2>5, <3>1, <3>2 DEF IncrementsThroughput, MetricsTypeOK
  <2>6. CASE SetsExpiry(s)
    <3>1. recorder' \in [Conns -> Recorder]
      <4>1. CASE recorder' = [recorder EXCEPT ![s] = Idle]
        BY Zenon, <1>a, <4>1 DEF MetricsTypeOK
      <4>2. CASE GoesOn(s, <<>>, recorder[s].second)
        <5>1. recorder[s].second \in Seconds
          BY Zenon, <2>1, <2>6, Steps DEF SetsExpiry
        <5>2. [todo |-> <<>>, status |-> recorder[s].status, second |-> recorder[s].second,
               retries |-> recorder[s].retries] \in Recorder
          BY Zenon, <1>b, <1>c, <2>1, <5>1
        <5> QED
          BY Zenon, <4>2, <5>2 DEF GoesOn, MetricsTypeOK
      <4> QED
        BY Zenon, <2>6, <4>1, <4>2 DEF SetsExpiry
    <3>2. expires' \in [Seconds -> Nat \cup {NULL}]
      BY Zenon, <2>1, <2>2, <2>6 DEF SetsExpiry, MetricsTypeOK
    <3> QED
      BY Zenon, <2>1, <2>6, <3>1, <3>2 DEF SetsExpiry, MetricsTypeOK
  <2> QED
    BY Zenon, <2>1, <2>3, <2>4, <2>5, <2>6
<1>3. ASSUME NEW s \in Conns, ExecFails(s) PROVE MetricsTypeOK'
  <2>1. faults' \in Nat
    BY <1>3 DEF ExecFails, Fault, MetricsTypeOK
  <2>2. recorder' \in [Conns -> Recorder]
    BY Zenon, <1>3, <1>a DEF ExecFails, MetricsTypeOK
  <2> QED
    BY Zenon, <1>0, <1>3, <2>1, <2>2 DEF ExecFails, MetricsTypeOK, redis
<1>5. ASSUME NEW s \in Conns, Reply(s) PROVE MetricsTypeOK'
  <2>1. recorder' \in [Conns -> Recorder]
    BY Zenon, <1>5, <1>a DEF Reply, MetricsTypeOK
  <2> QED
    BY Zenon, <1>0, <1>5, <2>1 DEF Reply, MetricsTypeOK, redis
<1>6. ASSUME NEW s \in Conns, NEW q \in Conns, Resend(s, q) PROVE MetricsTypeOK'
  <2>1. PICK left, again : SentAgain(s, q, left, again)
    BY Zenon, <1>6, ResendFacts
  <2>2. recorder' \in [Conns -> Recorder]
    BY Zenon, <2>1 DEF SentAgain, MetricsTypeOK
  <2>3. /\ resent' = resent + 1 /\ faults' = faults + 1
        /\ UNCHANGED <<now, settled, completed, throughput, expires, counted>>
    BY Zenon, <1>6, ResendFacts
  <2>4. resent' \in Nat /\ faults' \in Nat
    BY <2>3 DEF MetricsTypeOK
  <2> QED
    BY Zenon, <1>0, <2>2, <2>3, <2>4 DEF MetricsTypeOK
<1>4. ASSUME Pass PROVE MetricsTypeOK'
  <2>1. now' \in Seconds
    BY <1>4, Bounds DEF Pass, MetricsTypeOK, Seconds
  <2>2. throughput' \in [Seconds -> Nat] /\ expires' \in [Seconds -> Nat \cup {NULL}]
    BY <1>4 DEF Pass, MetricsTypeOK
  <2> QED
    BY Zenon, <1>0, <1>4, <2>1, <2>2 DEF Pass, MetricsTypeOK
<1> QED
  BY Zenon, <1>1, <1>2, <1>3, <1>4, <1>5, <1>6 DEF WorkerStep

(* The second whose key is read is before the end of the window's last. *)
LEMMA SecondFacts ==
    ASSUME MetricsTypeOK
    PROVE  Second(tick.i) \in Seconds <=> tick.i <= tick.at
<1>1. tick.i \in Nat /\ tick.at \in Seconds
  BY Zenon DEF MetricsTypeOK, Tick
<1>2. MaxNow \in Nat
  BY Bounds
<1> QED
  BY <1>1, <1>2 DEF Second, Seconds

(* The counter that is read next. *)
LEMMA NextCounter ==
    ASSUME MetricsTypeOK, tick.i \in 0 .. 2
    PROVE  /\ completed[Statuses[tick.i + 1]] \in Nat
           /\ tick.i = 0 => Statuses[tick.i + 1] = "succeeded"
           /\ tick.i = 1 => Statuses[tick.i + 1] = "dead"
           /\ tick.i = 2 => Statuses[tick.i + 1] = "failed"
<1>1. tick.i = 0 \/ tick.i = 1 \/ tick.i = 2
  OBVIOUS
<1>2. Statuses[1] = "succeeded" /\ Statuses[2] = "dead" /\ Statuses[3] = "failed"
  BY DEF Statuses
<1>3. /\ tick.i = 0 => Statuses[tick.i + 1] = "succeeded"
      /\ tick.i = 1 => Statuses[tick.i + 1] = "dead"
      /\ tick.i = 2 => Statuses[tick.i + 1] = "failed"
  BY <1>2
<1>4. Statuses[tick.i + 1] \in Completed
  BY Zenon, <1>1, <1>3 DEF Completed
<1> QED
  BY Zenon, <1>3, <1>4 DEF MetricsTypeOK

(* Steps of the ticker keep the types. *)
LEMMA TickerTypes ==
    ASSUME MetricsTypeOK, Reading,
           Snapshot \/ ReadWindow \/ ReadTotal \/ ReadFails \/ Publish \/ UNCHANGED vars
    PROVE  MetricsTypeOK'
<1>0. UNCHANGED <<now, settled, resent, recorder, completed, throughput, expires, counted>>
  BY Zenon, TickerFrame
<1>z. 0 \in Nat /\ 0 \in Seconds
  BY Bounds DEF Seconds
<1>s. SUFFICES tick' \in Tick /\ published' \in [total: Nat, intact: BOOLEAN] \cup {NULL} /\ faults' \in Nat
  BY Zenon, <1>0 DEF MetricsTypeOK
<1>1. CASE Snapshot
  <2>1. Countable(now) \in Nat
    BY Zenon, CountableType DEF MetricsTypeOK
  <2> QED
    BY Zenon, <1>1, <2>1 DEF Snapshot, MetricsTypeOK, Tick
<1>2. CASE ReadWindow
  <2>1. (IF Second(tick.i) \in Seconds THEN throughput[Second(tick.i)] ELSE 0) \in Nat
    BY Zenon, <1>z DEF MetricsTypeOK
  <2>2. tick' \in Tick
    BY Zenon, <1>2, <2>1, WindowReadFacts DEF ReadWindow
  <2> QED
    BY Zenon, <1>2, <2>2 DEF ReadWindow, MetricsTypeOK
<1>3. CASE ReadTotal
  <2>1. completed[Statuses[tick.i + 1]] \in Nat
    BY Zenon, <1>3, NextCounter DEF ReadTotal, Reading, TotalSoFar
  <2>2. tick' \in Tick
    BY Zenon, <1>3, <2>1, TotalReadFacts DEF ReadTotal
  <2> QED
    BY Zenon, <1>3, <2>2 DEF ReadTotal, MetricsTypeOK
<1>4. CASE ReadFails
  <2>1. faults' \in Nat /\ UNCHANGED published
    BY <1>4 DEF ReadFails, Fault, MetricsTypeOK
  <2>2. WindowRead(0) \in Tick /\ TotalRead(0) \in Tick
    BY Zenon, <1>z, WindowReadFacts, TotalReadFacts
  <2>3. PICK r \in Tick : tick' = [r EXCEPT !.intact = FALSE]
    BY Zenon, <1>4, <2>2 DEF ReadFails
  <2>4. tick' \in Tick
    BY Zenon, <2>3 DEF Tick
  <2> QED
    BY Zenon, <2>1, <2>4 DEF MetricsTypeOK
<1>5. CASE Publish
  <2>1. IdleTick \in Tick
    BY Zenon, <1>z DEF IdleTick, Tick
  <2>2. published' \in [total: Nat, intact: BOOLEAN]
    BY Zenon, <1>5 DEF Publish, MetricsTypeOK, Tick
  <2> QED
    BY Zenon, <1>5, <2>1, <2>2 DEF Publish, MetricsTypeOK
<1>6. CASE UNCHANGED vars
  BY Zenon, <1>6 DEF vars, ticks, MetricsTypeOK
<1> QED
  BY Zenon, <1>1, <1>2, <1>3, <1>4, <1>5, <1>6

(* The recorders stay at their steps. *)
LEMMA StagedStep ==
    ASSUME MetricsTypeOK, Staged, [Next]_vars
    PROVE  Staged'
<1>0. \A s \in Conns : AtStep(recorder[s], now)
  BY Zenon DEF Staged
<1>a. SUFFICES \A s \in Conns : AtStep(recorder'[s], now')
  BY Zenon DEF Staged
<1>b. recorder \in [Conns -> Recorder] /\ now \in Seconds /\ now <= now
  BY Bounds DEF MetricsTypeOK, Seconds
<1>1. ASSUME NEW s \in Conns, NEW r, AtStep(r, now), UNCHANGED now, recorder' = [recorder EXCEPT ![s] = r]
      PROVE  \A q \in Conns : AtStep(recorder'[q], now')
  <2> TAKE q \in Conns
  <2>1. recorder'[q] = r \/ recorder'[q] = recorder[q]
    BY Zenon, <1>b, <1>1
  <2> QED
    BY Zenon, <1>0, <1>1, <2>1
<1>2. ASSUME NEW s \in Conns, Settle(s) PROVE \A q \in Conns : AtStep(recorder'[q], now')
  <2>1. PICK status \in Completed :
          recorder' = [recorder EXCEPT ![s] = [todo |-> Todo0, status |-> status, second |-> NULL,
                                               retries |-> MaxRetries]]
    BY Zenon, <1>2, Steps DEF Settle
  <2>2. AtStep([todo |-> Todo0, status |-> status, second |-> NULL, retries |-> MaxRetries], now)
    BY Zenon DEF AtStep
  <2>3. UNCHANGED now
    BY Zenon, <1>2 DEF Settle
  <2> QED
    BY Zenon, <1>1, <2>1, <2>2, <2>3
<1>3. ASSUME NEW s \in Conns, Exec(s) PROVE \A q \in Conns : AtStep(recorder'[q], now')
  <2>1. /\ recorder[s].status \in Completed
        /\ recorder[s].todo # Todo0 => recorder[s].second \in Seconds /\ recorder[s].second <= now
        /\ UNCHANGED <<now, settled, resent, tick, published, faults>>
        /\ ReadsClock(s) \/ IncrementsCompleted(s) \/ IncrementsThroughput(s) \/ SetsExpiry(s)
    BY Zenon, <1>3, ExecCases
  <2>2. ASSUME NEW todo \in {Todo1, Todo2, Todo3, <<>>}, NEW second \in Seconds, second <= now
        PROVE  AtStep([todo |-> todo, status |-> recorder[s].status, second |-> second,
                       retries |-> recorder[s].retries], now)
    BY Zenon, <2>1, <2>2 DEF AtStep
  <2>3. PICK r : AtStep(r, now) /\ recorder' = [recorder EXCEPT ![s] = r]
    <3>1. CASE ReadsClock(s)
      BY Zenon, <1>b, <2>2, <3>1 DEF ReadsClock, GoesOn
    <3>2. CASE IncrementsCompleted(s)
      BY Zenon, <2>1, <2>2, <3>2, Steps DEF IncrementsCompleted, GoesOn
    <3>3. CASE IncrementsThroughput(s)
      BY Zenon, <2>1, <2>2, <3>3, Steps DEF IncrementsThroughput, GoesOn
    <3>4. CASE SetsExpiry(s)
      BY Zenon, <2>1, <2>2, <3>4, Steps DEF SetsExpiry, GoesOn, AtStep
    <3> QED
      BY Zenon, <2>1, <3>1, <3>2, <3>3, <3>4
  <2> QED
    BY Zenon, <1>1, <2>1, <2>3
<1>4. ASSUME NEW s \in Conns, ExecFails(s) \/ Reply(s) PROVE \A q \in Conns : AtStep(recorder'[q], now')
  <2>1. recorder' = [recorder EXCEPT ![s] = Idle] /\ UNCHANGED now /\ AtStep(Idle, now)
    BY Zenon, <1>4 DEF ExecFails, Reply, AtStep
  <2> QED
    BY Zenon, <1>1, <2>1
<1>5. ASSUME Pass PROVE \A q \in Conns : AtStep(recorder'[q], now')
  <2>1. UNCHANGED recorder /\ \A t \in Seconds : t <= now => t <= now'
    BY <1>b, <1>5, Bounds DEF Pass, Seconds
  <2> QED
    BY Zenon, <1>0, <2>1 DEF AtStep
<1>6. ASSUME UNCHANGED <<now, recorder>> PROVE \A q \in Conns : AtStep(recorder'[q], now')
  <2> QED
    BY Zenon, <1>0, <1>6
<1>7. ASSUME NEW c \in Conns, NEW d \in Conns, Resend(c, d) PROVE \A q \in Conns : AtStep(recorder'[q], now')
  <2>1. PICK left, again : SentAgain(c, d, left, again)
    BY Zenon, <1>7, ResendFacts
  <2>2. UNCHANGED now
    BY Zenon, <1>7 DEF Resend
  <2> TAKE q \in Conns
  <2>3. recorder'[q] = left \/ recorder'[q] = again \/ recorder'[q] = recorder[q]
    BY Zenon, <1>b, <2>1 DEF SentAgain
  <2>4. AtStep(left, now) /\ AtStep(again, now)
    BY Zenon, <2>1 DEF SentAgain
  <2> QED
    BY Zenon, <1>0, <2>2, <2>3, <2>4
<1> QED
  BY Zenon, <1>2, <1>3, <1>4, <1>5, <1>6, <1>7, NextCases, TickerFrame DEF WorkerStep

(* The keys are kept. *)
LEMMA KeptStep ==
    ASSUME MetricsTypeOK, Staged, Kept, [Next]_vars
    PROVE  Kept'
<1>0. \A t \in Seconds : /\ t \in Nat /\ throughput[t] \in Nat /\ counted[t] \in Nat
                         /\ expires[t] \in Nat \cup {NULL}
  BY Bounds DEF MetricsTypeOK, Seconds
<1>a. now \in Nat /\ Expiry \in Nat /\ NULL \notin Nat
  BY Bounds, MetricsAssumption DEF MetricsTypeOK, Seconds
<1>1. ASSUME UNCHANGED <<now, throughput, counted, expires>> PROVE Kept'
  BY Zenon, <1>1 DEF Kept
<1>2. ASSUME NEW s \in Conns, Exec(s) PROVE Kept'
  <2>1. /\ recorder[s].todo # Todo0 => recorder[s].second \in Seconds /\ recorder[s].second <= now
        /\ UNCHANGED now
        /\ ReadsClock(s) \/ IncrementsCompleted(s) \/ IncrementsThroughput(s) \/ SetsExpiry(s)
    BY Zenon, <1>2, ExecCases
  <2>2. CASE ReadsClock(s) \/ IncrementsCompleted(s)
    BY Zenon, <1>1, <2>1, <2>2 DEF ReadsClock, IncrementsCompleted
  <2>3. CASE IncrementsThroughput(s)
    <3>1. recorder[s].second \in Seconds
      BY Zenon, <2>1, <2>3, Steps DEF IncrementsThroughput
    <3>2. \A t \in Seconds :
             /\ throughput'[t] = throughput[t] + IF t = recorder[s].second THEN 1 ELSE 0
             /\ counted'[t] = counted[t] + IF t = recorder[s].second THEN 1 ELSE 0
             /\ expires'[t] = expires[t]
      BY <1>0, <2>3, <3>1 DEF IncrementsThroughput, MetricsTypeOK
    <3> SUFFICES ASSUME NEW t \in Seconds
                 PROVE  /\ expires'[t] # NULL => t + Expiry <= expires'[t]
                        /\ throughput'[t] <= counted'[t]
                        /\ now' < t + Expiry => throughput'[t] = counted'[t]
      BY Zenon DEF Kept
    <3> QED
      BY <1>0, <2>1, <3>2 DEF Kept
  <2>4. CASE SetsExpiry(s)
    <3>1. recorder[s].second \in Seconds /\ recorder[s].second <= now
      BY Zenon, <2>1, <2>4, Steps DEF SetsExpiry
    <3>2. UNCHANGED <<throughput, counted>>
      BY Zenon, <2>4 DEF SetsExpiry
    <3>3. \A t \in Seconds : expires'[t] = expires[t] \/ (t = recorder[s].second /\ expires'[t] = now + Expiry)
      BY Zenon, <2>4, <3>1 DEF SetsExpiry, MetricsTypeOK
    <3> SUFFICES ASSUME NEW t \in Seconds
                 PROVE  expires'[t] # NULL => t + Expiry <= expires'[t]
      BY Zenon, <2>1, <3>2 DEF Kept
    <3> QED
      BY <1>0, <1>a, <3>1, <3>3 DEF Kept
  <2> QED
    BY Zenon, <2>1, <2>2, <2>3, <2>4
<1>3. ASSUME Pass PROVE Kept'
  <2> SUFFICES ASSUME NEW t \in Seconds
               PROVE  /\ expires'[t] # NULL => t + Expiry <= expires'[t]
                      /\ throughput'[t] <= counted'[t]
                      /\ now' < t + Expiry => throughput'[t] = counted'[t]
    BY Zenon DEF Kept
  <2>1. /\ now' = now + 1 /\ counted'[t] = counted[t]
        /\ throughput'[t] = IF expires[t] = now' THEN 0 ELSE throughput[t]
        /\ expires'[t] = IF expires[t] = now' THEN NULL ELSE expires[t]
    BY Zenon, <1>3 DEF Pass
  <2>2. /\ expires[t] # NULL => t + Expiry <= expires[t]
        /\ throughput[t] <= counted[t]
        /\ now < t + Expiry => throughput[t] = counted[t]
    BY Zenon DEF Kept
  <2>3. CASE expires[t] = now'
    BY <1>0, <1>a, <2>1, <2>2, <2>3
  <2>4. CASE expires[t] # now'
    BY <1>0, <1>a, <2>1, <2>2, <2>4
  <2> QED
    BY Zenon, <2>3, <2>4
<1>4. ASSUME NEW s \in Conns, Settle(s) \/ Reply(s) \/ ExecFails(s) \/ \E q \in Conns : Resend(s, q)
      PROVE  UNCHANGED <<now, throughput, counted, expires>>
  BY Zenon, <1>4 DEF Settle, Reply, ExecFails, Resend, redis
<1> QED
  BY Zenon, <1>1, <1>2, <1>3, <1>4, NextCases, TickerFrame DEF WorkerStep

-----------------------------------------------------------------------------
(* Counting. *)

(* The numbers of Counts. *)
LEMMA CountTypes ==
    ASSUME MetricsTypeOK
    PROVE  /\ IsFiniteSet(Uncounted) /\ Cardinality(Uncounted) \in Nat
           /\ IsFiniteSet(Halfway) /\ Cardinality(Halfway) \in Nat
           /\ Total \in Nat /\ settled \in Nat /\ resent \in Nat
           /\ SumBefore(counted) \in [0 .. MaxNow + 1 -> Nat]
           /\ MaxNow + 1 \in 0 .. MaxNow + 1
<1>1. Uncounted \subseteq Conns /\ Halfway \subseteq Conns /\ IsFiniteSet(Conns)
  BY Zenon, MetricsAssumption DEF Uncounted, Halfway
<1>2. IsFiniteSet(Uncounted) /\ IsFiniteSet(Halfway)
  BY Zenon, <1>1, FS_Subset
<1>3. Total \in Nat
  BY DEF MetricsTypeOK, Total, Completed
<1>4. SumBefore(counted) \in [0 .. MaxNow + 1 -> Nat]
  BY Zenon, SumBeforeDef DEF MetricsTypeOK
<1>5. MaxNow + 1 \in 0 .. MaxNow + 1
  BY Bounds
<1> QED
  BY Zenon, <1>2, <1>3, <1>4, <1>5, FS_CardinalityType DEF MetricsTypeOK

(* One more in a counter is one more in all. *)
LEMMA TotalIncrement ==
    ASSUME MetricsTypeOK, NEW c \in Completed, completed' = [completed EXCEPT ![c] = @ + 1]
    PROVE  Total' = Total + 1 /\ \A d \in Completed : completed[d] <= completed'[d]
<1>1. /\ completed["succeeded"] \in Nat /\ completed["dead"] \in Nat /\ completed["failed"] \in Nat
      /\ completed \in [Completed -> Nat]
  BY Zenon DEF MetricsTypeOK, Completed
<1>2. \A d \in Completed : completed'[d] = IF d = c THEN completed[d] + 1 ELSE completed[d]
  BY Zenon, <1>1
<1>3. \A d \in Completed : completed[d] <= completed'[d]
  BY <1>1, <1>2
<1>4. c = "succeeded" \/ c = "dead" \/ c = "failed"
  BY DEF Completed
<1>5. /\ "succeeded" \in Completed /\ "dead" \in Completed /\ "failed" \in Completed
      /\ "succeeded" # "dead" /\ "succeeded" # "failed" /\ "dead" # "failed"
  BY DEF Completed
<1>6. Total' = Total + 1
  BY <1>1, <1>2, <1>4, <1>5 DEF Total
<1> QED
  BY Zenon, <1>3, <1>6

(* The pipelines on their way, when that of s alone goes on to what is in  *)
(* todo.                                                                   *)
LEMMA TodoMoves ==
    ASSUME NEW s \in Conns, NEW todo, recorder'[s].todo = todo,
           \A q \in Conns : q # s => recorder'[q].todo = recorder[q].todo
    PROVE  /\ Uncounted' = IF todo \in {Todo0, Todo1} THEN Uncounted \cup {s} ELSE Uncounted \ {s}
           /\ Halfway' = IF todo = Todo2 THEN Halfway \cup {s} ELSE Halfway \ {s}
<1> DEFINE Due(t) == t \in {Todo0, Todo1}
           Half(t) == t = Todo2
<1>1. /\ \A q : q \in Uncounted' <=> q \in Conns /\ Due(recorder'[q].todo)
      /\ \A q : q \in Uncounted <=> q \in Conns /\ Due(recorder[q].todo)
      /\ \A q : q \in Halfway' <=> q \in Conns /\ Half(recorder'[q].todo)
      /\ \A q : q \in Halfway <=> q \in Conns /\ Half(recorder[q].todo)
  BY Zenon DEF Uncounted, Halfway
<1>2. (todo \in {Todo0, Todo1} <=> Due(todo)) /\ (todo = Todo2 <=> Half(todo))
  BY Zenon
<1> HIDE DEF Due, Half
<1>3. ASSUME Due(todo) PROVE Uncounted' = Uncounted \cup {s}
  <2>1. \A q : q \in Uncounted' <=> q \in Uncounted \/ q = s
    BY Zenon, <1>1, <1>3
  <2> QED
    BY Zenon, <2>1
<1>4. ASSUME ~Due(todo) PROVE Uncounted' = Uncounted \ {s}
  <2>1. \A q : q \in Uncounted' <=> q \in Uncounted /\ q # s
    BY Zenon, <1>1, <1>4
  <2> QED
    BY Zenon, <2>1
<1>5. ASSUME Half(todo) PROVE Halfway' = Halfway \cup {s}
  <2>1. \A q : q \in Halfway' <=> q \in Halfway \/ q = s
    BY Zenon, <1>1, <1>5
  <2> QED
    BY Zenon, <2>1
<1>6. ASSUME ~Half(todo) PROVE Halfway' = Halfway \ {s}
  <2>1. \A q : q \in Halfway' <=> q \in Halfway /\ q # s
    BY Zenon, <1>1, <1>6
  <2> QED
    BY Zenon, <2>1
<1> QED
  BY Zenon, <1>2, <1>3, <1>4, <1>5, <1>6

(* The same, when the other connections are as they were. *)
LEMMA PipelineMoves ==
    ASSUME MetricsTypeOK, NEW s \in Conns, NEW r, recorder' = [recorder EXCEPT ![s] = r]
    PROVE  /\ Uncounted' = IF r.todo \in {Todo0, Todo1} THEN Uncounted \cup {s} ELSE Uncounted \ {s}
           /\ Halfway' = IF r.todo = Todo2 THEN Halfway \cup {s} ELSE Halfway \ {s}
<1>1. recorder'[s] = r /\ \A q \in Conns : q # s => recorder'[q] = recorder[q]
  BY Zenon DEF MetricsTypeOK
<1>2. recorder'[s].todo = r.todo /\ \A q \in Conns : q # s => recorder'[q].todo = recorder[q].todo
  BY Zenon, <1>1
<1> QED
  BY Zenon, <1>2, TodoMoves

(* Cardinalities when one element comes or goes. *)
LEMMA OneMore ==
    ASSUME NEW S, IsFiniteSet(S), NEW x
    PROVE  /\ Cardinality(S) \in Nat /\ Cardinality(S \cup {x}) \in Nat /\ Cardinality(S \ {x}) \in Nat
           /\ Cardinality(S \ {x}) <= Cardinality(S)
           /\ x \notin S => S \ {x} = S /\ Cardinality(S \cup {x}) = Cardinality(S) + 1
           /\ x \in S => S \cup {x} = S /\ Cardinality(S \ {x}) = Cardinality(S) - 1
<1>1. /\ IsFiniteSet(S \cup {x}) /\ (x \notin S => Cardinality(S \cup {x}) = Cardinality(S) + 1)
  BY FS_AddElement
<1>2. IsFiniteSet(S \ {x}) /\ (x \in S => Cardinality(S \ {x}) = Cardinality(S) - 1)
  BY FS_RemoveElement
<1>3. Cardinality(S) \in Nat /\ Cardinality(S \cup {x}) \in Nat /\ Cardinality(S \ {x}) \in Nat
  BY Zenon, <1>1, <1>2, FS_CardinalityType
<1>4. (x \notin S => S \ {x} = S) /\ (x \in S => S \cup {x} = S)
  BY Zenon
<1>5. Cardinality(S \ {x}) <= Cardinality(S)
  <2>1. CASE x \in S
    BY <1>2, <1>3, <2>1
  <2>2. CASE x \notin S
    BY <1>3, <1>4, <2>2
  <2> QED
    BY Zenon, <2>1, <2>2
<1> QED
  BY Zenon, <1>1, <1>2, <1>3, <1>4, <1>5

(* No attempt is counted before it is settled, or in its second before it  *)
(* is counted.                                                             *)
LEMMA CountsStep ==
    ASSUME MetricsTypeOK, Staged, Counts, [Next]_vars
    PROVE  Counts'
<1> DEFINE S == SumBefore(counted)[MaxNow + 1]
           u == Cardinality(Uncounted)
           h == Cardinality(Halfway)
<1>0. /\ IsFiniteSet(Uncounted) /\ u \in Nat /\ IsFiniteSet(Halfway) /\ h \in Nat
      /\ Total \in Nat /\ settled \in Nat /\ resent \in Nat /\ S \in Nat
      /\ Total + u <= settled + resent /\ S + h <= Total
  BY Zenon, CountTypes DEF Counts
<1>c. Counts' <=> Total' + u' <= settled' + resent' /\ S' + h' <= Total'
  BY Zenon DEF Counts
<1> HIDE DEF S, u, h
<1>1. ASSUME UNCHANGED <<settled, resent, recorder, completed, counted>> PROVE Counts'
  BY Zenon, <1>1 DEF Counts, Total, Uncounted, Halfway
<1>2. ASSUME NEW s \in Conns, Settle(s) PROVE Counts'
  <2>1. PICK status \in Completed :
          recorder' = [recorder EXCEPT ![s] = [todo |-> Todo0, status |-> status, second |-> NULL,
                                               retries |-> MaxRetries]]
    BY Zenon, <1>2, Steps DEF Settle
  <2> DEFINE r == [todo |-> Todo0, status |-> status, second |-> NULL, retries |-> MaxRetries]
  <2>2. r.todo = Todo0 /\ Todo0 # Todo2
    BY Zenon, Steps
  <2>3. s \notin Uncounted /\ s \notin Halfway
    <3>1. Idle.todo \notin {Todo0, Todo1} /\ Idle.todo # Todo2
      BY Zenon, Steps DEF Idle
    <3>2. recorder[s] = Idle
      BY Zenon, <1>2 DEF Settle
    <3> QED
      BY Zenon, <3>1, <3>2 DEF Uncounted, Halfway
  <2> HIDE DEF r
  <2>4. Uncounted' = Uncounted \cup {s} /\ Halfway' = Halfway \ {s}
    BY Zenon, <2>1, <2>2, PipelineMoves DEF r
  <2>5. u' = u + 1 /\ h' = h
    BY Zenon, <1>0, <2>3, <2>4, OneMore DEF u, h
  <2>6. settled' = settled + 1 /\ resent' = resent /\ Total' = Total /\ S' = S
    BY Zenon, <1>2 DEF Settle, redis, Total, S
  <2> QED
    BY <1>0, <1>c, <2>5, <2>6
<1>3. ASSUME NEW s \in Conns, Exec(s) PROVE Counts'
  <2>1. /\ recorder[s].status \in Completed
        /\ recorder[s].todo # Todo0 => recorder[s].second \in Seconds /\ recorder[s].second <= now
        /\ UNCHANGED <<now, settled, resent, tick, published, faults>>
        /\ ReadsClock(s) \/ IncrementsCompleted(s) \/ IncrementsThroughput(s) \/ SetsExpiry(s)
    BY Zenon, <1>3, ExecCases
  <2>a. ASSUME NEW todo, NEW second, GoesOn(s, todo, second)
        PROVE  /\ Uncounted' = IF todo \in {Todo0, Todo1} THEN Uncounted \cup {s} ELSE Uncounted \ {s}
               /\ Halfway' = IF todo = Todo2 THEN Halfway \cup {s} ELSE Halfway \ {s}
    <3> DEFINE r == [todo |-> todo, status |-> recorder[s].status, second |-> second,
                     retries |-> recorder[s].retries]
    <3>1. r.todo = todo /\ recorder' = [recorder EXCEPT ![s] = r]
      BY Zenon, <2>a DEF GoesOn
    <3> HIDE DEF r
    <3> QED
      BY Zenon, <3>1, PipelineMoves
  <2>2. CASE ReadsClock(s)
    <3>1. Uncounted' = Uncounted \cup {s} /\ Halfway' = Halfway \ {s}
      BY Zenon, <2>2, <2>a, Steps DEF ReadsClock
    <3>2. s \in Uncounted /\ s \notin Halfway
      BY Zenon, <2>2, Steps DEF ReadsClock, Uncounted, Halfway
    <3>3. u' = u /\ h' = h
      BY Zenon, <1>0, <3>1, <3>2, OneMore DEF u, h
    <3>4. Total' = Total /\ S' = S
      BY Zenon, <2>2 DEF ReadsClock, Total, S
    <3> QED
      BY Zenon, <1>0, <1>c, <2>1, <3>3, <3>4
  <2>3. CASE IncrementsCompleted(s)
    <3>1. Uncounted' = Uncounted \ {s} /\ Halfway' = Halfway \cup {s}
      BY Zenon, <2>3, <2>a, Steps DEF IncrementsCompleted
    <3>2. s \in Uncounted /\ s \notin Halfway
      BY Zenon, <2>3, Steps DEF IncrementsCompleted, Uncounted, Halfway
    <3>3. u' = u - 1 /\ h' = h + 1
      BY Zenon, <1>0, <3>1, <3>2, OneMore DEF u, h
    <3>4. Total' = Total + 1
      BY Zenon, <2>1, <2>3, TotalIncrement DEF IncrementsCompleted
    <3>5. S' = S
      BY Zenon, <2>3 DEF IncrementsCompleted, S
    <3> QED
      BY <1>0, <1>c, <2>1, <3>3, <3>4, <3>5
  <2>4. CASE IncrementsThroughput(s)
    <3>1. Uncounted' = Uncounted \ {s} /\ Halfway' = Halfway \ {s}
      BY Zenon, <2>4, <2>a, Steps DEF IncrementsThroughput
    <3>2. s \notin Uncounted /\ s \in Halfway
      BY Zenon, <2>4, Steps DEF IncrementsThroughput, Uncounted, Halfway
    <3>3. u' = u /\ h' = h - 1
      BY Zenon, <1>0, <3>1, <3>2, OneMore DEF u, h
    <3>4. Total' = Total
      BY Zenon, <2>4 DEF IncrementsThroughput, Total
    <3>5. recorder[s].second \in Seconds
      BY Zenon, <2>1, <2>4, Steps DEF IncrementsThroughput
    <3>6. S' = S + IF recorder[s].second < MaxNow + 1 THEN 1 ELSE 0
      BY Zenon, <2>4, <3>5, SumIncrement, CountTypes DEF IncrementsThroughput, S, MetricsTypeOK
    <3>7. S' = S + 1
      BY <3>5, <3>6, Bounds DEF Seconds
    <3> QED
      BY <1>0, <1>c, <2>1, <3>3, <3>4, <3>7
  <2>5. CASE SetsExpiry(s)
    <3>1. Idle.todo \notin {Todo0, Todo1} /\ Idle.todo # Todo2
      BY Zenon, Steps DEF Idle
    <3>2. Uncounted' = Uncounted \ {s} /\ Halfway' = Halfway \ {s}
      <4>1. CASE recorder' = [recorder EXCEPT ![s] = Idle]
        BY Zenon, <3>1, <4>1, PipelineMoves
      <4>2. CASE GoesOn(s, <<>>, recorder[s].second)
        BY Zenon, <2>a, <4>2, Steps
      <4> QED
        BY Zenon, <2>5, <4>1, <4>2 DEF SetsExpiry
    <3>3. s \notin Uncounted /\ s \notin Halfway
      BY Zenon, <2>5, Steps DEF SetsExpiry, Uncounted, Halfway
    <3>4. u' = u /\ h' = h
      BY Zenon, <3>2, <3>3, OneMore, <1>0 DEF u, h
    <3>5. Total' = Total /\ S' = S
      BY Zenon, <2>5 DEF SetsExpiry, Total, S
    <3> QED
      BY Zenon, <1>0, <1>c, <2>1, <3>4, <3>5
  <2> QED
    BY Zenon, <2>1, <2>2, <2>3, <2>4, <2>5
<1>4. ASSUME NEW s \in Conns, ExecFails(s) \/ Reply(s) PROVE Counts'
  <2>1. Idle.todo \notin {Todo0, Todo1} /\ Idle.todo # Todo2
    BY Zenon, Steps DEF Idle
  <2>2. Uncounted' = Uncounted \ {s} /\ Halfway' = Halfway \ {s}
    BY Zenon, <1>4, <2>1, PipelineMoves DEF ExecFails, Reply
  <2>3. u' \in Nat /\ h' \in Nat /\ u' <= u /\ h' <= h
    BY Zenon, <1>0, <2>2, OneMore DEF u, h
  <2>4. Total' = Total /\ S' = S /\ settled' = settled /\ resent' = resent
    BY Zenon, <1>4 DEF ExecFails, Reply, redis, Total, S
  <2>5. Total + u' <= settled + resent /\ S + h' <= Total
    <3>1. \A a, b, c, d \in Nat : a + b <= c /\ d <= b => a + d <= c
      OBVIOUS
    <3>2. settled + resent \in Nat
      BY <1>0
    <3> QED
      BY Zenon, <1>0, <2>3, <3>1, <3>2
  <2> QED
    BY Zenon, <1>c, <2>4, <2>5
<1>5. ASSUME Pass PROVE UNCHANGED <<settled, resent, recorder, completed, counted>>
  BY Zenon, <1>5 DEF Pass
<1>6. ASSUME NEW s \in Conns, NEW d \in Conns, Resend(s, d) PROVE Counts'
  <2>1. PICK left, again : SentAgain(s, d, left, again)
    BY Zenon, <1>6, ResendFacts
  <2>2. /\ s # d /\ recorder[d] = Idle /\ resent' = resent + 1
        /\ UNCHANGED <<settled, completed, counted>>
    BY Zenon, <1>6, ResendFacts
  <2>3. recorder'[d].todo = Todo1 /\ \A q \in Conns : q # d => recorder'[q].todo = recorder[q].todo
    BY Zenon, <2>1, <2>2 DEF SentAgain, MetricsTypeOK
  <2>4. Uncounted' = Uncounted \cup {d} /\ Halfway' = Halfway \ {d}
    BY Zenon, <2>3, TodoMoves, Steps
  <2>5. d \notin Uncounted /\ d \notin Halfway
    <3>1. Idle.todo \notin {Todo0, Todo1} /\ Idle.todo # Todo2
      BY Zenon, Steps DEF Idle
    <3> QED
      BY Zenon, <2>2, <3>1 DEF Uncounted, Halfway
  <2>6. u' = u + 1 /\ h' = h
    BY Zenon, <1>0, <2>4, <2>5, OneMore DEF u, h
  <2>7. Total' = Total /\ S' = S
    BY Zenon, <2>2 DEF Total, S
  <2> QED
    BY <1>0, <1>c, <2>2, <2>6, <2>7
<1> QED
  BY Zenon, <1>1, <1>2, <1>3, <1>4, <1>5, <1>6, NextCases, TickerFrame DEF WorkerStep

-----------------------------------------------------------------------------
(* The ticks. *)

(* What the ticker reads only grows meanwhile. *)
Grows ==
    /\ now <= now'
    /\ \A c \in Completed : completed[c] <= completed'[c]
    /\ \A m, n \in 0 .. MaxNow + 1 :
          m <= n => SumBefore(counted)[n] - SumBefore(counted)[m]
                        <= SumBefore(counted')[n] - SumBefore(counted')[m]

(* A step of a worker, or of the clock, takes nothing away. *)
LEMMA WorkerGrows ==
    ASSUME MetricsTypeOK, Staged,
           WorkerStep
    PROVE  Grows
<1>0. /\ now \in Nat /\ completed \in [Completed -> Nat] /\ counted \in [Seconds -> Nat]
      /\ \A n \in 0 .. MaxNow + 1 : SumBefore(counted)[n] \in Nat
  <2>1. now \in Nat
    BY Bounds DEF MetricsTypeOK, Seconds
  <2> QED
    BY Zenon, <2>1, CountTypes DEF MetricsTypeOK
<1>a. ASSUME UNCHANGED counted
      PROVE  \A m, n \in 0 .. MaxNow + 1 :
                m <= n => SumBefore(counted)[n] - SumBefore(counted)[m]
                             <= SumBefore(counted')[n] - SumBefore(counted')[m]
  <2>1. SumBefore(counted') = SumBefore(counted)
    BY Zenon, <1>a
  <2>2. \A a, b \in Nat : a - b <= a - b
    OBVIOUS
  <2> QED
    BY Zenon, <1>0, <2>1, <2>2
<1>1. ASSUME now <= now', UNCHANGED <<completed, counted>> PROVE Grows
  <2>1. \A c \in Completed : completed[c] <= completed'[c]
    BY <1>0, <1>1
  <2> QED
    BY Zenon, <1>a, <1>1, <2>1 DEF Grows
<1>2. ASSUME UNCHANGED now PROVE now <= now'
  BY <1>0, <1>2
<1>3. ASSUME NEW s \in Conns, Settle(s) \/ Reply(s) \/ ExecFails(s) \/ \E q \in Conns : Resend(s, q)
      PROVE  Grows
  BY Zenon, <1>1, <1>2, <1>3 DEF Settle, Reply, ExecFails, Resend, redis
<1>4. ASSUME Pass PROVE Grows
  <2>1. now <= now' /\ UNCHANGED <<completed, counted>>
    BY <1>0, <1>4 DEF Pass
  <2> QED
    BY Zenon, <1>1, <2>1
<1>5. ASSUME NEW s \in Conns, Exec(s) PROVE Grows
  <2>1. /\ recorder[s].status \in Completed
        /\ recorder[s].todo # Todo0 => recorder[s].second \in Seconds /\ recorder[s].second <= now
        /\ UNCHANGED <<now, settled, resent, tick, published, faults>>
        /\ ReadsClock(s) \/ IncrementsCompleted(s) \/ IncrementsThroughput(s) \/ SetsExpiry(s)
    BY Zenon, <1>5, ExecCases
  <2>a. Grows <=> /\ \A c \in Completed : completed[c] <= completed'[c]
                  /\ \A m, n \in 0 .. MaxNow + 1 :
                        m <= n => SumBefore(counted)[n] - SumBefore(counted)[m]
                                     <= SumBefore(counted')[n] - SumBefore(counted')[m]
    BY Zenon, <1>2, <2>1 DEF Grows
  <2>2. CASE ReadsClock(s) \/ SetsExpiry(s)
    BY Zenon, <1>1, <1>2, <2>1, <2>2 DEF ReadsClock, SetsExpiry
  <2>3. CASE IncrementsCompleted(s)
    <3>1. \A c \in Completed : completed[c] <= completed'[c]
      BY Zenon, <2>1, <2>3, TotalIncrement DEF IncrementsCompleted
    <3> QED
      BY Zenon, <1>a, <2>3, <2>a, <3>1 DEF IncrementsCompleted
  <2>4. CASE IncrementsThroughput(s)
    <3>1. \A c \in Completed : completed[c] <= completed'[c]
      BY <1>0, <2>4 DEF IncrementsThroughput
    <3> DEFINE k == recorder[s].second
    <3>2. k \in Seconds /\ k \in Nat
      <4>1. k \in Seconds
        BY Zenon, <2>1, <2>4, Steps DEF IncrementsThroughput
      <4> QED
        BY <4>1, Bounds DEF Seconds
    <3>3. \A n \in 0 .. MaxNow + 1 : SumBefore(counted')[n] = SumBefore(counted)[n] + IF k < n THEN 1 ELSE 0
      BY Zenon, <1>0, <2>4, <3>2, SumIncrement DEF IncrementsThroughput
    <3> HIDE DEF k
    <3>4. ASSUME NEW m \in 0 .. MaxNow + 1, NEW n \in 0 .. MaxNow + 1, m <= n
          PROVE  SumBefore(counted)[n] - SumBefore(counted)[m]
                     <= SumBefore(counted')[n] - SumBefore(counted')[m]
      <4>1. /\ SumBefore(counted')[n] = SumBefore(counted)[n] + IF k < n THEN 1 ELSE 0
            /\ SumBefore(counted')[m] = SumBefore(counted)[m] + IF k < m THEN 1 ELSE 0
            /\ SumBefore(counted)[n] \in Nat /\ SumBefore(counted)[m] \in Nat
        BY Zenon, <1>0, <3>3
      <4> QED
        BY <3>2, <3>4, <4>1, Bounds
    <3> QED
      BY Zenon, <2>a, <3>1, <3>4
  <2> QED
    BY Zenon, <2>1, <2>2, <2>3, <2>4
<1> QED
  BY Zenon, <1>3, <1>4, <1>5 DEF WorkerStep

(* The fields of the ticker, and what they are compared with. *)
LEMMA TickNumbers ==
    ASSUME MetricsTypeOK
    PROVE  /\ now \in Nat /\ tick.at \in Seconds /\ tick.at \in Nat /\ tick.i \in Nat
           /\ tick.window \in Nat /\ tick.atStart \in Nat /\ tick.total \in Nat /\ tick.floor \in Nat
           /\ tick.intact \in BOOLEAN /\ Shown \in Nat
           /\ completed["succeeded"] \in Nat /\ completed["dead"] \in Nat /\ completed["failed"] \in Nat
<1>1. /\ now \in Seconds /\ tick.at \in Seconds /\ tick.i \in Nat
      /\ tick.window \in Nat /\ tick.atStart \in Nat /\ tick.total \in Nat /\ tick.floor \in Nat
      /\ tick.intact \in BOOLEAN
  BY Zenon DEF MetricsTypeOK, Tick
<1>2. now \in Nat /\ tick.at \in Nat
  BY <1>1, Bounds DEF Seconds
<1>3. Shown \in Nat
  <2>1. CASE published = NULL
    BY <2>1 DEF Shown
  <2>2. CASE published # NULL
    BY Zenon, <2>2 DEF Shown, MetricsTypeOK
  <2> QED
    BY Zenon, <2>1, <2>2
<1>4. completed["succeeded"] \in Nat /\ completed["dead"] \in Nat /\ completed["failed"] \in Nat
  BY Zenon DEF MetricsTypeOK, Completed
<1> QED
  BY Zenon, <1>1, <1>2, <1>3, <1>4

(* What a tick has read stays right when the workers and the clock go on. *)
LEMMA ReadingWorkers ==
    ASSUME MetricsTypeOK, MetricsTypeOK', Reading, Grows, UNCHANGED <<tick, published>>
    PROVE  Reading'
<1> DEFINE S(n) == SumBefore(counted)[n]
           U(n) == SumBefore(counted')[n]
           a == tick.at + 1
           b == From(tick.at, tick.i)
           c == From(tick.at, Window)
<1>0. /\ now \in Nat /\ tick.at \in Seconds /\ tick.at \in Nat /\ tick.i \in Nat
      /\ tick.window \in Nat /\ tick.atStart \in Nat /\ tick.total \in Nat /\ tick.floor \in Nat
      /\ tick.intact \in BOOLEAN /\ Shown \in Nat
      /\ completed["succeeded"] \in Nat /\ completed["dead"] \in Nat /\ completed["failed"] \in Nat
  BY Zenon, TickNumbers
<1>1. /\ now' \in Nat
      /\ completed'["succeeded"] \in Nat /\ completed'["dead"] \in Nat /\ completed'["failed"] \in Nat
  <2>1. now' \in Seconds /\ completed' \in [Completed -> Nat]
    BY Zenon DEF MetricsTypeOK
  <2> QED
    BY <2>1, Bounds DEF Seconds, Completed
<1>2. /\ now <= now'
      /\ completed["succeeded"] <= completed'["succeeded"]
      /\ completed["dead"] <= completed'["dead"]
      /\ completed["failed"] <= completed'["failed"]
  BY Zenon DEF Grows, Completed
<1>3. /\ a \in 0 .. MaxNow + 1 /\ b \in 0 .. MaxNow + 1 /\ c \in 0 .. MaxNow + 1 /\ b <= a /\ c <= a
  BY Zenon, <1>0, FromType, Bounds
<1>4. \A n \in 0 .. MaxNow + 1 : S(n) \in Nat /\ U(n) \in Nat
  <2>1. counted \in [Seconds -> Nat] /\ counted' \in [Seconds -> Nat]
    BY Zenon DEF MetricsTypeOK
  <2> QED
    BY Zenon, <2>1, SumBeforeDef
<1>5. \A m, n \in 0 .. MaxNow + 1 : m <= n => S(n) - S(m) <= U(n) - U(m)
  BY Zenon DEF Grows
<1>6. Shown' = Shown /\ Shown <= Total'
  <2>1. Shown' = Shown /\ Shown <= Total
    BY Zenon DEF Reading, Shown
  <2>2. Total <= Total' /\ Total \in Nat /\ Total' \in Nat
    BY <1>0, <1>1, <1>2 DEF Total
  <2> QED
    BY <1>0, <2>1, <2>2
<1>7. WindowSoFar'
  <2> SUFFICES ASSUME tick.pc = "window"
               PROVE  /\ tick.i < Window
                      /\ tick.window <= U(a) - U(b)
                      /\ tick.intact /\ now' < tick.at + 1 + Expiry - Window =>
                            tick.atStart <= tick.window + U(b) - U(c)
    BY Zenon DEF WindowSoFar
  <2>1. /\ tick.i < Window
        /\ tick.window <= S(a) - S(b)
        /\ tick.intact /\ now < tick.at + 1 + Expiry - Window =>
              tick.atStart <= tick.window + S(b) - S(c)
    BY Zenon DEF Reading, WindowSoFar
  <2>2. c <= b
    BY <1>0, <2>1, Bounds DEF From
  <2>3. S(a) - S(b) <= U(a) - U(b) /\ S(b) - S(c) <= U(b) - U(c)
    BY Zenon, <1>3, <1>5, <2>2
  <2>4. S(a) \in Nat /\ S(b) \in Nat /\ S(c) \in Nat /\ U(a) \in Nat /\ U(b) \in Nat /\ U(c) \in Nat
    BY Zenon, <1>3, <1>4
  <2> HIDE DEF S, U, a, b, c
  <2>5. tick.window <= U(a) - U(b)
    BY <1>0, <2>1, <2>3, <2>4
  <2>6. ASSUME tick.intact, now' < tick.at + 1 + Expiry - Window
        PROVE  tick.atStart <= tick.window + U(b) - U(c)
    <3>1. now < tick.at + 1 + Expiry - Window
      BY <1>0, <1>1, <1>2, <2>6, Bounds
    <3>2. tick.atStart <= tick.window + S(b) - S(c)
      BY Zenon, <2>1, <2>6, <3>1
    <3> QED
      BY <1>0, <2>3, <2>4, <3>2
  <2> QED
    BY Zenon, <2>1, <2>5, <2>6
<1>8. WindowCounts'
  <2> SUFFICES ASSUME tick.pc = "total"
               PROVE  /\ tick.window <= U(a) - U(c)
                      /\ tick.intact /\ now' < tick.at + 1 + Expiry - Window => tick.atStart <= tick.window
    BY Zenon DEF WindowCounts, Countable
  <2>1. /\ tick.window <= S(a) - S(c)
        /\ tick.intact /\ now < tick.at + 1 + Expiry - Window => tick.atStart <= tick.window
    BY Zenon DEF Reading, WindowCounts, Countable
  <2>2. S(a) - S(c) <= U(a) - U(c)
    BY Zenon, <1>3, <1>5
  <2>3. S(a) \in Nat /\ S(c) \in Nat /\ U(a) \in Nat /\ U(c) \in Nat
    BY Zenon, <1>3, <1>4
  <2> HIDE DEF S, U, a, b, c
  <2> QED
    BY <1>0, <1>1, <1>2, <2>1, <2>2, <2>3, Bounds
<1>9. TotalSoFar'
  <2>1. TotalSoFar /\ UNCHANGED <<tick, Shown>>
    BY Zenon, <1>6 DEF Reading
  <2> QED
    BY <1>0, <1>1, <1>2, <2>1 DEF TotalSoFar, Got, Rest, Total
<1>10. tick'.at <= now'
  <2>1. tick.at <= now
    BY Zenon DEF Reading
  <2> QED
    BY <1>0, <1>1, <1>2, <2>1
<1> QED
  BY Zenon, <1>6, <1>7, <1>8, <1>9, <1>10 DEF Reading

(* The sum up to one second of the window, from that up to the next. *)
LEMMA WindowStep ==
    ASSUME MetricsTypeOK
    PROVE  SumBefore(counted)[From(tick.at, tick.i)]
              = SumBefore(counted)[From(tick.at, tick.i + 1)]
                  + IF Second(tick.i) \in Seconds THEN counted[Second(tick.i)] ELSE 0
<1>0. tick.at \in Seconds /\ tick.at \in Nat /\ tick.i \in Nat
  BY Zenon, TickNumbers
<1>1. CASE tick.i <= tick.at
  <2>1. Second(tick.i) \in Seconds
    BY Zenon, <1>1, SecondFacts
  <2>2. From(tick.at, tick.i) = Second(tick.i) + 1 /\ From(tick.at, tick.i + 1) = Second(tick.i)
    BY <1>0, <1>1 DEF From, Second
  <2>3. SumBefore(counted)[Second(tick.i) + 1] = SumBefore(counted)[Second(tick.i)] + counted[Second(tick.i)]
    BY Zenon, <2>1, SumBeforeDef DEF MetricsTypeOK
  <2> QED
    BY Zenon, <2>1, <2>2, <2>3
<1>2. CASE ~(tick.i <= tick.at)
  <2>1. Second(tick.i) \notin Seconds
    BY Zenon, <1>2, SecondFacts
  <2>2. From(tick.at, tick.i) = 0 /\ From(tick.at, tick.i + 1) = 0
    BY <1>0, <1>2 DEF From
  <2>3. SumBefore(counted)[0] = 0
    BY Zenon, SumBeforeDef DEF MetricsTypeOK
  <2> QED
    BY <2>1, <2>2, <2>3
<1> QED
  BY Zenon, <1>1, <1>2

(* What a GET of throughput may give: b tells whether it has not failed. *)
LEMMA ReadingWindow ==
    ASSUME MetricsTypeOK, Kept, Counts, Reading, tick.pc = "window",
           UNCHANGED <<now, completed, counted, published>>,
           NEW v \in Nat, NEW b \in BOOLEAN,
           LET key == IF Second(tick.i) \in Seconds THEN throughput[Second(tick.i)] ELSE 0
           IN v <= key /\ (b => tick.intact /\ v = key),
           tick' = [WindowRead(v) EXCEPT !.intact = b]
    PROVE  Reading'
<1> DEFINE S(n) == SumBefore(counted)[n]
           q == WindowRead(v)
           last == tick.at + 1
           old == From(tick.at, tick.i)
           new == From(tick.at, tick.i + 1)
           first == From(tick.at, Window)
           gain == IF Second(tick.i) \in Seconds THEN counted[Second(tick.i)] ELSE 0
<1>0. /\ now \in Nat /\ tick.at \in Seconds /\ tick.at \in Nat /\ tick.i \in Nat
      /\ tick.window \in Nat /\ tick.atStart \in Nat /\ tick.total \in Nat /\ tick.floor \in Nat
      /\ tick.intact \in BOOLEAN /\ Shown \in Nat
      /\ completed["succeeded"] \in Nat /\ completed["dead"] \in Nat /\ completed["failed"] \in Nat
  BY Zenon, TickNumbers
<1>1. /\ q \in Tick
      /\ q.window = tick.window + v
      /\ q.at = tick.at /\ q.atStart = tick.atStart /\ q.total = tick.total
      /\ tick.i + 1 < Window => q.pc = tick.pc /\ q.i = tick.i + 1 /\ q.floor = tick.floor
      /\ ~(tick.i + 1 < Window) => q.pc = "total" /\ q.i = 0 /\ q.floor = Total
  BY Zenon, WindowReadFacts
<1> HIDE DEF q
<1>2. /\ tick'.window = tick.window + v /\ tick'.intact = b
      /\ tick'.at = tick.at /\ tick'.atStart = tick.atStart /\ tick'.total = tick.total
      /\ tick'.pc = q.pc /\ tick'.i = q.i /\ tick'.floor = q.floor
  <2>1. tick' = [q EXCEPT !.intact = b]
    BY Zenon DEF q
  <2> QED
    BY Zenon, <1>1, <2>1 DEF Tick
<1>3. /\ tick.i < Window /\ tick.at <= now /\ tick.total = 0 /\ Shown <= Total
      /\ tick.window <= S(last) - S(old)
      /\ tick.intact /\ now < tick.at + 1 + Expiry - Window => tick.atStart <= tick.window + S(old) - S(first)
  BY Zenon DEF Reading, WindowSoFar
<1>4. S(old) = S(new) + gain
  BY Zenon, WindowStep
<1>5. /\ last \in 0 .. MaxNow + 1 /\ old \in 0 .. MaxNow + 1
      /\ new \in 0 .. MaxNow + 1 /\ first \in 0 .. MaxNow + 1 /\ tick.i + 1 \in Nat
  <2>1. tick.i + 1 \in Nat
    BY <1>0
  <2> QED
    BY Zenon, <1>0, <2>1, FromType, Bounds
<1>6. S(last) \in Nat /\ S(old) \in Nat /\ S(new) \in Nat /\ S(first) \in Nat
  BY Zenon, <1>5, CountTypes
<1>7. gain \in Nat /\ v <= gain
      /\ (b /\ now < tick.at + 1 + Expiry - Window => tick.intact /\ v = gain)
  <2>1. CASE Second(tick.i) \in Seconds
    <3> DEFINE t == Second(tick.i)
    <3>1. t = tick.at - tick.i
      BY Zenon DEF Second
    <3>2. /\ throughput[t] <= counted[t]
          /\ now < t + Expiry => throughput[t] = counted[t]
          /\ throughput[t] \in Nat /\ counted[t] \in Nat
      BY Zenon, <2>1 DEF Kept, MetricsTypeOK
    <3>3. v <= throughput[t] /\ (b => tick.intact /\ v = throughput[t]) /\ gain = counted[t]
      BY Zenon, <2>1
    <3>4. now < tick.at + 1 + Expiry - Window => now < t + Expiry
      BY <1>0, <1>3, <3>1, Bounds
    <3> HIDE DEF t, gain
    <3>5. v <= counted[t]
      BY <3>2, <3>3
    <3> QED
      BY Zenon, <3>2, <3>3, <3>4, <3>5
  <2>2. CASE Second(tick.i) \notin Seconds
    <3>1. v <= 0 /\ (b => tick.intact /\ v = 0) /\ gain = 0
      BY Zenon, <2>2
    <3> HIDE DEF gain
    <3> QED
      BY <3>1
  <2> QED
    BY Zenon, <2>1, <2>2
<1> HIDE DEF S, last, old, new, first, gain
<1>8. /\ tick'.window <= S(last) - S(new)
      /\ tick'.intact /\ now < tick.at + 1 + Expiry - Window => tick.atStart <= tick'.window + S(new) - S(first)
  <2>1. tick.window + v <= S(last) - S(new)
    BY <1>0, <1>3, <1>4, <1>6, <1>7
  <2>2. ASSUME b, now < tick.at + 1 + Expiry - Window PROVE tick.atStart <= tick.window + v + S(new) - S(first)
    <3>1. tick.atStart <= tick.window + S(old) - S(first) /\ v = gain
      BY Zenon, <1>3, <1>7, <2>2
    <3> QED
      BY <1>0, <1>4, <1>6, <1>7, <3>1
  <2> QED
    BY Zenon, <1>2, <2>1, <2>2
<1>9. Shown' = Shown /\ Total' = Total
  BY Zenon DEF Shown, Total
<1>10. CASE tick.i + 1 < Window
  <2>1. tick'.pc = "window" /\ tick'.i = tick.i + 1
    BY Zenon, <1>1, <1>2, <1>10
  <2>2. WindowSoFar'
    BY Zenon, <1>2, <1>8, <1>10, <2>1 DEF WindowSoFar, S, last, new, first
  <2>3. tick'.pc # "idle" /\ tick'.pc # "total" /\ tick'.pc # "publish"
    BY <2>1
  <2> QED
    BY Zenon, <1>2, <1>3, <1>9, <2>2, <2>3 DEF Reading, TotalSoFar, WindowCounts
<1>11. CASE ~(tick.i + 1 < Window)
  <2>1. tick'.pc = "total" /\ tick'.i = 0 /\ tick'.floor = Total
    BY Zenon, <1>1, <1>2, <1>11
  <2>2. tick.i + 1 = Window
    BY <1>0, <1>3, <1>11, Bounds
  <2>3. new = first
    BY Zenon, <2>2 DEF new, first
  <2>4. tick'.window <= S(last) - S(first)
    BY Zenon, <1>8, <2>3
  <2>5. tick'.intact /\ now < tick.at + 1 + Expiry - Window => tick.atStart <= tick'.window
    <3>1. tick'.window \in Nat
      BY <1>0, <1>2
    <3>2. tick'.window + S(new) - S(first) = tick'.window
      BY <1>6, <2>3, <3>1
    <3> QED
      BY Zenon, <1>8, <3>2
  <2>6. WindowCounts'
    BY Zenon, <1>2, <2>4, <2>5 DEF WindowCounts, Countable, S, last, first
  <2>7. tick'.window <= Total
    <3>1. S(last) <= S(MaxNow + 1) /\ S(MaxNow + 1) \in Nat
      <4>1. last <= MaxNow + 1 /\ MaxNow + 1 \in 0 .. MaxNow + 1
        BY <1>5, Bounds
      <4> QED
        BY Zenon, <1>5, <4>1, SumMonotone, CountTypes DEF S, MetricsTypeOK
    <3>2. S(MaxNow + 1) + Cardinality(Halfway) <= Total /\ Cardinality(Halfway) \in Nat /\ Total \in Nat
      BY Zenon, CountTypes DEF Counts, S
    <3> QED
      BY <1>0, <1>2, <1>6, <2>4, <3>1, <3>2
  <2>8. TotalSoFar'
    <3>1. tick'.i \in 0 .. 2 /\ tick'.total <= Got(tick.i)' /\ tick'.floor <= tick'.total + Rest(tick.i)'
      BY <1>0, <1>2, <1>3, <2>1 DEF Got, Rest, Total
    <3>2. tick'.pc # "publish"
      BY <2>1
    <3> QED
      BY Zenon, <1>3, <1>9, <2>1, <2>7, <3>1, <3>2 DEF TotalSoFar
  <2>9. tick'.pc # "idle" /\ tick'.pc # "window"
    BY <2>1
  <2> QED
    BY Zenon, <1>2, <1>3, <1>9, <2>6, <2>8, <2>9 DEF Reading, WindowSoFar
<1> QED
  BY Zenon, <1>10, <1>11

(* What a GET of a counter may give: b tells whether it has not failed. *)
LEMMA ReadingTotal ==
    ASSUME MetricsTypeOK, Reading, tick.pc = "total",
           UNCHANGED <<now, completed, counted, published>>,
           NEW v \in Nat, NEW b \in BOOLEAN,
           LET key == completed[Statuses[tick.i + 1]] IN v <= key /\ (b => tick.intact /\ v = key),
           tick' = [TotalRead(v) EXCEPT !.intact = b]
    PROVE  Reading'
<1> DEFINE q == TotalRead(v)
<1>0. /\ now \in Nat /\ tick.at \in Nat /\ tick.i \in Nat
      /\ tick.window \in Nat /\ tick.atStart \in Nat /\ tick.total \in Nat /\ tick.floor \in Nat
      /\ tick.intact \in BOOLEAN /\ Shown \in Nat
      /\ completed["succeeded"] \in Nat /\ completed["dead"] \in Nat /\ completed["failed"] \in Nat
  BY Zenon, TickNumbers
<1>1. /\ q \in Tick
      /\ q.total = tick.total + v
      /\ q.window = tick.window /\ q.floor = tick.floor
      /\ tick.i + 1 < 3 => /\ q.pc = tick.pc /\ q.i = tick.i + 1
                           /\ q.at = tick.at /\ q.atStart = tick.atStart
      /\ ~(tick.i + 1 < 3) => q.pc = "publish" /\ q.at = 0
  BY Zenon, TotalReadFacts
<1> HIDE DEF q
<1>2. /\ tick'.total = tick.total + v /\ tick'.intact = b
      /\ tick'.window = tick.window /\ tick'.floor = tick.floor
      /\ tick'.pc = q.pc /\ tick'.i = q.i /\ tick'.at = q.at /\ tick'.atStart = q.atStart
  <2>1. tick' = [q EXCEPT !.intact = b]
    BY Zenon DEF q
  <2> QED
    BY Zenon, <1>1, <2>1 DEF Tick
<1>3. /\ tick.at <= now /\ Shown <= Total /\ tick.i \in 0 .. 2
      /\ tick.total <= Got(tick.i)
      /\ tick.intact => tick.floor <= tick.total + Rest(tick.i)
      /\ tick.window <= tick.floor /\ Shown <= tick.floor
      /\ WindowCounts
  BY Zenon DEF Reading, TotalSoFar
<1>4. /\ tick.i = 0 => v <= completed["succeeded"] /\ (b => v = completed["succeeded"])
      /\ tick.i = 1 => v <= completed["dead"] /\ (b => v = completed["dead"])
      /\ tick.i = 2 => v <= completed["failed"] /\ (b => v = completed["failed"])
      /\ b => tick.intact
  BY Zenon, <1>3, NextCounter
<1>5. Shown' = Shown /\ Total' = Total
  BY Zenon DEF Shown, Total
<1>6. CASE tick.i + 1 < 3
  <2>1. tick'.pc = "total" /\ tick'.i = tick.i + 1 /\ tick'.at = tick.at /\ tick'.atStart = tick.atStart
    BY Zenon, <1>1, <1>2, <1>6
  <2>2. tick'.pc # "idle" /\ tick'.pc # "window" /\ tick'.pc # "publish"
    BY <2>1
  <2>3. WindowCounts'
    BY Zenon, <1>2, <1>3, <1>4, <2>1 DEF WindowCounts, Countable
  <2>4. tick'.i \in 0 .. 2 /\ tick'.total <= Got(tick.i)' /\ (b => tick'.floor <= tick'.total + Rest(tick.i)')
    <3>1. tick.i = 0 \/ tick.i = 1
      BY <1>0, <1>6
    <3>2. CASE tick.i = 0
      BY <1>0, <1>2, <1>3, <1>4, <2>1, <3>2 DEF Got, Rest
    <3>3. CASE tick.i = 1
      BY <1>0, <1>2, <1>3, <1>4, <2>1, <3>3 DEF Got, Rest
    <3> QED
      BY Zenon, <3>1, <3>2, <3>3
  <2>5. TotalSoFar'
    BY Zenon, <1>2, <1>3, <1>5, <2>2, <2>4 DEF TotalSoFar
  <2> QED
    BY Zenon, <1>3, <1>5, <2>1, <2>2, <2>3, <2>5 DEF Reading, WindowSoFar
<1>7. CASE ~(tick.i + 1 < 3)
  <2>1. tick'.pc = "publish" /\ tick'.at = 0 /\ tick.i = 2
    BY <1>0, <1>1, <1>2, <1>3, <1>7
  <2>2. tick'.pc # "idle" /\ tick'.pc # "window" /\ tick'.pc # "total"
    BY <2>1
  <2>3. tick'.total <= Total /\ (b => tick'.floor <= tick'.total)
    BY <1>0, <1>2, <1>3, <1>4, <2>1 DEF Got, Rest, Total
  <2>4. TotalSoFar'
    BY Zenon, <1>2, <1>3, <1>5, <2>2, <2>3 DEF TotalSoFar
  <2>5. tick'.at <= now'
    BY <1>0, <2>1
  <2> QED
    BY Zenon, <1>3, <1>5, <2>2, <2>4, <2>5 DEF Reading, WindowSoFar, WindowCounts
<1> QED
  BY Zenon, <1>6, <1>7

(* What a tick has read stays right when the ticker goes on. *)
LEMMA ReadingTicker ==
    ASSUME MetricsTypeOK, Kept, Counts, Reading,
           Snapshot \/ ReadWindow \/ ReadTotal \/ ReadFails \/ Publish \/ UNCHANGED vars
    PROVE  Reading'
<1>0. UNCHANGED <<now, completed, counted>>
  BY Zenon, TickerFrame
<1>a. tick \in Tick /\ 0 \in Nat /\ FALSE \in BOOLEAN /\ tick.intact \in BOOLEAN
  BY Zenon, TickNumbers, Bounds DEF MetricsTypeOK
<1>1. CASE Snapshot
  <2>1. /\ tick'.pc = "window" /\ tick'.at = now /\ tick'.atStart = Countable(now)
        /\ tick'.i = tick.i /\ tick'.window = tick.window /\ tick'.total = tick.total
        /\ UNCHANGED published
    BY Zenon, <1>1, <1>a DEF Snapshot, Tick
  <2>2. tick.i = 0 /\ tick.window = 0 /\ tick.total = 0 /\ Shown <= Total
    BY Zenon, <1>1 DEF Snapshot, Reading
  <2>3. tick'.pc # "idle" /\ tick'.pc # "total" /\ tick'.pc # "publish"
    BY <2>1
  <2>4. now \in Nat /\ now \in Seconds /\ From(now, 0) = now + 1 /\ now <= now
    BY Bounds DEF MetricsTypeOK, Seconds, From
  <2> DEFINE s == SumBefore(counted)[now + 1]
             f == SumBefore(counted)[From(now, Window)]
  <2>5. s \in Nat /\ f \in Nat
    BY Zenon, <2>4, FromType, Bounds, CountTypes
  <2>6. WindowSoFar'
    <3>1. Countable(now) = s - f
      BY Zenon DEF Countable
    <3> HIDE DEF s, f
    <3>2. 0 < Window /\ 0 <= s - s /\ s - f <= 0 + s - f
      BY <2>5, Bounds
    <3> QED
      BY Zenon, <1>0, <2>1, <2>2, <2>4, <3>1, <3>2 DEF WindowSoFar, s, f
  <2> QED
    BY Zenon, <1>0, <2>1, <2>2, <2>3, <2>4, <2>6 DEF Reading, TotalSoFar, WindowCounts, Shown, Total
<1>2. CASE ReadWindow
  <2> DEFINE v == IF Second(tick.i) \in Seconds THEN throughput[Second(tick.i)] ELSE 0
  <2>1. v \in Nat
    BY Zenon, <1>a DEF MetricsTypeOK
  <2>2. WindowRead(v) \in Tick /\ WindowRead(v).intact = tick.intact
    BY Zenon, <2>1, WindowReadFacts
  <2>3. tick' = [WindowRead(v) EXCEPT !.intact = tick.intact]
    BY Zenon, <1>2, <2>2 DEF ReadWindow, Tick
  <2>4. v <= v
    <3> HIDE DEF v
    <3> QED
      BY <2>1
  <2> QED
    BY Zenon, <1>0, <1>2, <1>a, <2>1, <2>3, <2>4, ReadingWindow DEF ReadWindow
<1>3. CASE ReadTotal
  <2> DEFINE v == completed[Statuses[tick.i + 1]]
  <2>1. v \in Nat
    BY Zenon, <1>3, NextCounter DEF ReadTotal, Reading, TotalSoFar
  <2>2. TotalRead(v) \in Tick /\ TotalRead(v).intact = tick.intact
    BY Zenon, <2>1, TotalReadFacts
  <2>3. tick' = [TotalRead(v) EXCEPT !.intact = tick.intact]
    BY Zenon, <1>3, <2>2 DEF ReadTotal, Tick
  <2>4. v <= v
    <3> HIDE DEF v
    <3> QED
      BY <2>1
  <2> QED
    BY Zenon, <1>0, <1>3, <1>a, <2>1, <2>3, <2>4, ReadingTotal DEF ReadTotal
<1>4. CASE ReadFails
  <2>1. UNCHANGED published
    BY Zenon, <1>4 DEF ReadFails
  <2>2. CASE tick.pc = "window" /\ tick' = [WindowRead(0) EXCEPT !.intact = FALSE]
    <3>1. 0 <= IF Second(tick.i) \in Seconds THEN throughput[Second(tick.i)] ELSE 0
      BY DEF MetricsTypeOK
    <3> QED
      BY Zenon, <1>0, <1>a, <2>1, <2>2, <3>1, ReadingWindow
  <2>3. CASE tick.pc = "total" /\ tick' = [TotalRead(0) EXCEPT !.intact = FALSE]
    <3>1. completed[Statuses[tick.i + 1]] \in Nat
      BY Zenon, <2>3, NextCounter DEF Reading, TotalSoFar
    <3>2. 0 <= completed[Statuses[tick.i + 1]]
      BY <3>1
    <3> QED
      BY Zenon, <1>0, <1>a, <2>1, <2>3, <3>2, ReadingTotal
  <2> QED
    BY Zenon, <1>4, <2>2, <2>3 DEF ReadFails
<1>5. CASE Publish
  <2>1. published' = [total |-> tick.total, intact |-> tick.intact] /\ tick' = IdleTick
    BY Zenon, <1>5 DEF Publish
  <2>2. tick.total <= Total
    BY Zenon, <1>5 DEF Publish, Reading, TotalSoFar
  <2>3. published' # NULL => Shown' = tick.total
    BY Zenon, <2>1 DEF Shown
  <2>4. published' = NULL => Shown' = 0
    BY Zenon DEF Shown
  <2>5. Shown' <= Total' /\ 0 <= now'
    <3>1. Total' = Total /\ Total \in Nat /\ now' \in Nat
      BY Zenon, <1>0, CountTypes, TickNumbers DEF Total
    <3> QED
      BY <2>2, <2>3, <2>4, <3>1
  <2>6. /\ tick'.pc = "idle" /\ tick'.at = 0 /\ tick'.total = 0 /\ tick'.window = 0 /\ tick'.i = 0
        /\ tick'.pc # "window" /\ tick'.pc # "total" /\ tick'.pc # "publish"
    BY <2>1 DEF IdleTick
  <2> QED
    BY Zenon, <2>5, <2>6 DEF Reading, WindowSoFar, TotalSoFar, WindowCounts
<1>6. CASE UNCHANGED vars
  BY Zenon, <1>0, <1>6 DEF vars, ticks, Reading, WindowSoFar, TotalSoFar, WindowCounts, Countable, Shown, Total,
     Got, Rest
<1> QED
  BY Zenon, <1>1, <1>2, <1>3, <1>4, <1>5, <1>6

-----------------------------------------------------------------------------
(* Sorting, and the percentiles. *)

(* A sequence that is not empty has a greatest value. *)
LEMMA Greatest ==
    \A n \in Nat : \A f \in [1 .. n + 1 -> Int] : \E m \in 1 .. n + 1 : \A i \in 1 .. n + 1 : f[i] <= f[m]
<1> DEFINE D == {n \in Nat : \A f \in [1 .. n + 1 -> Int] :
                               \E m \in 1 .. n + 1 : \A i \in 1 .. n + 1 : f[i] <= f[m]}
<1>1. 0 \in D
  <2> SUFFICES ASSUME NEW f \in [1 .. 0 + 1 -> Int]
               PROVE  \E m \in 1 .. 0 + 1 : \A i \in 1 .. 0 + 1 : f[i] <= f[m]
    BY Zenon
  <2>1. 1 \in 1 .. 0 + 1 /\ \A i \in 1 .. 0 + 1 : i = 1
    OBVIOUS
  <2>2. f[1] <= f[1]
    BY <2>1
  <2> QED
    BY Zenon, <2>1, <2>2
<1>2. ASSUME NEW n \in Nat, n \in D PROVE n + 1 \in D
  <2>0. n + 1 \in Nat
    OBVIOUS
  <2> SUFFICES ASSUME NEW f \in [1 .. (n + 1) + 1 -> Int]
               PROVE  \E m \in 1 .. (n + 1) + 1 : \A i \in 1 .. (n + 1) + 1 : f[i] <= f[m]
    BY Zenon, <2>0
  <2> DEFINE g == [i \in 1 .. n + 1 |-> f[i]]
  <2>1. g \in [1 .. n + 1 -> Int]
    OBVIOUS
  <2>2. PICK m \in 1 .. n + 1 : \A i \in 1 .. n + 1 : g[i] <= g[m]
    <3> HIDE DEF g
    <3> QED
      BY Zenon, <1>2, <2>1
  <2>3. \A i \in 1 .. n + 1 : f[i] <= f[m] /\ i \in 1 .. (n + 1) + 1
    BY <2>2
  <2> HIDE DEF g
  <2>4. CASE f[n + 2] <= f[m]
    <3>1. \A i \in 1 .. (n + 1) + 1 : f[i] <= f[m]
      BY <2>3, <2>4
    <3> QED
      BY Zenon, <2>3, <3>1
  <2>5. CASE ~(f[n + 2] <= f[m])
    <3>1. n + 2 \in 1 .. (n + 1) + 1 /\ f[n + 2] \in Int /\ f[m] \in Int /\ f[m] <= f[n + 2]
      BY <2>3, <2>5
    <3>2. \A i \in 1 .. (n + 1) + 1 : f[i] <= f[n + 2]
      BY <2>3, <3>1
    <3> QED
      BY Zenon, <3>1, <3>2
  <2> QED
    BY Zenon, <2>4, <2>5
<1> HIDE DEF D
<1>3. \A n \in Nat : n \in D
  BY Zenon, <1>1, <1>2, SetInduction
<1> QED
  BY Zenon, <1>3 DEF D

(* The order p sorts f. *)
Sorts(p, f, n) == \A i, j \in 1 .. n : i < j => f[p[i]] <= f[p[j]]

(* Every sequence of numbers can be sorted: its greatest value goes to the *)
(* end, in exchange for the one that is there.                             *)
LEMMA Sortable ==
    \A n \in Nat : \A f \in [1 .. n -> Int] : \E p \in Bijection(1 .. n, 1 .. n) : Sorts(p, f, n)
<1> DEFINE D == {n \in Nat : \A f \in [1 .. n -> Int] : \E p \in Bijection(1 .. n, 1 .. n) : Sorts(p, f, n)}
<1>1. 0 \in D
  <2> SUFFICES ASSUME NEW f \in [1 .. 0 -> Int]
               PROVE  \E p \in Bijection(1 .. 0, 1 .. 0) : Sorts(p, f, 0)
    BY Zenon
  <2> DEFINE p == [i \in 1 .. 0 |-> i]
  <2>1. 1 .. 0 = {}
    OBVIOUS
  <2>2. p \in Bijection(1 .. 0, 1 .. 0)
    BY Zenon, <2>1 DEF Bijection, Injection, Surjection, IsInjective
  <2>3. Sorts(p, f, 0)
    BY Zenon, <2>1 DEF Sorts
  <2> QED
    BY Zenon, <2>2, <2>3
<1>2. ASSUME NEW n \in Nat, n \in D PROVE n + 1 \in D
  <2>0. n + 1 \in Nat
    OBVIOUS
  <2> SUFFICES ASSUME NEW f \in [1 .. n + 1 -> Int]
               PROVE  \E p \in Bijection(1 .. n + 1, 1 .. n + 1) : Sorts(p, f, n + 1)
    BY Zenon, <2>0
  <2>1. PICK m \in 1 .. n + 1 : \A i \in 1 .. n + 1 : f[i] <= f[m]
    BY Zenon, Greatest
  <2> DEFINE X(i) == IF i = m THEN n + 1 ELSE IF i = n + 1 THEN m ELSE i
             g == [i \in 1 .. n |-> f[X(i)]]
  <2>2. \A i \in 1 .. n + 1 : X(i) \in 1 .. n + 1 /\ X(X(i)) = i
    OBVIOUS
  <2>3. \A i \in 1 .. n : i \in 1 .. n + 1 /\ X(i) \in 1 .. n + 1 /\ X(i) # m
    OBVIOUS
  <2>4. \A i \in 1 .. n + 1 : i # m => X(i) \in 1 .. n
    OBVIOUS
  <2> HIDE DEF X
  <2>5. g \in [1 .. n -> Int] /\ \A i \in 1 .. n : g[i] = f[X(i)]
    BY Zenon, <2>3
  <2> HIDE DEF g
  <2>6. PICK p \in Bijection(1 .. n, 1 .. n) : Sorts(p, g, n)
    BY Zenon, <1>2, <2>5
  <2>7. /\ p \in [1 .. n -> 1 .. n]
        /\ \A i, j \in 1 .. n : p[i] = p[j] => i = j
        /\ \A k \in 1 .. n : \E i \in 1 .. n : p[i] = k
    BY Zenon DEF Bijection, Injection, Surjection, IsInjective
  <2> DEFINE q == [i \in 1 .. n + 1 |-> IF i = n + 1 THEN m ELSE X(p[i])]
  <2>8. \A i \in 1 .. n + 1 : i # n + 1 => i \in 1 .. n
    OBVIOUS
  <2>9. n + 1 \in 1 .. n + 1 /\ \A i \in 1 .. n : i # n + 1 /\ i \in 1 .. n + 1
    OBVIOUS
  <2>10. /\ q \in [1 .. n + 1 -> 1 .. n + 1] /\ q[n + 1] = m
         /\ \A i \in 1 .. n : q[i] = X(p[i]) /\ q[i] \in 1 .. n + 1 /\ q[i] # m
    BY Zenon, <2>3, <2>7, <2>8, <2>9
  <2> HIDE DEF q
  <2>11. ASSUME NEW i \in 1 .. n + 1, NEW j \in 1 .. n + 1, q[i] = q[j] PROVE i = j
    <3>1. CASE i = n + 1 \/ j = n + 1
      BY Zenon, <2>8, <2>10, <2>11, <3>1
    <3>2. CASE i # n + 1 /\ j # n + 1
      <4>1. i \in 1 .. n /\ j \in 1 .. n /\ p[i] \in 1 .. n + 1 /\ p[j] \in 1 .. n + 1
        BY Zenon, <2>3, <2>7, <2>8, <3>2
      <4>2. X(X(p[i])) = X(X(p[j]))
        BY Zenon, <2>10, <2>11, <4>1
      <4>3. p[i] = p[j]
        <5>1. X(X(p[i])) = p[i] /\ X(X(p[j])) = p[j]
          BY Zenon, <2>2, <4>1
        <5> QED
          BY Zenon, <4>2, <5>1
      <4> QED
        BY Zenon, <2>7, <4>1, <4>3
    <3> QED
      BY Zenon, <3>1, <3>2
  <2>12. ASSUME NEW k \in 1 .. n + 1 PROVE \E i \in 1 .. n + 1 : q[i] = k
    <3>1. CASE k = m
      BY Zenon, <2>9, <2>10, <3>1
    <3>2. CASE k # m
      <4>1. X(k) \in 1 .. n
        BY Zenon, <2>4, <3>2
      <4>2. PICK i \in 1 .. n : p[i] = X(k)
        BY Zenon, <2>7, <4>1
      <4>3. q[i] = k /\ i \in 1 .. n + 1
        BY Zenon, <2>2, <2>9, <2>10, <4>2
      <4> QED
        BY Zenon, <4>3
    <3> QED
      BY Zenon, <3>1, <3>2
  <2>13. q \in Bijection(1 .. n + 1, 1 .. n + 1)
    BY Zenon, <2>10, <2>11, <2>12 DEF Bijection, Injection, Surjection, IsInjective
  <2>14. ASSUME NEW i \in 1 .. n + 1, NEW j \in 1 .. n + 1, i < j PROVE f[q[i]] <= f[q[j]]
    <3>1. i \in 1 .. n
      BY <2>14
    <3>2. CASE j = n + 1
      BY Zenon, <2>1, <2>10, <3>1, <3>2
    <3>3. CASE j # n + 1
      <4>1. j \in 1 .. n
        BY Zenon, <2>8, <3>3
      <4>2. g[p[i]] <= g[p[j]]
        BY Zenon, <2>6, <2>14, <3>1, <4>1 DEF Sorts
      <4>3. f[q[i]] = g[p[i]] /\ f[q[j]] = g[p[j]]
        <5>1. p[i] \in 1 .. n /\ p[j] \in 1 .. n
          BY Zenon, <2>7, <3>1, <4>1
        <5>2. q[i] = X(p[i]) /\ q[j] = X(p[j])
          BY Zenon, <2>10, <3>1, <4>1
        <5> QED
          BY Zenon, <2>5, <5>1, <5>2
      <4> QED
        BY Zenon, <4>2, <4>3
    <3> QED
      BY Zenon, <3>2, <3>3
  <2> QED
    BY Zenon, <2>13, <2>14 DEF Sorts
<1> HIDE DEF D
<1>3. \A n \in Nat : n \in D
  BY Zenon, <1>1, <1>2, SetInduction
<1> QED
  BY Zenon, <1>3 DEF D

(* What sorting gives: an order of the places in which the values do not   *)
(* fall.                                                                   *)
LEMMA SortedFacts ==
    ASSUME NEW values \in Seq(Int)
    PROVE  \E p \in Bijection(1 .. Len(values), 1 .. Len(values)) :
              /\ Sorted(values) = [i \in 1 .. Len(values) |-> values[p[i]]]
              /\ Sorts(p, values, Len(values))
<1> DEFINE n == Len(values)
           P(p) == \A i, j \in 1 .. n : i < j => values[p[i]] <= values[p[j]]
           order == CHOOSE p \in Bijection(1 .. n, 1 .. n) : P(p)
<1>1. n \in Nat /\ DOMAIN values = 1 .. n /\ values \in [1 .. n -> Int]
  OBVIOUS
<1>2. Sorted(values) = [i \in 1 .. n |-> values[order[i]]]
  BY Zenon DEF Sorted
<1> HIDE DEF n
<1>3. \E p \in Bijection(1 .. n, 1 .. n) : P(p)
  BY Zenon, <1>1, Sortable DEF Sorts
<1> HIDE DEF P
<1>4. order \in Bijection(1 .. n, 1 .. n) /\ P(order)
  BY Zenon, <1>3
<1> HIDE DEF order
<1>5. Sorts(order, values, n)
  BY Zenon, <1>4 DEF P, Sorts
<1> QED
  BY Zenon, <1>2, <1>4, <1>5 DEF n

(* The places of a sequence whose values are in A. *)
Hits(f, n, A) == {i \in 1 .. n : f[i] \in A}

(* Sorting leaves their number alone. *)
LEMMA SameRank ==
    ASSUME NEW n \in Nat, NEW f \in [1 .. n -> Int], NEW p \in Bijection(1 .. n, 1 .. n), NEW A
    PROVE  /\ IsFiniteSet(Hits([i \in 1 .. n |-> f[p[i]]], n, A)) /\ IsFiniteSet(Hits(f, n, A))
           /\ Cardinality(Hits(f, n, A)) = Cardinality(Hits([i \in 1 .. n |-> f[p[i]]], n, A))
<1> DEFINE sorted == [i \in 1 .. n |-> f[p[i]]]
           S == Hits(sorted, n, A)
           T == Hits(f, n, A)
           r == [i \in S |-> p[i]]
<1>0. /\ p \in [1 .. n -> 1 .. n]
      /\ \A i, j \in 1 .. n : p[i] = p[j] => i = j
      /\ \A k \in 1 .. n : \E i \in 1 .. n : p[i] = k
  BY Zenon DEF Bijection, Injection, Surjection, IsInjective
<1>1. \A i \in 1 .. n : sorted[i] = f[p[i]]
  BY Zenon
<1> HIDE DEF sorted
<1>2. \A i : i \in S <=> i \in 1 .. n /\ p[i] \in T
  BY Zenon, <1>0, <1>1 DEF Hits
<1>3. S \in SUBSET (1 .. n) /\ T \in SUBSET (1 .. n)
  BY Zenon DEF Hits
<1> HIDE DEF S, T
<1>4. r \in [S -> T] /\ \A i \in S : r[i] = p[i] /\ i \in 1 .. n
  BY Zenon, <1>2
<1>5. \A i, j \in S : r[i] = r[j] => i = j
  BY Zenon, <1>0, <1>4
<1>6. ASSUME NEW t \in T PROVE \E i \in S : r[i] = t
  <2>1. PICK i \in 1 .. n : p[i] = t
    BY Zenon, <1>0, <1>3
  <2>2. i \in S
    BY Zenon, <1>2, <2>1
  <2> QED
    BY Zenon, <1>4, <2>1, <2>2
<1>7. DOMAIN r = S
  BY Zenon
<1> HIDE DEF r
<1>8. r \in Bijection(S, T)
  BY Zenon, <1>4, <1>5, <1>6, <1>7 DEF Bijection, Injection, Surjection, IsInjective
<1>9. IsFiniteSet(1 .. n)
  BY FS_Interval
<1>10. IsFiniteSet(S) /\ IsFiniteSet(T)
  BY Zenon, <1>3, <1>9, FS_Subset
<1>11. Cardinality(T) = Cardinality(S)
  BY Zenon, <1>8, <1>10, FS_Bijection DEF ExistsBijection
<1> QED
  BY Zenon, <1>10, <1>11 DEF S, T, sorted

(* The percentiles of a Snapshot. *)
Percents == {50, 95, 99}

(* The index of a percentile. *)
LEMMA PercentileIndex ==
    ASSUME NEW n \in Nat \ {0}, NEW p \in Percents
    PROVE  LET k == ((n - 1) * p) \div 100
           IN k \in Nat /\ k + 1 \in 1 .. n /\ 100 * k <= (n - 1) * p /\ (n - 1) * p < 100 * (k + 1)
<1>1. CASE p = 50
  BY <1>1
<1>2. CASE p = 95
  BY <1>2
<1>3. CASE p = 99
  BY <1>3
<1> QED
  BY Zenon, <1>1, <1>2, <1>3 DEF Percents

(* The value at place k + 1 of the sorted sample: at most k are below it,  *)
(* and k + 1 at least are not above.                                       *)
LEMMA RankOfPlace ==
    ASSUME NEW n \in Nat, NEW f \in [1 .. n -> Int],
           NEW o \in Bijection(1 .. n, 1 .. n), Sorts(o, f, n),
           NEW k \in Nat, k + 1 \in 1 .. n, NEW v, v = f[o[k + 1]]
    PROVE  LET below == {i \in 1 .. n : f[i] < v}
               upto == {i \in 1 .. n : f[i] <= v}
           IN /\ Cardinality(below) \in Nat /\ Cardinality(below) <= k
              /\ Cardinality(upto) \in Nat /\ k + 1 <= Cardinality(upto)
<1> DEFINE s == [i \in 1 .. n |-> f[o[i]]]
<1>1. o \in [1 .. n -> 1 .. n]
  BY Zenon DEF Bijection, Injection
<1>2. \A i \in 1 .. n : s[i] = f[o[i]] /\ s[i] \in Int
  BY Zenon, <1>1
<1> DEFINE A == {x \in Int : x < v}
           B == {x \in Int : x <= v}
           SA == Hits(s, n, A)
           SB == Hits(s, n, B)
           TA == Hits(f, n, A)
           TB == Hits(f, n, B)
<1>3. /\ \A x : x \in A <=> x \in Int /\ x < v
      /\ \A x : x \in B <=> x \in Int /\ x <= v
  BY Zenon
<1> HIDE DEF A, B
<1>4. /\ IsFiniteSet(SA) /\ Cardinality(TA) = Cardinality(SA)
      /\ IsFiniteSet(SB) /\ Cardinality(TB) = Cardinality(SB)
  BY Zenon, SameRank
<1> HIDE DEF s
<1>5. s[k + 1] = v /\ v \in Int
  BY Zenon, <1>2
<1>6. \A i, j \in 1 .. n : i < j => s[i] <= s[j]
  BY Zenon, <1>2 DEF Sorts
<1>7. ASSUME NEW i \in 1 .. n, s[i] < v PROVE i \in 1 .. k
  <2>1. ~(k + 1 < i)
    <3> SUFFICES ASSUME k + 1 < i PROVE FALSE
      OBVIOUS
    <3>1. v <= s[i] /\ s[i] \in Int
      BY Zenon, <1>2, <1>5, <1>6
    <3> QED
      BY <1>5, <1>7, <3>1
  <2>2. k + 1 # i
    BY <1>5, <1>7
  <2> QED
    BY <2>1, <2>2
<1>8. ASSUME NEW i \in 1 .. k + 1 PROVE i \in 1 .. n /\ s[i] <= v
  <2>1. i \in 1 .. n
    OBVIOUS
  <2>2. CASE i = k + 1
    BY <1>5, <2>1, <2>2
  <2>3. CASE i # k + 1
    <3>1. i < k + 1
      BY <2>3
    <3> QED
      BY Zenon, <1>5, <1>6, <2>1, <3>1
  <2> QED
    BY Zenon, <2>1, <2>2, <2>3
<1>9. SA \in SUBSET (1 .. k) /\ 1 .. k + 1 \in SUBSET SB
  BY Zenon, <1>2, <1>3, <1>7, <1>8 DEF Hits
<1>10. TA = {i \in 1 .. n : f[i] < v} /\ TB = {i \in 1 .. n : f[i] <= v}
  BY Zenon, <1>3 DEF Hits
<1> HIDE DEF SA, SB, TA, TB
<1>11. Cardinality(SA) \in Nat /\ Cardinality(SA) <= k
  <2>1. IsFiniteSet(1 .. k) /\ Cardinality(1 .. k) = k
    <3>1. 1 \in Int /\ k \in Int
      OBVIOUS
    <3>2. IsFiniteSet(1 .. k) /\ Cardinality(1 .. k) = IF 1 > k THEN 0 ELSE k - 1 + 1
      BY Zenon, <3>1, FS_Interval
    <3> QED
      BY <3>2
  <2>2. Cardinality(SA) <= Cardinality(1 .. k)
    BY Zenon, <1>9, <2>1, FS_Subset
  <2> QED
    BY Zenon, <1>4, <2>1, <2>2, FS_CardinalityType
<1>12. Cardinality(SB) \in Nat /\ k + 1 <= Cardinality(SB)
  <2>1. IsFiniteSet(1 .. k + 1) /\ Cardinality(1 .. k + 1) = k + 1
    BY FS_Interval
  <2>2. Cardinality(1 .. k + 1) <= Cardinality(SB)
    BY Zenon, <1>4, <1>9, FS_Subset
  <2> QED
    BY Zenon, <1>4, <2>1, <2>2, FS_CardinalityType
<1> QED
  BY Zenon, <1>4, <1>10, <1>11, <1>12

(* A percentile has the rank that it stands for. *)
LEMMA PercentileRank ==
    ASSUME NEW sample \in Seq(Int), sample # <<>>, NEW p \in Percents
    PROVE  Ranked(sample, p)
<1> DEFINE n == Len(sample)
           k == ((n - 1) * p) \div 100
           v == percentile(Sorted(sample), p)
<1>1. n \in Nat /\ n \in Nat \ {0} /\ sample \in [1 .. n -> Int] /\ DOMAIN sample = 1 .. n
  OBVIOUS
<1>2. PICK o \in Bijection(1 .. n, 1 .. n) :
         Sorted(sample) = [i \in 1 .. n |-> sample[o[i]]] /\ Sorts(o, sample, n)
  BY Zenon, SortedFacts
<1>3. o \in [1 .. n -> 1 .. n]
  BY Zenon DEF Bijection, Injection
<1>4. k \in Nat /\ k + 1 \in 1 .. n /\ 100 * k <= (n - 1) * p /\ (n - 1) * p < 100 * (k + 1)
  BY Zenon, <1>1, PercentileIndex
<1>5. v = sample[o[k + 1]]
  <2> DEFINE s == [i \in 1 .. n |-> sample[o[i]]]
  <2>1. s \in [1 .. n -> Int] /\ s[k + 1] = sample[o[k + 1]]
    BY Zenon, <1>1, <1>3, <1>4
  <2>2. s \in Seq(Int) /\ Len(s) = n /\ s # <<>>
    <3> HIDE DEF s, n, k
    <3>1. s \in Seq(Int) /\ Len(s) = n
      BY <1>1, <2>1
    <3> QED
      BY <1>1, <3>1
  <2>3. Sorted(sample) = s
    BY Zenon, <1>2
  <2> HIDE DEF s
  <2>4. percentile(s, p) = s[((Len(s) - 1) * p) \div 100 + 1]
    BY Zenon, <2>2 DEF percentile
  <2> QED
    BY Zenon, <2>1, <2>2, <2>3, <2>4
<1> HIDE DEF n, k, v
<1>6. v \in Range(sample)
  <2>1. o[k + 1] \in DOMAIN sample
    BY Zenon, <1>1, <1>3, <1>4
  <2> QED
    BY Zenon, <1>5, <2>1 DEF Range
<1> DEFINE c == Cardinality({i \in 1 .. n : sample[i] < v})
           d == Cardinality({i \in 1 .. n : sample[i] <= v})
<1>7. c \in Nat /\ c <= k /\ d \in Nat /\ k + 1 <= d
  <2>1. n \in Nat /\ sample \in [1 .. n -> Int] /\ Sorts(o, sample, n) /\ k \in Nat /\ k + 1 \in 1 .. n
    BY Zenon, <1>1, <1>2, <1>4
  <2> QED
    BY ZenonT(60), <1>5, <2>1, RankOfPlace
<1> HIDE DEF c, d
<1>8. 100 * c <= (n - 1) * p /\ 100 * d > (n - 1) * p
  <2> DEFINE w == (n - 1) * p
  <2>1. w \in Int /\ 100 * k <= w /\ w < 100 * (k + 1)
    <3>1. (n - 1) * p \in Int
      BY <1>1 DEF Percents
    <3> QED
      BY Zenon, <1>4, <3>1
  <2> HIDE DEF w
  <2>2. 100 * c <= w /\ 100 * d > w
    BY <1>4, <1>7, <2>1
  <2> QED
    BY Zenon, <2>2 DEF w
<1>9. /\ 100 * Cardinality({i \in DOMAIN sample : sample[i] < v}) <= (n - 1) * p
      /\ 100 * Cardinality({i \in DOMAIN sample : sample[i] <= v}) > (n - 1) * p
  BY Zenon, <1>1, <1>8 DEF c, d
<1> QED
  BY Zenon, <1>6, <1>9 DEF Ranked, n, v

-----------------------------------------------------------------------------
(* The theorems. *)

(* Nothing adds up to nothing. *)
LEMMA SumZero ==
    ASSUME NEW f \in [Seconds -> Nat], \A t \in Seconds : f[t] = 0
    PROVE  \A n \in 0 .. MaxNow + 1 : SumBefore(f)[n] = 0
<1> DEFINE D == {n \in Nat : n <= MaxNow + 1 => SumBefore(f)[n] = 0}
<1>1. 0 \in D
  BY Zenon, SumBeforeDef, Bounds
<1>2. ASSUME NEW n \in Nat, n \in D PROVE n + 1 \in D
  <2> SUFFICES ASSUME n + 1 <= MaxNow + 1 PROVE SumBefore(f)[n + 1] = 0
    OBVIOUS
  <2>1. n \in Seconds /\ n <= MaxNow + 1
    BY Bounds DEF Seconds
  <2>2. SumBefore(f)[n] = 0 /\ SumBefore(f)[n + 1] = SumBefore(f)[n] + f[n] /\ f[n] = 0
    BY Zenon, <1>2, <2>1, SumBeforeDef
  <2> QED
    BY <2>2
<1> HIDE DEF D
<1>3. \A n \in Nat : n \in D
  BY Zenon, <1>1, <1>2, SetInduction
<1> QED
  BY <1>3, Bounds DEF D

(* At first nothing is counted, and nothing read. *)
LEMMA MetricsInit ==
    ASSUME Init
    PROVE  Counts /\ Kept /\ Reading
<1>0. MetricsTypeOK
  BY Zenon, MetricsTypeInit
<1>1. /\ now = 0 /\ settled = 0 /\ resent = 0 /\ tick = IdleTick /\ published = NULL
      /\ \A s \in Conns : recorder[s] = Idle
      /\ \A t \in Seconds : throughput[t] = 0 /\ counted[t] = 0 /\ expires[t] = NULL
      /\ completed["succeeded"] = 0 /\ completed["dead"] = 0 /\ completed["failed"] = 0
  BY Zenon DEF Init, Completed
<1>2. Total = 0
  BY <1>1 DEF Total
<1>3. Counts
  <2>1. Idle.todo \notin {Todo0, Todo1} /\ Idle.todo # Todo2
    BY Zenon, Steps DEF Idle
  <2>2. Uncounted = {} /\ Halfway = {}
    BY Zenon, <1>1, <2>1 DEF Uncounted, Halfway
  <2>3. Cardinality(Uncounted) = 0 /\ Cardinality(Halfway) = 0
    BY Zenon, <2>2, FS_EmptySet
  <2>4. SumBefore(counted)[MaxNow + 1] = 0
    BY Zenon, <1>0, <1>1, CountTypes, SumZero DEF MetricsTypeOK
  <2> QED
    BY <1>1, <1>2, <2>3, <2>4 DEF Counts
<1>4. Kept
  BY <1>1 DEF Kept
<1>5. Reading
  <2>1. /\ tick.pc = "idle" /\ tick.at = 0 /\ tick.total = 0 /\ tick.window = 0 /\ tick.i = 0
        /\ tick.pc # "window" /\ tick.pc # "total" /\ tick.pc # "publish"
    BY <1>1 DEF IdleTick
  <2>2. Shown = 0 /\ 0 <= 0
    BY <1>1 DEF Shown
  <2> QED
    BY Zenon, <1>1, <1>2, <2>1, <2>2 DEF Reading, WindowSoFar, TotalSoFar, WindowCounts
<1> QED
  BY Zenon, <1>3, <1>4, <1>5

(* The inductive invariant of the metrics: the types, the steps of the     *)
(* recorders, and the bounds above.                                        *)
MetricsInv == MetricsTypeOK /\ Staged /\ Counts /\ Kept /\ Reading

(* Every step keeps it. *)
LEMMA MetricsStep ==
    ASSUME MetricsInv, [Next]_vars
    PROVE  MetricsInv'
<1> USE DEF MetricsInv
<1>1. Staged' /\ Counts' /\ Kept'
  BY Zenon, StagedStep, CountsStep, KeptStep
<1>2. CASE WorkerStep
  <2>1. MetricsTypeOK' /\ Grows /\ UNCHANGED <<tick, published>>
    BY Zenon, <1>2, WorkerTypes, WorkerGrows, WorkerFrame
  <2> QED
    BY Zenon, <1>1, <2>1, ReadingWorkers
<1>3. CASE Snapshot \/ ReadWindow \/ ReadTotal \/ ReadFails \/ Publish \/ UNCHANGED vars
  BY Zenon, <1>1, <1>3, TickerTypes, ReadingTicker
<1> QED
  BY Zenon, <1>2, <1>3, NextCases

(* It holds always. *)
LEMMA MetricsInvariant == Spec => []MetricsInv
<1>1. Init => MetricsInv
  BY Zenon, MetricsTypeInit, MetricsInit DEF MetricsInv
<1>2. MetricsInv /\ [Next]_vars => MetricsInv'
  BY Zenon, MetricsStep
<1> QED
  BY <1>1, <1>2, PTL DEF Spec

(* The keys of Redis, the recorders and the ticks stay well-formed. *)
THEOREM MetricsTypes == Spec => []MetricsTypeOK
<1>1. MetricsInv => MetricsTypeOK
  BY Zenon DEF MetricsInv
<1> QED
  BY <1>1, MetricsInvariant, PTL

(* total_processed counts settled attempts only, once each but for the     *)
(* pipelines that were sent again, and, unless a GET failed, all that were *)
(* counted when the reading began, and at least those that                 *)
(* throughput_per_sec counts: for any number of connections, attempts,     *)
(* repeats and failures, and any window.                                   *)
THEOREM AddingUp == Spec => []TotalAddsUp
<1>1. MetricsInv => TotalAddsUp
  <2> SUFFICES ASSUME MetricsInv PROVE TotalAddsUp
    OBVIOUS
  <2>1. Total <= settled + resent
    <3>1. /\ Total + Cardinality(Uncounted) <= settled + resent
          /\ Total \in Nat /\ settled \in Nat /\ resent \in Nat /\ Cardinality(Uncounted) \in Nat
      BY Zenon, CountTypes DEF MetricsInv, Counts
    <3> QED
      BY <3>1
  <2>2. ASSUME tick.pc = "publish" PROVE tick.total <= Total /\ (tick.intact => tick.floor <= tick.total)
                                         /\ tick.window <= tick.floor
    BY Zenon, <2>2 DEF MetricsInv, Reading, TotalSoFar
  <2>3. tick.total \in Nat /\ tick.floor \in Nat /\ tick.window \in Nat
    BY Zenon, TickNumbers DEF MetricsInv
  <2>4. tick.window <= tick.floor /\ tick.floor <= tick.total => tick.window <= tick.total
    BY <2>3
  <2> QED
    BY Zenon, <2>1, <2>2, <2>4 DEF TotalAddsUp
<1> QED
  BY <1>1, MetricsInvariant, PTL

(* throughput_per_sec counts completions of the window only and, unless a  *)
(* GET failed, all of those that were counted when the reading began, if   *)
(* the reading takes less than what is left of the keys' time.             *)
THEOREM WindowIsCounted == Spec => []WindowCounts
<1>1. MetricsInv => WindowCounts
  BY Zenon DEF MetricsInv, Reading
<1> QED
  BY <1>1, MetricsInvariant, PTL

(* total_processed never falls from a tick to the next, unless a GET of    *)
(* the later failed.                                                       *)
THEOREM TotalRises == Spec => TotalNeverFalls
<1>1. MetricsInv /\ [Next]_vars =>
         [published # NULL /\ published'.intact => published.total <= published'.total]_published
  <2> SUFFICES ASSUME MetricsInv, [Next]_vars, published' # published,
                      published # NULL, published'.intact
               PROVE  published.total <= published'.total
    BY Zenon
  <2>1. Publish
    BY Zenon, NextCases, WorkerFrame DEF Snapshot, ReadWindow, ReadTotal, ReadFails, vars, ticks
  <2>2. published'.total = tick.total /\ published'.intact = tick.intact
    BY Zenon, <2>1 DEF Publish
  <2>3. Shown <= tick.floor /\ tick.floor <= tick.total
    BY Zenon, <2>1, <2>2 DEF Publish, MetricsInv, Reading, TotalSoFar
  <2>4. Shown = published.total /\ Shown \in Nat /\ tick.floor \in Nat /\ tick.total \in Nat
    BY Zenon, TickNumbers DEF Shown, MetricsInv
  <2> QED
    BY <2>2, <2>3, <2>4
<1> QED
  BY <1>1, MetricsInvariant, PTL DEF Spec, TotalNeverFalls

(* The percentiles of a Snapshot are among the latencies and have their    *)
(* rank, whatever the latencies are and however many.                      *)
THEOREM Percentiles == Spec => []PercentilesRanked
<1>1. ASSUME NEW sample \in Samples, NEW p \in Percents, sample # <<>> PROVE Ranked(sample, p)
  <2>1. sample \in Seq(Int)
    BY Zenon, MetricsAssumption
  <2> QED
    BY Zenon, <1>1, <2>1, PercentileRank
<1>2. PercentilesRanked
  BY Zenon, <1>1 DEF PercentilesRanked, AllRanked, Percents
<1> QED
  BY <1>2, PTL
=============================================================================
