-------------------------- MODULE RateLimiterProofs --------------------------
(***************************************************************************)
(* Theorems about RateLimiter: how far it can overshoot, and that it is a  *)
(* token bucket but for the scripts that run late.                         *)
(***************************************************************************)
EXTENDS RateLimiter, TLAPS

(* Products, for the provers: a longer time earns more. *)
LEMMA Earned ==
    ASSUME NEW a \in Int, NEW b \in Int
    PROVE  /\ Rate * a \in Int
           /\ Rate * (a + b) = Rate * a + Rate * b
           /\ Rate * (a - b) = Rate * a - Rate * b
           /\ a <= b => Rate * a <= Rate * b
           /\ a * Rate = Rate * a
<1>1. Rate \in Nat
  BY RateAssumption
<1> QED
  BY SMTT(60), <1>1

(* A token is no more than a full bucket. *)
LEMMA FullType == Full \in Nat /\ Unit \in Nat \ {0} /\ Unit <= Full /\ Rate \in Nat
<1>1. burst \in Nat \ {0}
  BY RateAssumption DEF burst
<1>2. Unit \in Nat \ {0}
  BY RateAssumption
<1>3. burst * Unit \in Nat /\ Unit <= burst * Unit
  BY <1>1, <1>2
<1> QED
  BY <1>2, <1>3, RateAssumption DEF Full

(* What the script reads, and computes from it. *)
LEMMA RefilledFacts ==
    ASSUME LimiterTypeOK, NEW t \in 0 .. now
    PROVE  /\ GetTokens \in 0 .. Full /\ GetTs(t) \in 0 .. now
           /\ Refilled(t) \in 0 .. Full
           /\ Kept /\ t <= ts => Refilled(t) = tokens
           /\ Kept /\ t > ts => Refilled(t) = IF tokens + Rate * (t - ts) > Full THEN Full
                                              ELSE tokens + Rate * (t - ts)
           /\ ~Kept => Refilled(t) = Full
<1>1. now \in Nat /\ t \in Nat /\ Full \in Nat /\ NULL \notin Nat
  BY FullType, NullAssumption DEF LimiterTypeOK
<1>2. Kept => tokens \in 0 .. Full /\ ts \in 0 .. now
  BY DEF Kept, LimiterTypeOK
<1>3. GetTokens \in 0 .. Full /\ GetTs(t) \in 0 .. now
  BY <1>1, <1>2 DEF GetTokens, GetTs
<1>4. CASE Kept /\ t <= ts
  <2>1. GetTokens = tokens /\ ~(t > GetTs(t)) /\ tokens \in Nat /\ tokens <= Full
    BY <1>1, <1>2, <1>4 DEF GetTokens, GetTs
  <2>2. tokens + 0 * Rate = tokens
    BY <2>1, FullType
  <2> QED
    BY <1>1, <1>2, <1>3, <1>4, <2>1, <2>2 DEF Refilled
<1>5. CASE Kept /\ t > ts
  <2>1. GetTokens = tokens /\ GetTs(t) = ts /\ tokens \in Nat /\ ts \in Nat
    BY <1>1, <1>2, <1>5 DEF GetTokens, GetTs
  <2>2. (t - ts) * Rate = Rate * (t - ts) /\ Rate * (t - ts) \in Nat
    BY <1>1, <1>5, <2>1, FullType
  <2> QED
    BY <1>1, <1>3, <1>5, <2>1, <2>2 DEF Refilled
<1>6. CASE ~Kept
  <2>1. GetTokens = Full /\ ~(t > GetTs(t))
    BY <1>1, <1>6 DEF GetTokens, GetTs
  <2>2. Full + 0 * Rate = Full
    BY <1>1, FullType
  <2> QED
    BY <1>1, <1>3, <1>6, <2>1, <2>2 DEF Refilled
<1>7. t <= ts \/ t > ts \/ ~Kept
  BY <1>1, <1>2
<1> QED
  BY <1>3, <1>4, <1>5, <1>6, <1>7

(* What a script does. *)
LEMMA ScriptFacts ==
    ASSUME LimiterTypeOK, NEW c \in Callers, bucketScript(c)
    PROVE  /\ readAt[c] \in 0 .. now /\ UNCHANGED now
           /\ \/ /\ Refilled(readAt[c]) < Unit /\ tokens' = Refilled(readAt[c])
                 /\ allowed' = allowed /\ refused' = refused + 1
              \/ /\ Refilled(readAt[c]) >= Unit /\ tokens' = Refilled(readAt[c]) - Unit
                 /\ allowed' = allowed + 1 /\ refused' = refused
           /\ ts' = readAt[c] /\ expires' = now + Expiry
           /\ setBacks' = IF readAt[c] < GetTs(readAt[c]) THEN setBacks + 1 ELSE setBacks
           /\ readAt' = readAt \/ readAt' = [readAt EXCEPT ![c] = NULL]
<1>1. readAt[c] \in 0 .. now
  BY DEF bucketScript, LimiterTypeOK
<1> QED
  BY <1>1 DEF bucketScript, SetKeys

-----------------------------------------------------------------------------
(* Types. *)

(* Every step keeps the types. *)
LEMMA LimiterTypeOKStep ==
    ASSUME LimiterTypeOK, [LimiterNext]_vars
    PROVE  LimiterTypeOK'
<1>0. /\ now \in Nat /\ expires \in Nat /\ allowed \in Nat /\ refused \in Nat /\ setBacks \in Nat
      /\ readAt \in [Callers -> 0 .. now \cup {NULL}]
  BY DEF LimiterTypeOK
<1>1. ASSUME NEW c \in Callers, Allow(c) PROVE LimiterTypeOK'
  BY <1>0, <1>1 DEF Allow, LimiterTypeOK
<1>2. ASSUME NEW c \in Callers, bucketScript(c) PROVE LimiterTypeOK'
  <2>1. readAt[c] \in 0 .. now /\ Refilled(readAt[c]) \in 0 .. Full
    BY <1>2, ScriptFacts, RefilledFacts
  <2>2. tokens' \in 0 .. Full
    BY <1>2, <2>1, ScriptFacts, FullType
  <2>3. /\ expires' \in Nat /\ ts' \in 0 .. now' /\ allowed' \in Nat /\ refused' \in Nat
        /\ setBacks' \in Nat /\ now' = now
    BY <1>0, <1>2, <2>1, ScriptFacts, ExpiryAssumption
  <2>4. readAt' \in [Callers -> 0 .. now' \cup {NULL}]
    BY <1>0, <1>2, ScriptFacts
  <2> QED
    BY <1>0, <2>2, <2>3, <2>4 DEF LimiterTypeOK
<1>3. ASSUME NEW c \in Callers, AllowFails(c) PROVE LimiterTypeOK'
  BY <1>0, <1>3 DEF AllowFails, LimiterTypeOK
<1>4. CASE Clock
  <2>1. now' = now + 1 /\ UNCHANGED <<tokens, ts, expires, readAt, allowed, refused, setBacks>>
    BY <1>4 DEF Clock
  <2>2. 0 .. now \subseteq 0 .. now'
    BY <1>0, <2>1
  <2>3. readAt' \in [Callers -> 0 .. now' \cup {NULL}]
    BY <1>0, <2>1, <2>2
  <2> QED
    BY <1>0, <2>1, <2>2, <2>3 DEF LimiterTypeOK
<1>5. CASE UNCHANGED vars
  BY <1>5 DEF vars, LimiterTypeOK
<1> QED
  BY <1>1, <1>2, <1>3, <1>4, <1>5 DEF LimiterNext

(* The limiter starts with the right types. *)
LEMMA LimiterTypeOKInit == LimiterInit => LimiterTypeOK
  BY DEF LimiterInit, LimiterTypeOK

-----------------------------------------------------------------------------
(* How far the limiter can overshoot. *)

(* The keys outlive the time in which an empty bucket fills. *)
LongExpiry == Full <= Rate * (Expiry - MaxDelay)

(* What has been handed out and what is left were earned before ts. *)
Earnings ==
    /\ \A c \in Callers : readAt[c] # NULL => now <= readAt[c] + MaxDelay
    /\ tokens = NULL => allowed = 0
    /\ tokens # NULL => /\ ts + Expiry <= expires
                        /\ allowed * Unit + tokens <= Full + Rate * ts + Rate * MaxDelay * setBacks

(* A run of the script spends no more than the bucket has earned. *)
LEMMA EarningsScript ==
    ASSUME LongExpiry, LimiterTypeOK, Earnings, NEW c \in Callers, bucketScript(c)
    PROVE  allowed' * Unit + tokens' <= Full + Rate * ts' + Rate * MaxDelay * setBacks'
<1> DEFINE t == readAt[c]
           D == Rate * MaxDelay
<1>0. /\ now \in Nat /\ expires \in Nat /\ allowed \in Nat /\ setBacks \in Nat /\ t \in Nat /\ t <= now
      /\ Full \in Nat /\ Unit \in Nat \ {0} /\ Rate \in Nat /\ MaxDelay \in Nat /\ Expiry \in Nat
      /\ readAt[c] \in 0 .. now
  BY ScriptFacts, FullType, LimiterBounds, ExpiryAssumption DEF LimiterTypeOK
<1>1. D \in Nat /\ allowed * Unit \in Nat /\ D * setBacks \in Nat /\ D * setBacks' \in Nat
  BY <1>0, LimiterTypeOKStep DEF LimiterTypeOK, LimiterNext
<1>2. allowed' * Unit + tokens' = allowed * Unit + Refilled(t)
  <2>1. (allowed + 1) * Unit = allowed * Unit + Unit
    BY <1>0
  <2>2. Refilled(t) \in 0 .. Full
    BY <1>0, RefilledFacts
  <2> QED
    BY <1>0, <1>1, <2>1, <2>2, ScriptFacts
<1>3. t >= now - MaxDelay
  BY <1>0, NullAssumption DEF Earnings
<1>4. D * (setBacks + 1) = D * setBacks + D
  BY <1>0, <1>1
<1>5. ts' = t
  BY ScriptFacts
<1>6. setBacks' = IF t < GetTs(t) THEN setBacks + 1 ELSE setBacks
  BY ScriptFacts
<1>7. Rate * t \in Nat
  BY <1>0
<1> HIDE DEF t, D
<1>8. CASE Kept
  <2>1. /\ tokens \in Nat /\ ts \in Nat /\ ts <= now /\ GetTs(t) = ts
        /\ allowed * Unit + tokens <= Full + Rate * ts + D * setBacks
    BY <1>8 DEF Kept, LimiterTypeOK, Earnings, GetTs, D
  <2>2. Rate * ts \in Nat
    BY <1>0, <2>1
  <2>3. CASE t <= ts
    <3>1. Refilled(t) = tokens
      BY <1>0, <1>8, <2>3, RefilledFacts DEF t
    <3>2. Rate * ts <= Rate * t + D
      BY <1>0, <1>3, <2>1, Earned DEF D
    <3>3. t = ts => setBacks' = setBacks
      BY <1>0, <1>6, <2>1
    <3>4. t # ts => setBacks' = setBacks + 1
      BY <1>0, <1>6, <2>1, <2>3
    <3> QED
      BY <1>0, <1>1, <1>2, <1>4, <1>5, <1>7, <2>1, <2>2, <3>1, <3>2, <3>3, <3>4 DEF D
  <2>4. CASE t > ts
    <3>1. Refilled(t) <= tokens + Rate * (t - ts)
      BY <1>0, <1>8, <2>1, <2>4, RefilledFacts DEF t
    <3>2. Rate * (t - ts) = Rate * t - Rate * ts
      BY <1>0, <2>1, Earned
    <3>3. setBacks' = setBacks
      BY <1>0, <1>6, <2>1, <2>4
    <3>4. Refilled(t) \in Nat
      BY <1>0, RefilledFacts DEF t
    <3> QED
      BY <1>0, <1>1, <1>2, <1>5, <1>7, <2>1, <2>2, <3>1, <3>2, <3>3, <3>4 DEF D
  <2> QED
    BY <1>0, <2>1, <2>3, <2>4
<1>9. CASE ~Kept
  <2>1. Refilled(t) = Full /\ setBacks' = setBacks
    BY <1>0, <1>6, <1>9, RefilledFacts DEF GetTs, t
  <2>2. CASE tokens = NULL
    <3>1. allowed * Unit = 0
      BY <1>0, <2>2 DEF Earnings
    <3> QED
      BY <1>0, <1>1, <1>2, <1>5, <1>7, <2>1, <3>1 DEF D
  <2>3. CASE tokens # NULL
    <3>1. /\ tokens \in Nat /\ ts \in Nat /\ ts + Expiry <= expires /\ expires <= now
          /\ allowed * Unit + tokens <= Full + Rate * ts + D * setBacks
      BY <1>0, <1>9, <2>3 DEF Kept, LimiterTypeOK, Earnings, D
    <3>2. Expiry - MaxDelay <= t - ts
      BY <1>0, <1>3, <3>1
    <3>3. Rate * (Expiry - MaxDelay) <= Rate * (t - ts)
      BY <1>0, <3>1, <3>2, Earned
    <3>4. Rate * (t - ts) = Rate * t - Rate * ts /\ Rate * ts \in Nat
      BY <1>0, <3>1, Earned
    <3> QED
      BY <1>0, <1>1, <1>2, <1>5, <1>7, <2>1, <3>1, <3>3, <3>4 DEF D, LongExpiry
  <2> QED
    BY <2>2, <2>3
<1> QED
  BY <1>8, <1>9

(* Every step keeps the account of tokens earned and spent. *)
LEMMA EarningsStep ==
    ASSUME LongExpiry, LimiterTypeOK, Earnings, [LimiterNext]_vars
    PROVE  Earnings'
<1>0. /\ now \in Nat /\ readAt \in [Callers -> 0 .. now \cup {NULL}] /\ MaxDelay \in Nat
  BY LimiterBounds DEF LimiterTypeOK
<1>1. ASSUME NEW c \in Callers, Allow(c) PROVE Earnings'
  BY <1>0, <1>1 DEF Allow, Earnings
<1>2. ASSUME NEW c \in Callers, bucketScript(c) PROVE Earnings'
  <2>1. /\ ts' = readAt[c] /\ readAt[c] \in 0 .. now /\ expires' = now + Expiry
        /\ readAt' = readAt \/ readAt' = [readAt EXCEPT ![c] = NULL]
        /\ now' = now
    BY <1>2, ScriptFacts
  <2>2. tokens' # NULL
    <3>1. LimiterTypeOK'
      BY <1>2, LimiterTypeOKStep DEF LimiterNext
    <3> QED
      BY <1>0, <2>1, <3>1, NullAssumption DEF LimiterTypeOK
  <2>3. ts' + Expiry <= expires'
    BY <1>0, <2>1, ExpiryAssumption
  <2>4. \A d \in Callers : readAt'[d] # NULL => now' <= readAt'[d] + MaxDelay
    BY <1>0, <2>1 DEF Earnings
  <2> QED
    BY <1>2, <2>2, <2>3, <2>4, EarningsScript DEF Earnings
<1>3. ASSUME NEW c \in Callers, AllowFails(c) PROVE Earnings'
  BY <1>0, <1>3 DEF AllowFails, Earnings
<1>4. CASE Clock
  <2>1. \A c \in Callers : readAt[c] # NULL => now + 1 <= readAt[c] + MaxDelay
    BY <1>0, <1>4 DEF Clock
  <2> QED
    BY <1>4, <2>1 DEF Clock, Earnings
<1>5. CASE UNCHANGED vars
  BY <1>5 DEF vars, Earnings
<1> QED
  BY <1>1, <1>2, <1>3, <1>4, <1>5 DEF LimiterNext

(* However scripts overtake each other, the calls let through are bounded  *)
(* by a full bucket, the time, and a delay for every overtaking: if the    *)
(* keys are kept for longer than an empty bucket takes to fill.            *)
THEOREM BoundedOvershoot ==
    ASSUME LongExpiry
    PROVE  LimiterSpec => []Overshoot
<1>1. LimiterInit => LimiterTypeOK /\ Earnings
  <2>1. LimiterInit => Earnings
    BY DEF LimiterInit, Earnings
  <2> QED
    BY <2>1, LimiterTypeOKInit
<1>2. LimiterTypeOK /\ Earnings /\ [LimiterNext]_vars => LimiterTypeOK' /\ Earnings'
  BY LimiterTypeOKStep, EarningsStep
<1>3. LimiterTypeOK /\ Earnings => Overshoot
  <2> SUFFICES ASSUME LimiterTypeOK, Earnings PROVE Overshoot
    OBVIOUS
  <2>1. /\ now \in Nat /\ allowed \in Nat /\ setBacks \in Nat
        /\ Full \in Nat /\ Unit \in Nat /\ Rate \in Nat /\ MaxDelay \in Nat
    BY FullType, LimiterBounds DEF LimiterTypeOK
  <2>2. Rate * now \in Nat /\ Rate * MaxDelay \in Nat /\ allowed * Unit \in Nat
    BY <2>1
  <2>3. Rate * MaxDelay * setBacks \in Nat
    BY <2>1, <2>2
  <2>4. CASE tokens = NULL
    <3>1. allowed * Unit = 0
      BY <2>1, <2>4 DEF Earnings
    <3> QED
      BY <2>1, <2>2, <2>3, <3>1 DEF Overshoot
  <2>5. CASE tokens # NULL
    <3>1. tokens \in Nat /\ ts \in Nat /\ ts <= now
      BY <2>5 DEF LimiterTypeOK
    <3>2. Rate * ts <= Rate * now /\ Rate * ts \in Int
      BY <2>1, <3>1, Earned
    <3>3. allowed * Unit + tokens <= Full + Rate * ts + Rate * MaxDelay * setBacks
      BY <2>5 DEF Earnings
    <3> QED
      BY <2>1, <2>2, <2>3, <3>1, <3>2, <3>3 DEF Overshoot
  <2> QED
    BY <2>4, <2>5
<1> QED
  BY <1>1, <1>2, <1>3, PTL DEF LimiterSpec

-----------------------------------------------------------------------------
(* The limiter is a token bucket, but for late scripts. *)

(* The keys are kept for Expiry ticks after their time stamp, at least. *)
KeptLong == tokens # NULL => ts + Expiry <= expires

(* Every step keeps KeptLong: only the script sets the expiry. *)
LEMMA KeptLongStep ==
    ASSUME LimiterTypeOK, KeptLong, [LimiterNext]_vars
    PROVE  KeptLong'
<1>1. ASSUME NEW c \in Callers, bucketScript(c) PROVE KeptLong'
  <2>1. ts' = readAt[c] /\ readAt[c] \in 0 .. now /\ expires' = now + Expiry /\ now \in Nat
    BY <1>1, ScriptFacts DEF LimiterTypeOK
  <2> QED
    BY <2>1, ExpiryAssumption DEF KeptLong
<1>2. CASE UNCHANGED <<tokens, ts, expires>>
  BY <1>2 DEF KeptLong
<1> QED
  BY <1>1, <1>2 DEF LimiterNext, Allow, AllowFails, Clock, vars

(* The level, from the keys. *)
LEMMA LevelFacts ==
    ASSUME LimiterTypeOK
    PROVE  /\ Level \in 0 .. Full
           /\ Kept => Level = IF tokens + Rate * (now - ts) > Full THEN Full
                              ELSE tokens + Rate * (now - ts)
           /\ ~Kept => Level = Full
<1>1. now \in 0 .. now /\ now \in Nat /\ Full \in Nat
  BY FullType DEF LimiterTypeOK
<1>2. Level \in 0 .. Full /\ (~Kept => Level = Full)
  BY <1>1, RefilledFacts DEF Level
<1>3. CASE Kept
  <2>1. tokens \in Nat /\ tokens <= Full /\ ts \in Nat /\ ts <= now
    BY <1>3 DEF Kept, LimiterTypeOK
  <2>2. CASE ts = now
    <3>1. Rate * (now - ts) = 0
      BY <1>1, <2>1, <2>2, FullType
    <3> QED
      BY <1>1, <1>2, <1>3, <2>1, <2>2, <3>1, RefilledFacts DEF Level
  <2>3. CASE now > ts
    BY <1>1, <1>2, <1>3, <2>1, <2>3, RefilledFacts DEF Level
  <2> QED
    BY <1>1, <2>1, <2>2, <2>3
<1> QED
  BY <1>2, <1>3

(* Every step is a late script, a step of the bucket, or none. *)
LEMMA BucketStep ==
    ASSUME LongExpiry, LimiterTypeOK, KeptLong, [LimiterNext]_vars
    PROVE  (\E c \in Callers : LateScript(c)) \/ [Ideal!Next]_(Ideal!vars)
<1>0. /\ now \in Nat /\ Full \in Nat /\ Rate \in Nat \ {0} /\ Expiry \in Nat \ {0} /\ NULL \notin Nat
      /\ Ideal!Full = Full
  BY FullType, RateAssumption, ExpiryAssumption, NullAssumption DEF LimiterTypeOK, Full, Ideal!Full
<1>1. ASSUME UNCHANGED <<now, tokens, ts, expires, allowed, refused>> PROVE UNCHANGED Ideal!vars
  <2>1. UNCHANGED Level
    BY <1>1 DEF Level, Refilled, GetTokens, GetTs, Kept
  <2> QED
    BY <1>1, <2>1 DEF Ideal!vars
<1>2. ASSUME NEW c \in Callers, bucketScript(c), ~LateScript(c) PROVE Ideal!Take \/ Ideal!Refuse
  <2>1. readAt[c] = now
    <3>1. readAt[c] \in 0 .. now
      BY <1>2, ScriptFacts
    <3> QED
      BY <1>0, <1>2, <3>1 DEF LateScript
  <2>2. /\ UNCHANGED now /\ ts' = now /\ expires' = now + Expiry
        /\ \/ Level < Unit /\ tokens' = Level /\ allowed' = allowed /\ refused' = refused + 1
           \/ Level >= Unit /\ tokens' = Level - Unit /\ allowed' = allowed + 1 /\ refused' = refused
    BY <1>2, <2>1, ScriptFacts DEF Level
  <2>3. Level \in Nat /\ Level <= Full /\ Unit \in Nat
    BY <1>0, LevelFacts, FullType
  <2>4. tokens' \in Nat /\ tokens' <= Full
    BY <1>0, <2>2, <2>3
  <2>5. Level' = tokens'
    <3>1. Kept'
      BY <1>0, <2>2, <2>4 DEF Kept
    <3>2. GetTokens' = tokens' /\ GetTs(now)' = now /\ now' = now
      BY <2>2, <3>1 DEF GetTokens, GetTs
    <3>3. tokens' + 0 * Rate = tokens'
      <4>1. Rate \in Nat
        BY FullType
      <4>2. \A x \in Nat : x + 0 * Rate = x
        BY <4>1
      <4> QED
        BY <2>4, <4>2
    <3>4. ~(now > now) /\ ~(tokens' > Full)
      BY <2>4, FullType DEF LimiterTypeOK
    <3> QED
      BY <3>2, <3>3, <3>4 DEF Level, Refilled
  <2> QED
    BY <2>2, <2>5 DEF Ideal!Take, Ideal!Refuse
<1>3. CASE Clock
  <2>1. now' = now + 1 /\ UNCHANGED <<tokens, ts, expires, allowed, refused>>
    BY <1>3 DEF Clock
  <2>2. Level' = Ideal!AtMost(Level + Rate, Full)
    <3>1. CASE ~Kept
      <4>1. ~Kept'
        BY <1>0, <2>1, <3>1 DEF Kept, LimiterTypeOK
      <4>2. Level' = Full
        BY <1>0, <2>1, <4>1 DEF Level, Refilled, GetTokens, GetTs
      <4>3. Level = Full
        BY <3>1, LevelFacts
      <4> QED
        BY <1>0, <4>2, <4>3 DEF Ideal!AtMost
    <3>2. CASE Kept
      <4>1. tokens \in Nat /\ tokens <= Full /\ ts \in Nat /\ ts <= now /\ expires \in Nat /\ ts + Expiry <= expires
        BY <1>0, <3>2 DEF Kept, LimiterTypeOK, KeptLong
      <4>2. Rate * (now + 1 - ts) = Rate * (now - ts) + Rate /\ Rate * (now - ts) \in Nat
        BY <1>0, <4>1
      <4>3. Level = IF tokens + Rate * (now - ts) > Full THEN Full ELSE tokens + Rate * (now - ts)
        BY <3>2, LevelFacts
      <4>4. CASE Kept'
        <5>1. GetTokens' = tokens /\ GetTs(now)' = ts
          BY <2>1, <4>4 DEF GetTokens, GetTs
        <5>2. (now + 1 - ts) * Rate = Rate * (now + 1 - ts)
          BY <1>0, <4>1
        <5>3. Level' = IF tokens + Rate * (now + 1 - ts) > Full THEN Full ELSE tokens + Rate * (now + 1 - ts)
          BY <1>0, <2>1, <4>1, <5>1, <5>2 DEF Level, Refilled
        <5> QED
          BY <1>0, <4>1, <4>2, <4>3, <5>3 DEF Ideal!AtMost
      <4>5. CASE ~Kept'
        <5>1. Level' = Full
          BY <1>0, <2>1, <4>5 DEF Level, Refilled, GetTokens, GetTs
        <5>2. Expiry <= now + 1 - ts
          BY <1>0, <2>1, <4>1, <4>5 DEF Kept
        <5>3. Full <= Rate * (now + 1 - ts)
          <6>1. Full <= Rate * Expiry
            <7>1. Expiry - MaxDelay <= Expiry /\ Expiry - MaxDelay \in Int /\ Expiry \in Int
              BY <1>0, LimiterBounds
            <7>2. /\ Rate * (Expiry - MaxDelay) <= Rate * Expiry
                  /\ Rate * (Expiry - MaxDelay) \in Int /\ Rate * Expiry \in Int
              BY <7>1, Earned
            <7> QED
              BY <1>0, <7>2 DEF LongExpiry
          <6>2. Rate * Expiry <= Rate * (now + 1 - ts) /\ Rate * Expiry \in Int
            BY <1>0, <4>1, <5>2, Earned
          <6> QED
            BY <1>0, <4>1, <4>2, <6>1, <6>2
        <5> QED
          BY <1>0, <4>1, <4>2, <4>3, <5>1, <5>3 DEF Ideal!AtMost
      <4> QED
        BY <4>4, <4>5
    <3> QED
      BY <3>1, <3>2
  <2>3. Ideal!Tick
    BY <1>0, <2>1, <2>2 DEF Ideal!Tick
  <2> QED
    BY <2>3 DEF Ideal!Next
<1>4. ASSUME NEW c \in Callers, Allow(c) \/ AllowFails(c) PROVE UNCHANGED Ideal!vars
  <2>1. UNCHANGED <<now, tokens, ts, expires, allowed, refused>>
    BY <1>4 DEF Allow, AllowFails
  <2> QED
    BY <1>1, <2>1
<1>5. CASE UNCHANGED vars
  <2>1. UNCHANGED <<now, tokens, ts, expires, allowed, refused>>
    BY <1>5 DEF vars
  <2> QED
    BY <1>1, <2>1
<1> QED
  BY <1>2, <1>3, <1>4, <1>5 DEF LimiterNext, Ideal!Next

(* If the keys are kept for longer than an empty bucket takes to fill, the *)
(* limiter is a token bucket: it neither passes nor refuses a call that    *)
(* the bucket would not, but for the scripts that run late.                *)
THEOREM LimiterRefinesBucket ==
    ASSUME LongExpiry
    PROVE  LimiterSpec => ImplementsTokenBucket
<1>1. LimiterInit => LimiterTypeOK /\ KeptLong /\ Ideal!Init
  <2>1. LimiterInit => KeptLong
    BY DEF LimiterInit, KeptLong
  <2>2. ASSUME LimiterInit PROVE Ideal!Init
    <3>1. ~Kept /\ LimiterTypeOK
      BY <2>2, LimiterTypeOKInit DEF Kept, LimiterInit
    <3>2. Level = Full
      BY <3>1, LevelFacts
    <3> QED
      BY <2>2, <3>2 DEF LimiterInit, Ideal!Init, Ideal!Full, Full
  <2> QED
    BY <2>1, <2>2, LimiterTypeOKInit
<1>2. LimiterTypeOK /\ KeptLong /\ [LimiterNext]_vars =>
        LimiterTypeOK' /\ KeptLong' /\ ((\E c \in Callers : LateScript(c)) \/ [Ideal!Next]_(Ideal!vars))
  BY LimiterTypeOKStep, KeptLongStep, BucketStep
<1> QED
  BY <1>1, <1>2, PTL DEF LimiterSpec, ImplementsTokenBucket
=============================================================================
