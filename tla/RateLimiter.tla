----------------------------- MODULE RateLimiter -----------------------------
(***************************************************************************)
(* internal/ratelimit: the bucket of one tenant, kept in two Redis keys    *)
(* that a Lua script reads and writes in one step.  The callers are the    *)
(* requests of all API processes: each reads its clock, and its script     *)
(* runs some time later, so the scripts may run in another order than the  *)
(* clocks were read.  Tokens are Lua floats; they are counted in parts, as *)
(* in TokenBucket, which makes elapsed * rate exact.                       *)
(***************************************************************************)
EXTENDS Integers

CONSTANTS
    Callers,   \* concurrent calls of Allow
    NULL,      \* not in a call; a key that does not exist
    Rate,      \* tokens a second
    Burst,     \* what New is given as burst
    Unit,      \* ticks a second
    Expiry,    \* ticks after which Redis drops the keys
    MaxDelay,  \* bound: from reading the clock to running the script
    MaxNow,    \* bound: the clock stops here
    MaxCalls   \* bound: scripts that run

ASSUME NullAssumption == NULL \notin Int
ASSUME RateAssumption == Rate \in Nat \ {0} /\ Unit \in Nat \ {0} /\ Burst \in Int
ASSUME ExpiryAssumption == Expiry \in Nat \ {0}
ASSUME LimiterBounds == MaxDelay \in Nat /\ MaxNow \in Nat /\ MaxCalls \in Nat

VARIABLES
    now,       \* the clock
    tokens,    \* the key KEYS[1]:tokens, in parts, or NULL
    ts,        \* the key KEYS[1]:ts, or NULL
    expires,   \* when both keys expire
    readAt,    \* the time that each caller has read, or NULL
    allowed,   \* scripts that have taken a token
    refused,   \* scripts that found none
    setBacks   \* scripts that moved ts to an earlier time

vars == <<now, tokens, ts, expires, readAt, allowed, refused, setBacks>>

(* New: without a burst, one second's worth. *)
burst == IF Burst <= 0 THEN Rate ELSE Burst

Full == burst * Unit

LimiterInit ==
    /\ now = 0
    /\ tokens = NULL /\ ts = NULL /\ expires = 0
    /\ readAt = [c \in Callers |-> NULL]
    /\ allowed = 0 /\ refused = 0 /\ setBacks = 0

(* Allow evaluates time.Now(). *)
Allow(c) ==
    /\ readAt[c] = NULL
    /\ readAt' = [readAt EXCEPT ![c] = now]
    /\ UNCHANGED <<now, tokens, ts, expires, allowed, refused, setBacks>>

(* Redis has the keys until they expire. *)
Kept == tokens # NULL /\ now < expires

GetTokens == IF Kept THEN tokens ELSE Full

GetTs(t) == IF Kept THEN ts ELSE t

(* A slip of Refilled: no bound on what accumulates. *)
RefilledUnbounded(t) ==
    LET elapsed == IF t > GetTs(t) THEN t - GetTs(t) ELSE 0
    IN GetTokens + elapsed * Rate

(* What the bucket holds at time t. *)
Refilled(t) ==
    LET elapsed == IF t > GetTs(t) THEN t - GetTs(t) ELSE 0
        sum == GetTokens + elapsed * Rate
    IN IF sum > Full THEN Full ELSE sum

SetKeys(left, t) ==
    /\ tokens' = left
    /\ ts' = t
    /\ expires' = now + Expiry
    /\ setBacks' = IF t < GetTs(t) THEN setBacks + 1 ELSE setBacks

(* A slip of bucketScript: a refusal leaves the time stamp alone. *)
bucketScriptKeepsTs(c) ==
    LET t == readAt[c]
    IN /\ readAt[c] # NULL
       /\ allowed + refused < MaxCalls
       /\ \/ /\ Refilled(t) < Unit
             /\ SetKeys(Refilled(t), GetTs(t))
             /\ refused' = refused + 1
             /\ UNCHANGED allowed
          \/ /\ Refilled(t) >= Unit
             /\ SetKeys(Refilled(t) - Unit, t)
             /\ allowed' = allowed + 1
             /\ UNCHANGED refused
       /\ readAt' \in {readAt, [readAt EXCEPT ![c] = NULL]}
       /\ UNCHANGED now

(* The script runs, and Allow returns its verdict.  When the reply is      *)
(* lost, Allow returns an error, or the client of Redis sends the script   *)
(* again, with the same time.                                              *)
bucketScript(c) ==
    LET t == readAt[c]
    IN /\ readAt[c] # NULL
       /\ allowed + refused < MaxCalls
       /\ \/ /\ Refilled(t) < Unit
             /\ SetKeys(Refilled(t), t)
             /\ refused' = refused + 1
             /\ UNCHANGED allowed
          \/ /\ Refilled(t) >= Unit
             /\ SetKeys(Refilled(t) - Unit, t)
             /\ allowed' = allowed + 1
             /\ UNCHANGED refused
       /\ readAt' \in {readAt, [readAt EXCEPT ![c] = NULL]}
       /\ UNCHANGED now

(* Redis cannot be reached: the call is let through, without a token. *)
AllowFails(c) ==
    /\ readAt[c] # NULL
    /\ readAt' = [readAt EXCEPT ![c] = NULL]
    /\ UNCHANGED <<now, tokens, ts, expires, allowed, refused, setBacks>>

Clock ==
    /\ now < MaxNow
    /\ \A c \in Callers : readAt[c] # NULL => now < readAt[c] + MaxDelay
    /\ now' = now + 1
    /\ UNCHANGED <<tokens, ts, expires, readAt, allowed, refused, setBacks>>

LimiterNext ==
    \/ \E c \in Callers : Allow(c) \/ bucketScript(c) \/ AllowFails(c)
    \/ Clock

LimiterSpec == LimiterInit /\ [][LimiterNext]_vars

-----------------------------------------------------------------------------
(* Properties. *)

(* The keys hold numbers; the bucket is never overdrawn or overfull. *)
LimiterTypeOK ==
    /\ now \in Nat /\ expires \in Nat
    /\ \/ tokens = NULL /\ ts = NULL
       \/ tokens \in 0 .. Full /\ ts \in 0 .. now
    /\ readAt \in [Callers -> 0 .. now \cup {NULL}]
    /\ allowed \in Nat /\ refused \in Nat /\ setBacks \in Nat

(* No more calls pass than a full bucket and the time since allow; each    *)
(* script that overtakes another one may let the time of its delay count   *)
(* twice, and no more than that.                                           *)
Overshoot ==
    allowed * Unit <= Full + Rate * now + Rate * MaxDelay * setBacks

(* The script runs later than its clock was read. *)
LateScript(c) == bucketScript(c) /\ readAt[c] < now

(* The bucket, at the present time. *)
Level == Refilled(now)

Ideal == INSTANCE TokenBucket WITH level <- Level, Burst <- burst

(* Every step is one of a token bucket, except a script that runs later    *)
(* than its clock was read: expired keys, refusals, lost replies and what  *)
(* late scripts have left behind included.                                 *)
ImplementsTokenBucket ==
    /\ Ideal!Init
    /\ [][\/ \E c \in Callers : LateScript(c)
          \/ [Ideal!Next]_(Ideal!vars)]_vars
=============================================================================
