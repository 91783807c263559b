----------------------------- MODULE TokenBucket -----------------------------
(***************************************************************************)
(* What a rate limiter promises: a bucket that holds at most Burst tokens  *)
(* and gains Rate tokens a second; a call is let through if and only if    *)
(* there is a token to take.  A second has Unit ticks, and a token is      *)
(* counted as Unit parts, so that a tick adds Rate parts.                  *)
(***************************************************************************)
EXTENDS Integers

CONSTANTS Rate, Burst, Unit

VARIABLES
    level,    \* what the bucket holds, in parts
    now,      \* the clock
    allowed,  \* calls let through
    refused   \* calls refused

vars == <<level, now, allowed, refused>>

Full == Burst * Unit

AtMost(n, bound) == IF n > bound THEN bound ELSE n

Init ==
    /\ level = Full
    /\ now = 0
    /\ allowed = 0
    /\ refused = 0

Tick ==
    /\ now' = now + 1
    /\ level' = AtMost(level + Rate, Full)
    /\ UNCHANGED <<allowed, refused>>

Take ==
    /\ level >= Unit
    /\ level' = level - Unit
    /\ allowed' = allowed + 1
    /\ UNCHANGED <<now, refused>>

Refuse ==
    /\ level < Unit
    /\ refused' = refused + 1
    /\ UNCHANGED <<level, now, allowed>>

Next == Tick \/ Take \/ Refuse

Spec == Init /\ [][Next]_vars
=============================================================================
