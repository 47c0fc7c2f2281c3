----------------------------- MODULE RateLimiter -----------------------------
(***************************************************************************)
(* app/rate_limit.py: a counter under a Redis key that expires. A counter  *)
(* is how often it was hit and whether a TTL is set; an absent key is      *)
(* NoHits. A key that was hit has a TTL (the comment at line 9), so every  *)
(* window and lockout ends: that is part of the type. That the TTL runs    *)
(* out is left to the modules that keep counters.                          *)
(***************************************************************************)
EXTENDS Naturals

Counter == {c \in [count: Nat, ttl: BOOLEAN] : c.count > 0 => c.ttl}

NoHits == [count |-> 0, ttl |-> FALSE]

\* A mutant of Hit: the TTL is set by the second hit.
HitArmsLate(c) == [count |-> c.count + 1, ttl |-> c.ttl \/ c.count > 0]

\* The script of hit(): INCR, and EXPIRE for the first hit, in one command.
Hit(c) == [count |-> c.count + 1, ttl |-> c.ttl \/ c.count = 0]

\* hit() counts first and then compares.
Allowed(c, limit) == c.count <= limit

\* What a key that expires or is deleted becomes.
Expired(c) == NoHits

=============================================================================
