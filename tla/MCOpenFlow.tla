------------------------------ MODULE MCOpenFlow ------------------------------
(* OpenFlow on small instances. *)
EXTENDS OpenFlow, TLC

CONSTANTS alice, s1, s2, k1, k2

Protected(pin, views) ==
    [kind |-> "text", mode |-> "any", recipient |-> NoUser, pin |-> pin, ttl |-> 0,
     views |-> views, available_at |-> NoTime, destroy_after |-> 0]

WithAndWithoutPin == {Protected(pin, 1) : pin \in BOOLEAN}

Symmetry == Permutations(Task) \cup Permutations(Secret)

=============================================================================
