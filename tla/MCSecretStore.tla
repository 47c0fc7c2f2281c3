---------------------------- MODULE MCSecretStore ----------------------------
(* SecretStore on small instances. *)
EXTENDS SecretStore, TLC

CONSTANTS alice, bob, s1, s2, p1, p2, f1

Base == [kind |-> "text", mode |-> "any", recipient |-> NoUser, pin |-> FALSE, ttl |-> 2,
         views |-> 1, available_at |-> NoTime, destroy_after |-> 0]

\* One secret, every way to protect it: the strict preset with two views, a
\* recipient-bound PIN secret, no expiry but a timer from the first open, a file that opens
\* late.
ProtectionDrafts ==
    {[Base EXCEPT !.mode = "first", !.views = 2, !.destroy_after = 1],
     [Base EXCEPT !.mode = "specific", !.recipient = bob, !.pin = TRUE],
     [Base EXCEPT !.ttl = 0, !.views = 2, !.destroy_after = 1],
     [Base EXCEPT !.kind = "file", !.views = 2, !.available_at = 1,
                 !.destroy_after = 3]}

\* Two secrets at once, for the bulk operations.
BulkDrafts == {[Base EXCEPT !.kind = "file", !.ttl = 1],
               [Base EXCEPT !.ttl = 0, !.views = 2, !.mode = "first", !.destroy_after = 1]}

Symmetry == Permutations(Session)

=============================================================================
