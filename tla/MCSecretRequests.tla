--------------------------- MODULE MCSecretRequests ---------------------------
(* SecretRequests on a small instance: the only secrets are answers. *)
EXTENDS SecretRequests, TLC

CONSTANTS alice, bob, s1, s2, p1, q1, q2, r1

AnswerDrafts == {AnswerDraft(u) : u \in User}

Symmetry == Permutations(ReqSession)

=============================================================================
