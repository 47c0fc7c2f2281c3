---------------------------- MODULE MCFileDelivery ----------------------------
(* FileDelivery on small instances. *)
EXTENDS FileDelivery, TLC

CONSTANTS alice, bob, s1, s2, p1, p2, f1, f2, f3

\* A file with two views that expires, a text with one view that does not.
TwoViewFile == [kind |-> "file", mode |-> "any", recipient |-> NoUser, pin |-> FALSE,
                ttl |-> 1, views |-> 2, available_at |-> NoTime, destroy_after |-> 3600]

OneViewText == [TwoViewFile EXCEPT !.kind = "text", !.mode = "first", !.ttl = 0,
                                   !.views = 1, !.destroy_after = 0]

OnlyFiles == {TwoViewFile}
FilesAndTexts == {TwoViewFile, OneViewText}

Symmetry == Permutations(Session) \cup Permutations(Path) \cup Permutations(Secret)
            \cup Permutations(User)

=============================================================================
