------------------------------ MODULE MCUserState ------------------------------
(* AccessControl, EmojiSettings and AnswerDialogue on small instances. They share no state: a     *)
(* behaviour is one of either, with the others at rest, so one run checks the three of them.      *)
EXTENDS AccessControl, EmojiSettings, AnswerDialogue, TLC

CONSTANTS u1, boss, k1, k2, a1, a2, lock, plus, e1, e2, r1, r2

VARIABLE part

Limits == [k \in Kind |-> 2]

TwoSlots == <<lock, plus>>

Init == AccessInit /\ EmojiInit /\ AnswerInit /\ part \in {"access", "emoji", "answer"}

Next ==
    /\ \/ part = "access" /\ AccessNext /\ UNCHANGED <<emojivars, answervars>>
       \/ part = "emoji" /\ EmojiNext /\ UNCHANGED <<avars, answervars>>
       \/ part = "answer" /\ AnswerNext /\ UNCHANGED <<avars, emojivars>>
    /\ UNCHANGED part

Spec == Init /\ [][Next]_<<avars, emojivars, answervars, part>>

\* Call, Work and Update are the same names, so that one permutation serves the three of them.
Symmetry == UNION {Permutations(S) : S \in {Call, Editor, Request}}

=============================================================================
