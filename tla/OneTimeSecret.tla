---------------------------- MODULE OneTimeSecret ----------------------------
(***************************************************************************)
(* What T-Secret promises of a secret, with no clock, database or process: *)
(* a secret is opened at most the agreed number of times, only by members  *)
(* of an audience that may narrow to the first opener and never widens,    *)
(* it may end early (expiry, its creator), and once gone it stays gone.    *)
(* SecretStore implements this specification.                              *)
(***************************************************************************)
EXTENDS Naturals

CONSTANTS Secret, User

VARIABLES
    phase,      \* "absent", "live" or "gone", for each secret
    left,       \* how many more times it may be opened
    audience    \* who may still open it

ovars == <<phase, left, audience>>

OInit ==
    /\ phase = [s \in Secret |-> "absent"]
    /\ left = [s \in Secret |-> 0]
    /\ audience = [s \in Secret |-> {}]

OCreate(s) ==
    /\ phase[s] = "absent"
    /\ phase' = [phase EXCEPT ![s] = "live"]
    /\ left'[s] \in Nat \ {0}
    /\ left' = [left EXCEPT ![s] = left'[s]]
    /\ audience'[s] \in SUBSET User
    /\ audience' = [audience EXCEPT ![s] = audience'[s]]

OOpen(s, u) ==
    /\ phase[s] = "live"
    /\ left[s] > 0
    /\ u \in audience[s]
    /\ left' = [left EXCEPT ![s] = @ - 1]
    /\ phase' = [phase EXCEPT ![s] = IF left[s] = 1 THEN "gone" ELSE "live"]
    /\ \/ UNCHANGED audience
       \/ audience' = [audience EXCEPT ![s] = {u}]

\* Several secrets may end in one step: panic and expiry are bulk operations.
OEnd(S) ==
    /\ S # {}
    /\ \A s \in S : phase[s] = "live"
    /\ phase' = [s \in Secret |-> IF s \in S THEN "gone" ELSE phase[s]]
    /\ UNCHANGED <<left, audience>>

ONext ==
    \/ \E s \in Secret : OCreate(s)
    \/ \E s \in Secret, u \in User : OOpen(s, u)
    \/ \E S \in SUBSET Secret : OEnd(S)

OSpec == OInit /\ [][ONext]_ovars

=============================================================================
