----------------------------- MODULE AtMostOnce -----------------------------
\* What the daemon promises about an effect it cannot take back: it is
\* claimed before it is tried, it happens at most once, and the verdict
\* that is written about it is never wrong.  UNKNOWN is a verdict: the
\* effect may have happened, or may still happen, and is not tried again.
EXTENDS Naturals

CONSTANT Effect

VARIABLES
    claim,  \* what is written about an effect
    done    \* how often it happened

vars == <<claim, done>>

Claim == {"UNCLAIMED", "CLAIMED", "REFUSED", "CONFIRMED", "UNKNOWN"}

Init == claim = [e \in Effect |-> "UNCLAIMED"] /\ done = [e \in Effect |-> 0]

TakeClaims(S) ==
    /\ \A e \in S : claim[e] = "UNCLAIMED"
    /\ claim' = [e \in Effect |-> IF e \in S THEN "CLAIMED" ELSE claim[e]]
    /\ UNCHANGED done

\* It happens while it is claimed, or after the claimant gave up on it.
Happen(e) ==
    /\ claim[e] \in {"CLAIMED", "UNKNOWN"} /\ done[e] = 0
    /\ done' = [done EXCEPT ![e] = 1]
    /\ UNCHANGED claim

\* A refusal is proof that nothing happened, a confirmation that it did.
Entitled(e, verdict) ==
    /\ verdict \in {"REFUSED", "CONFIRMED", "UNKNOWN"}
    /\ verdict = "REFUSED" => done[e] = 0
    /\ verdict = "CONFIRMED" => done[e] = 1

\* Verdicts are written once; a restart writes several.
Settle(S) ==
    /\ \A e \in S : claim[e] = "CLAIMED" /\ Entitled(e, claim'[e])
    /\ \A e \in Effect \ S : claim'[e] = claim[e]
    /\ claim' \in [Effect -> Claim]
    /\ UNCHANGED done

Next ==
    \/ \E S \in SUBSET Effect : TakeClaims(S) \/ Settle(S)
    \/ \E e \in Effect : Happen(e)

Spec == Init /\ [][Next]_vars
=============================================================================
