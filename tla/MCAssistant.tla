----------------------------- MODULE MCAssistant -----------------------------
(* An instance of Assistant for TLC.                                       *)
EXTENDS Assistant

CONSTANTS u1, u2, w1, w2, local, hosted
CONSTANT MaxTroubles   \* bound: changed settings, faults and deletions together

Deletions == IF deleting # {} \/ \E r \in Ids : ~runs[r].kept THEN 1 ELSE 0
Troubles == config.revision - 1 + faults + Deletions

\* bounds: users open their pages one at a time, u1 first; a second run meets
\* no trouble but a fault while the first was alone, and is then not sensitive
MCNext ==
    /\ Next
    /\ Troubles' <= MaxTroubles
    /\ Len(runs') = 2 => /\ Troubles' = Troubles /\ Troubles = faults
                         /\ faults = 0 \/ ~runs'[2].sensitive
    /\ draft'[u1] = 0 \/ draft'[u2] = 0
    /\ runs' = <<>> => draft'[u2] = 0

MCSpec == Init /\ [][MCNext]_vars /\ Fairness
=============================================================================
