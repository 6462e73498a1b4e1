------------------------------ MODULE AuditLog ------------------------------
(***************************************************************************)
(* What the audit trail of a tenant promises: a log to which entries are   *)
(* only ever appended, each naming the one before it, so that              *)
(* verify_audit_chain, which walks the rows by id, accepts it at any time. *)
(***************************************************************************)
EXTENDS Naturals, Sequences

VARIABLE log   \* entries [id, prev], in the order in which they are walked

\* The entry before the first has this id.
NoEntry == 0

\* verify_audit_chain: every entry names the hash of the one before.
Verifies(entries) ==
    \A k \in DOMAIN entries :
        entries[k].prev = IF k = 1 THEN NoEntry ELSE entries[k - 1].id

Init == log = <<>>

Extend ==
    /\ Len(log') > Len(log)
    /\ SubSeq(log', 1, Len(log)) = log
    /\ Verifies(log')

Spec == Init /\ [][Extend]_log
=============================================================================
