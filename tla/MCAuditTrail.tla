----------------------------- MODULE MCAuditTrail -----------------------------
(* One key, two requests that carry it and their retries; a command without a  *)
(* key.                                                                        *)
EXTENDS AuditTrail

CONSTANTS one, other, free, k, h1, h2, h3

MCAttempts == {one, other, free}
MCKeyOf(a) == IF a = free THEN NoKey ELSE k
MCHashOf(a) == IF a = one THEN h1 ELSE IF a = other THEN h2 ELSE h3
=============================================================================
