--------------------------- MODULE MCIdempotency ---------------------------
(* Small instances of Idempotency for TLC: duplicates a1, a2 of one request, *)
(* b of the same principal with another payload, and c, the request of a1    *)
(* sent by another principal, all under one key.                             *)
EXTENDS Idempotency, TLC

CONSTANTS a1, a2, b, c, p1, p2, x, y

MCPrincipal == {p1, p2}
MCPrincipalOf == [r \in Request |-> IF r = c THEN p2 ELSE p1]
MCPayload == {x, y}
MCPayloadOf == [r \in Request |-> IF r = b THEN y ELSE x]

\* The policies in use: key optional or required, with and without rerun.
MCPolicies ==
  {[mode |-> "replay", required |-> FALSE, rerun |-> FALSE],
   [mode |-> "replay", required |-> TRUE, rerun |-> FALSE],
   [mode |-> "domain", required |-> TRUE, rerun |-> FALSE],
   [mode |-> "domain", required |-> TRUE, rerun |-> TRUE]}

Symmetry == Permutations({a1, a2})
=============================================================================
