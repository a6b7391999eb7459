--------------------------- MODULE MCP0bConsumer ---------------------------
(* Three offers, a and a2 of one record.  One bundle carries a and b, the   *)
(* other the second source's a2: its journal stays empty when a was         *)
(* journaled first.  Two rows wait without a bundle: a late invocation      *)
(* meets its successor on one while the other keeps the queue busy.         *)
EXTENDS P0bQueue

CONSTANTS a, b, a2, u1, u2

MCCandidate == {a, b, a2}
MCSha       == [c \in MCCandidate |-> IF c = b THEN 2 ELSE 1]

MCUri      == {u1, u2}
MCManifest == [u \in MCUri |-> IF u = u1 THEN {a, b} ELSE {a2}]
=============================================================================
