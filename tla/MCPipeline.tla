----------------------------- MODULE MCPipeline -----------------------------
(* InboundPipeline for a chat with up to two messages; the .cfg files      *)
(* choose how many processes share the work and what may fail.             *)
EXTENDS InboundPipeline

CONSTANTS c1, m1, m2, g1, g2, w1, w2

OneChat == [m \in Messages |-> c1]

(* One message per webhook; or a pair and, once more, one of the two.      *)
Singly == {<<m>> : m \in Messages}
Overlapping == {<<m1, m2>>, <<m2>>}

(* Workers on hosts of their own.                                          *)
OwnHosts == [w \in Workers |-> w]

Symmetry == Permutations({g1, g2}) \cup Permutations({w1, w2})

AllTxs == Gateways \cup Workers
AllRows == PipelineRows
=============================================================================
