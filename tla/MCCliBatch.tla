----------------------------- MODULE MCCliBatch -----------------------------
EXTENDS CliBatch

CONSTANTS a, b, d, e, pa, pd, pe

\* Two pages whose names differ in the extension alone, a document, a stranger.
MCKind == [i \in Inputs |-> CASE i \in {a, b} -> "page" [] i = d -> "office" [] OTHER -> "other"]
MCPatterns == {{a, b, d}, {b, d, e}}
MCTarget == [i \in Inputs |-> CASE i \in {a, b} -> pa [] i = d -> pd [] OTHER -> pe]
=============================================================================
