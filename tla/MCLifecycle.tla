----------------------------- MODULE MCLifecycle -----------------------------
(* A seeded image and a newer one without a seed.                          *)
EXTENDS Lifecycle

MCNewer == [i \in Images |-> IF i \in SeededBuilds THEN Images \ {i} ELSE {}]
=============================================================================
