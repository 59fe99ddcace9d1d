----------------------------- MODULE MCEcOrder ------------------------------
(* Small instances of EcOrder for TLC: who is at work in each run.         *)
EXTENDS EcOrder, TLC

CONSTANTS c, w1, w2, s1, s2, p1, p2, a, b

Doing(ops) == {j \in Jobs : j.op \in ops}

\* A customer in one browser tab, and workers that share the timeout messages.
CustomerAndWorkers ==
    c :> Doing({"upsert", "pay"}) @@ w1 :> Doing({"timeout"}) @@ w2 :> Doing({"timeout"})

\* A customer who comes back from 3-D Secure, and two stores with one employee each.
CustomerAndStores ==
    c :> Doing({"upsert", "pay", "callback"}) @@ s1 :> Changes(a) @@ s2 :> Changes(b)

InterchangeablePayments == Permutations(Payments)

\* Anything at the same time.
AnyTwo == w1 :> Jobs @@ w2 :> Jobs

=============================================================================
