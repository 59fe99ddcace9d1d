----------------------------- MODULE MCContract -----------------------------
(* Small instances of Contract for TLC.                                    *)
EXTENDS Contract, TLC

CONSTANTS k1, k2, e1, e2, t1, t2, q1, q2, r1, r2

\* Months of two days, and one of a single day.
Calendar == <<1, 3, 5, 6, 8, 10, 12>>

Interchangeable ==
    Permutations(Contracts) \cup Permutations(Emails) \cup Permutations(Tries)
        \cup Permutations(Requests) \cup Permutations(Runs)

=============================================================================
