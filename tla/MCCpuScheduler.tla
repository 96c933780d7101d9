-------------------------- MODULE MCCpuScheduler --------------------------
(***************************************************************************)
(* Small instances of CpuScheduler: two shares of the higher and one of    *)
(* the lower of two priorities.                                            *)
(***************************************************************************)
EXTENDS CpuScheduler, TLC

CONSTANTS s1, s2, s3

MCShare == {s1, s2, s3}
\* Shares of the same priority are interchangeable
Symmetry == Permutations({s1, s2})

MCPrio  == (s1 :> 1) @@ (s2 :> 1) @@ (s3 :> 0)

\* A claim and a fill suffice for the question who starves whom
TwoShares == {s1, s2}
TwoPrio   == (s1 :> 1) @@ (s2 :> 0)

===========================================================================
