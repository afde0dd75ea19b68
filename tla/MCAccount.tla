---- MODULE MCAccount ----
(* Two or three deployments; the repositories and the deployments are         *)
(* interchangeable.                                                           *)
EXTENDS Account, TLC

Symmetric == Permutations(Deployment) \cup Permutations(Repository)
====
