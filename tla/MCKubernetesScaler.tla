--------------------------- MODULE MCKubernetesScaler --------------------------
(* KubernetesScaler for TLC. *)
EXTENDS KubernetesScaler, TLC

Symmetry == Permutations(Runners)
==============================================================================
