----------------------------- MODULE MCArtifact -----------------------------
(* Two versions of different lengths, so that a shorter one written over a  *)
(* longer one shows; inodes enough for both names and every open file.      *)
EXTENDS Artifact, TLC

CONSTANTS v1, v2

MCSize == [v \in Versions |-> IF v = v1 THEN 1 ELSE 2]

\* Processes and inodes are interchangeable.
MCSymmetry == Permutations(Pullers) \cup Permutations(Inodes)
=============================================================================
