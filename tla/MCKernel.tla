------------------------------ MODULE MCKernel ------------------------------
(* Small instances of Kernel for TLC.                                       *)
EXTENDS Kernel, TLC

\* Agents and tasks are interchangeable: no action or safety property of
\* Kernel tells them apart.
Symmetry == Permutations(AgentIds) \cup Permutations(TaskIds)
=============================================================================
