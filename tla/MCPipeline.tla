----------------------------- MODULE MCPipeline -----------------------------
(***************************************************************************)
(* Pipeline for TLC: every invocation is interchangeable.                  *)
(***************************************************************************)
EXTENDS Pipeline, TLC

InvocationSymmetry == Permutations(Invocations)

=============================================================================
