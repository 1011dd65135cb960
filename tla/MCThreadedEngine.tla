-------------------------- MODULE MCThreadedEngine --------------------------
(* Small instances of ThreadedEngine.                                      *)
EXTENDS ThreadedEngine

\* Only the owner adds requests; other clients abort them.
OwnerOnly == {Owner}
=============================================================================
