--------------------------- MODULE MCJobPipeline ---------------------------
(* Instances of JobPipeline for TLC. *)
EXTENDS JobPipeline

\* Every repair is called for by one flaw of an answer.
FewFlaws == {{}, {"wording"}, {"signals"}, {"citations"}}

=============================================================================
