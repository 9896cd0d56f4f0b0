-------------------------- MODULE MCClaudeSession --------------------------
(* Instances of ClaudeSession for TLC. *)
EXTENDS ClaudeSession

\* a question with a repair and a continuation in the same words, then two others
ThreeQuestions == <<1, 1, 1, 4, 5>>
Words == <<"question", "go on", "go on", "second", "third">>

=============================================================================
