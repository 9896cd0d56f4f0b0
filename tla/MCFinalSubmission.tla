------------------------ MODULE MCFinalSubmission ------------------------
EXTENDS FinalSubmission

\* The second round's first archive holds a file the scanner cannot read.
SecondOpaque == {<<2, 1>>}
==========================================================================
