-------------------------- MODULE MCSessionDispatch --------------------------
\* Two runs and two questions: the second run meets what the first one left,
\* the second question what a late answer to the first one does.
EXTENDS SessionDispatch
=============================================================================
