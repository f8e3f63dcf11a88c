----------------------------- MODULE MCMcpClient -----------------------------
\* Two runs on one connection, so that a crew of the first can meet the run
\* state of the second, and two calls between them.
EXTENDS McpClient

CONSTANT k1
MCKeys == {k1}
=============================================================================
