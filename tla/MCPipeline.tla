----------------------------- MODULE MCPipeline -----------------------------
\* Three prompts: one may plan, one fail after an approval, one build.
EXTENDS Pipeline
=============================================================================
