--------------------------- MODULE MCPaperManager ---------------------------
EXTENDS PaperManager, TLC

\* Bots and requests are interchangeable where only safety is checked.
Interchangeable == Permutations(Bots) \cup Permutations(Clients)
=============================================================================
