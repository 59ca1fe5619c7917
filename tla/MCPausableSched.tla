-------------------------- MODULE MCPausableSched --------------------------
EXTENDS PausableSched

MCSeconds == {-1, 1}
=============================================================================
