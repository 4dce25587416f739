------------------------- MODULE MCPresentationGate -------------------------
EXTENDS PresentationGate
=============================================================================
