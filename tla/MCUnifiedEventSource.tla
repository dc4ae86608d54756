------------------------- MODULE MCUnifiedEventSource -------------------------
EXTENDS UnifiedEventSource
=============================================================================
