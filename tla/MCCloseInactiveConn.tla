------------------------- MODULE MCCloseInactiveConn -------------------------
EXTENDS CloseInactiveConn
=============================================================================
