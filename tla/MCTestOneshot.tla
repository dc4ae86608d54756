---------------------------- MODULE MCTestOneshot ----------------------------
EXTENDS TestOneshot
=============================================================================
