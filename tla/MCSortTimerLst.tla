---------------------------- MODULE MCSortTimerLst ----------------------------
EXTENDS SortTimerLst
=============================================================================
