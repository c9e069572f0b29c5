------------------------------ MODULE MCSchedule ------------------------------
EXTENDS Schedule
=============================================================================
