---------------------------- MODULE MCDashboard ----------------------------
EXTENDS Dashboard

CONSTANTS c1, c2
=============================================================================
