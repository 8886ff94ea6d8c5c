------------------------- MODULE MCMaintenance -------------------------
EXTENDS Maintenance
========================================================================
