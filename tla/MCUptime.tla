------------------------------ MODULE MCUptime ------------------------------
EXTENDS Uptime, TLC
=============================================================================
