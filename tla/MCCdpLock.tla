----------------------------- MODULE MCCdpLock -----------------------------
EXTENDS CdpLock
=============================================================================
