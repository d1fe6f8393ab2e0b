-------------------------- MODULE MC_LinkHandshake --------------------------
EXTENDS LinkHandshake
=============================================================================
