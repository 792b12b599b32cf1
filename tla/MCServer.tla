------------------------------- MODULE MCServer -------------------------------
EXTENDS Server
=============================================================================
