------------------------------ MODULE MCStartup -----------------------------
EXTENDS Startup
=============================================================================
