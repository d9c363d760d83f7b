---------------------------- MODULE MCLifecycle -----------------------------
\* Four-bit integers in place of 32-bit ones.
EXTENDS Lifecycle
=============================================================================
