---------------------------- MODULE MCRecvWakeup ----------------------------
\* The waiting thread with the constants of its configuration.
EXTENDS RecvWakeup
=============================================================================
