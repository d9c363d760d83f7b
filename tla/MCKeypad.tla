------------------------------ MODULE MCKeypad ------------------------------
\* The keypad on short arrays.  IntMax and Mantissa are scaled down with
\* them, so that two- and three-digit goals saturate and are rounded.
EXTENDS Keypad
MCInitialPassword == <<"7">>
=============================================================================
