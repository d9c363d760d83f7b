--------------------------- MODULE MCPasswordAPI ---------------------------
\* The Password class on short arrays and two characters.
EXTENDS PasswordAPI
=============================================================================
