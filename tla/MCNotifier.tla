----------------------------- MODULE MCNotifier -----------------------------
\* The notifier with the constants of its configurations.
EXTENDS Notifier
=============================================================================
