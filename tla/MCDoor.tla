------------------------------- MODULE MCDoor -------------------------------
\* Somebody light enough, who knows the password or does not.
EXTENDS Door
Light == [stable |-> "determined", weight |-> 1]
OnlyLight == {Light}
=============================================================================
