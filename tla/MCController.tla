---------------------------- MODULE MCController ----------------------------
\* A settled weight; goals on both sides of it make an attempt succeed or fail.
EXTENDS Controller
Light == [stable |-> "determined", weight |-> 1]
OnlyLight == {Light}
=============================================================================
