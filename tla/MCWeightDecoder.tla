--------------------------- MODULE MCWeightDecoder --------------------------
\* Frames of three pulses; those that begin with 1 are settled.
EXTENDS WeightDecoder
BeginsWith1 == {f \in [1..FrameBits -> {0, 1}] : f[1] = 1}
=============================================================================
