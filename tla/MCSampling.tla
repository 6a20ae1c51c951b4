----------------------------- MODULE MCSampling -----------------------------
EXTENDS Sampling, TLC

\* Two of the speeds a receiver should never report and some do: one below
\* zero and one that is not a number.
MCNaN == -9
MCSpeeds == {-1, 0, 3, MCNaN}

MCSymmetry == Permutations(Places)

=============================================================================
