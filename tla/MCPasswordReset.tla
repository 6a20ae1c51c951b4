-------------------------- MODULE MCPasswordReset --------------------------
EXTENDS PasswordReset, TLC

\* Requests and consumes are interchangeable.
MCSymmetry == Permutations(Requests) \cup Permutations(Consumers)

=============================================================================
