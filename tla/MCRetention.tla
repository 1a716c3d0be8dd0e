---------------------------- MODULE MCRetention ----------------------------
EXTENDS RetentionInvariant, TLC

CONSTANTS a, b1, b2

\* Two selectors: the entries of the second are b1 and b2, those of the first
\* are one entry.
OneSelectorLess == {Entries, {Root, a}}

\* Hosts are interchangeable, and so are the entries of one selector.
Symmetry == Permutations(Hosts) \cup Permutations({b1, b2})
=============================================================================
