----------------------------- MODULE MCServices -----------------------------
\* Instances of Services small enough to explore.
EXTENDS Services, TLC

\* Processes stand for themselves only, in the stores and in what is asked of them, and
\* so do the names of tracks and observations.
Symmetry == Permutations(Procs) \union Permutations(Ids)

\* Three operations of the cold memory: two reads and a write, or two writes and a read.
ThreeCalls == reads + writes <= 3
=============================================================================
