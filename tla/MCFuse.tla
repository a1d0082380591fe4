-------------------------------- MODULE MCFuse --------------------------------
EXTENDS Fuse, TLC

\* Names are alike, and so are nodes: where the specification chooses one, the
\* others are free as well.
FuseSymmetry == Permutations(Names) \cup Permutations(Nodes)

=============================================================================
