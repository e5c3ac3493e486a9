------------------------------ MODULE MCAppBar ------------------------------
EXTENDS AppBar

\* Nothing is pinned, or one app, which leaves entries that come and go.
MCSavedPins == {<<>>} \union {<<app>> : app \in Apps}
Symmetry    == Permutations(Apps) \union Permutations(Monitors)
=============================================================================
