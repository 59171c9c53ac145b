--------------------------- MODULE MCTraceeMemory ---------------------------
\* The instance of TraceeMemory that TLC checks.
EXTENDS TraceeMemory
\* The dummy page in front of the areas is {"r", "x"}.
MCProts == {{"r", "w"}, {"r", "x"}}
MCLengths == {1, 2}
=============================================================================
