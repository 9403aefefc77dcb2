------------------------------ MODULE MCManaged ------------------------------
EXTENDS ManagedConfig

\* Two instances, the rows of the first revision, and what a publication may install: the
\* same rows again, one row changed, one row changed and the other deleted.
C1 == <<1, 1>>
C3 == {<<1, 1>>, <<2, 1>>, <<2, 0>>}
=============================================================================
