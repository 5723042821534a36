----------------------------- MODULE MCLineage ------------------------------
EXTENDS Lineage

MCWaitTargets == {-1}
=============================================================================
