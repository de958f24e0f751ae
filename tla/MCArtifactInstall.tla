-------------------------- MODULE MCArtifactInstall --------------------------
EXTENDS ArtifactInstall

CONSTANTS p1, p2
==============================================================================
