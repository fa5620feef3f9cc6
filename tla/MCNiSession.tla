---------------------------- MODULE MCNiSession -----------------------------
EXTENDS NiSession

AllKinds == Sessions
=============================================================================
