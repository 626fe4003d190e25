--------------------------- MODULE MCEventReader ---------------------------
EXTENDS EventReader

MCReadSize == {1, 2, 4}
=============================================================================
