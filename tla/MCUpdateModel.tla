---------------------------- MODULE MCUpdateModel ----------------------------
\* An instance of UpdateModel for TLC.
EXTENDS UpdateModel

MCIds == 1..4
=============================================================================
