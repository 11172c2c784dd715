------------------------------ MODULE MCUserpic ------------------------------
\* Instances of Userpic for TLC.
EXTENDS Userpic

CONSTANTS u1, u2, png1, jpg1, png2

\* One user gets pictures of two kinds, the other always the same.
AtURLs == [u \in {u1, u2} |-> IF u = u1 THEN {png1, jpg1} ELSE {png2}]
Extensions == [l \in {png1, jpg1, png2} |-> IF l = jpg1 THEN "jpg" ELSE "png"]
=============================================================================
