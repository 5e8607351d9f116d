----------------------------- MODULE MCRtspServer ----------------------------
\* Instances of RtspServer for TLC; the values are in the .cfg files.
EXTENDS RtspServer

\* two publications at two paths, or one after the other at the same path
TwoPaths == [k \in Pubs |-> k]
OnePath  == [k \in Pubs |-> "stream"]

\* what the cameras emit: nothing; or, of the first publication, three chunks
Silent    == [k \in Pubs |-> 0]
FirstOnly == [k \in Pubs |-> IF k = (CHOOSE j \in Pubs : TRUE) THEN 3 ELSE 0]
=============================================================================
