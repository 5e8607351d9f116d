---------------------------- MODULE MCMediaOutput ----------------------------
\* An instance of MediaOutput for TLC; the other values are in the .cfg file.
EXTENDS MediaOutput

\* an IRAP fills the queue, or the queue but for the parameter set
Lengths == [set |-> {1}, irap |-> {2, 3}, inter |-> {1}]
=============================================================================
