---- MODULE MCConnections ----
\* Connections with the small instances given in the cfg files.
EXTENDS Connections
====
