---- MODULE MCFleet ----
\* Fleet with the small instance given in the cfg file.
EXTENDS Fleet
====
