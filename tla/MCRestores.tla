---- MODULE MCRestores ----
\* Restores with the small instance given in the cfg file.
EXTENDS Restores
====
