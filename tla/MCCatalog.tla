---- MODULE MCCatalog ----
\* Catalog with the small instances given in the cfg files.
EXTENDS Catalog
====
