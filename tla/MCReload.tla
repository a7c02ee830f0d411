------------------------------ MODULE MCReload ------------------------------
\* The instance of Reload that TLC checks; its cfg gives the configurations.
EXTENDS Reload
=============================================================================
