------------------------------ MODULE MCLogger ------------------------------
\* The instance of Logger that TLC checks; its cfgs give the bounds.
EXTENDS Logger
=============================================================================
