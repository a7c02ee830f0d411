----------------------------- MODULE MCTcpTask -----------------------------
\* The instances of TcpTask that TLC checks; the cfgs give the bounds.
EXTENDS TcpTask
=============================================================================
