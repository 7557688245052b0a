---------------------------- MODULE MCTcpTunnel -----------------------------
EXTENDS TcpTunnel
=============================================================================
