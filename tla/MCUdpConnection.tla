-------------------------- MODULE MCUdpConnection ---------------------------
EXTENDS UdpConnection

\* Datagrams of 0, 1 and 3 bytes: blocks of 2, 3 and 5 cells, so that blocks end
\* before, at and after the end of the circular part.
MCDatagrams == {<< >>, <<1>>, <<1, 0, 1>>}
=============================================================================
