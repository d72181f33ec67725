-------------------------------- MODULE MCLcp --------------------------------
(* Instances of LcpTransport for TLC.  A window is in half packets.        *)
EXTENDS LcpTransport

\* The least window, one just above a whole number of packets, and one that
\* takes a retransmission but not a new packet.
PlainWindows == {2, 4, 5}
CodedWindows == {4}
LiveWindows == {2, 5}
=============================================================================
