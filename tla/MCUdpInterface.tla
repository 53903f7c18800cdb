--------------------------- MODULE MCUdpInterface ---------------------------
(* UdpInterface on two ports, as the program has it, and three datagrams.  *)
EXTENDS UdpInterface

MCPorts == {1, 2}
=============================================================================
