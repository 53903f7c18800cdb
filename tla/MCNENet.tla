------------------------------ MODULE MCNENet -------------------------------
(* NENet with NEC's port the smaller one, as in the shipped configuration, *)
(* with the interface port the smaller one, and with two numbers that are  *)
(* one port.                                                               *)
EXTENDS NENet

Shipped == [nec |-> 1, interface |-> 2]
MCConfigs == {Shipped, [nec |-> 2, interface |-> 1], [nec |-> 1, interface |-> 65537]}
ShippedOnly == {Shipped}
=============================================================================
