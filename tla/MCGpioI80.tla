------------------------------- MODULE MCGpioI80 -------------------------------
(* Small instances of GpioI80: two data bits over three ports of three     *)
(* pins, at most two ports in use.                                         *)
EXTENDS GpioI80

MCPin == 0 .. 6

\* Consecutive in one port; reversed; consecutive but across ports; the bits
\* on two ports, out of order.
MCLayouts == {[b \in 0 .. 1 |-> pins[b + 1]] :
                pins \in {<<0, 1>>, <<1, 0>>, <<2, 3>>, <<5, 1>>}}
=============================================================================
