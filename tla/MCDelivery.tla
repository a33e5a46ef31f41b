----------------------------- MODULE MCDelivery -----------------------------
EXTENDS Delivery
MCSender == {"vm", "server"}
MCEvent == MCSender \X (1 .. 2)
=============================================================================
