--------------------------- MODULE MCDeviceChain ---------------------------
(* DeviceChain for TLC.                                                    *)
EXTENDS DeviceChain, TLC

=============================================================================
