--------------------------- MODULE MCSdkTransport ---------------------------
(* Small instances of SdkTransport.                                         *)
EXTENDS SdkTransport
=============================================================================
