----------------------------- MODULE MCSerialTx -----------------------------
(* Instances of SerialTx for TLC: all configurations, and the one that     *)
(* refills the buffer it sends.                                            *)
EXTENDS SerialTx

AllConfigurations == {"raw", "escaped"} \X {"blocking", "async"}
RefilledBuffer == {<<"escaped", "async">>}
=============================================================================
