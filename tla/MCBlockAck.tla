----------------------------- MODULE MCBlockAck -----------------------------
(* Small instances of BlockAck: one or two senders, two bundles, one or two  *)
(* blocks per sender, one retransmission.                                    *)
EXTENDS BlockAck
=============================================================================
