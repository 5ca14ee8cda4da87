--------------------------- MODULE MCBundleBuffer ---------------------------
(* Small instances of BundleBuffer: two sources, of which one is the agent  *)
(* itself, a buffer of two bundles, and times of a few cleaning intervals.   *)
EXTENDS BundleBuffer, TLC

CONSTANT Peer

\* One bundle of the other source is reported delivered.
OneOfPeer == {[src |-> Peer, u_id |-> 1]}
=============================================================================
