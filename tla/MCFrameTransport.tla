-------------------------- MODULE MCFrameTransport --------------------------
(* FrameTransport for TLC. The instance is in Transport.cfg. *)
EXTENDS FrameTransport
=============================================================================
