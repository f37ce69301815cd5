----------------------------- MODULE MCRingBuf ------------------------------
(* Model checking instance of RingBuf: see MCRingBuf.cfg.                   *)
EXTENDS RingBuf
=============================================================================
