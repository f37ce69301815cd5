------------------------------ MODULE MCConfig ------------------------------
(* Model checking instance of Config: see MCConfig.cfg for the constants.   *)
EXTENDS Config
=============================================================================
