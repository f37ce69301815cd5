------------------------------ MODULE MCQueue -------------------------------
(***************************************************************************)
(* Model checking instance of Queue.  The messages take 2, 3, 5 and 8 bytes *)
(* in a ring of 7: an empty one, a plain one, one with a byte to escape and *)
(* the flipped form of another, and one that never fits.                    *)
(***************************************************************************)
EXTENDS Queue

MCPackets == {<<>>, <<65>>, <<94, 127>>, <<126, 125, 127>>}
MCReplies == {<<65>>}

\* Without the message that never fits.
MCFitting == MCPackets \ {<<126, 125, 127>>}
=============================================================================
