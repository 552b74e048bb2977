------------------------------- MODULE MCBio -------------------------------
(* Fewer buffers than blocks, so that buffers are recycled.                 *)
EXTENDS Bio
=============================================================================
