----------------------------- MODULE MCListener -----------------------------
(* An instance of Listener: small limits, or none.                         *)
EXTENDS Listener
MCLimits == {1, 2, NoLimit}
=============================================================================
