--------------------------- MODULE MCControlPlane ---------------------------
(* Model values for ControlPlane.                                          *)
EXTENDS ControlPlane

CONSTANTS p1, e1, e2

=============================================================================
