---------------------------- MODULE MCAdmission ----------------------------
(* Model values for Admission: all sockets but the last share an address.  *)
EXTENDS Admission

CONSTANTS s1, s2, s3, s4, near, far

MCFrom == [s \in Socket |-> IF s = s4 THEN far ELSE near]

=============================================================================
