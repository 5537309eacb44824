------------------------------ MODULE MCSession ------------------------------
(* A small instance of Session: an applicant and an inspector share a browser. *)
EXTENDS Session

CONSTANTS ann, ina

MCRoleOf == [e \in Emails |-> IF e = ann THEN "APPLICANT" ELSE "INSPECTOR"]

=============================================================================
