------------------------------ MODULE MCEnrolment ------------------------------
(* Instances of Enrolment for TLC.                                             *)
EXTENDS Enrolment

(* Both thumbs and a pair of the right hand.                                   *)
FourFingers == {1, 2, 3, 6}
================================================================================
