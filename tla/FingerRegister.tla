----------------------------- MODULE FingerRegister -----------------------------
(* What the fingerprint page promises of an enrolment: each finger is decided  *)
(* at most once, as captured or as absent, nothing decides otherwise later,    *)
(* and only a register in which every finger is decided and enough of them are *)
(* captured is sent.  Enrolment follows it until its operator captures while   *)
(* another answer is due or gives up a hand after an absence.                  *)
EXTENDS Naturals

CONSTANTS
    Fingers,
    Enough     \* the sets of fingers that may be all that is captured

VARIABLES captured, absent, sending   \* sending: enrolments not answered yet

register == <<captured, absent, sending>>

Init == captured = {} /\ absent = {} /\ sending = 0

Decide ==
    /\ captured \subseteq captured' /\ absent \subseteq absent'
    /\ captured' \cup absent' \subseteq Fingers
    /\ captured' \cap absent' = {}
    /\ UNCHANGED sending

Send ==
    /\ captured \cup absent = Fingers
    /\ captured \in Enough
    /\ sending' > sending
    /\ UNCHANGED <<captured, absent>>

Answer ==
    /\ sending > 0
    /\ sending' = sending - 1
    /\ UNCHANGED <<captured, absent>>

Next == Decide \/ Send \/ Answer

Spec == Init /\ [][Next]_register
================================================================================
