------------------------------- MODULE Enrolment -------------------------------
(* The fingerprint page of htmlTest (Scripts/JS/BioCapture.js): its operator   *)
(* captures each finger or declares it absent, has one finger verified by the  *)
(* INE service, and sends the enrolment.  A click and an answer of the local   *)
(* service are handled to the end by one call, so each is one action; what     *)
(* interleaves is which of them comes next.                                    *)
(*                                                                             *)
(* The arrays fingersCaptured and absencesJson are kept as the set of their    *)
(* elements and their length: nobody reads their order, and two entries for    *)
(* one finger show as a length that is too large.  fingersDeactive is always   *)
(* empty and fingersActive only says which finger pulsates; both are left out. *)
(*                                                                             *)
(* Two orders of clicks spoil the register: capturing while an answer about    *)
(* something else is due, and giving up a hand after an absence.  overlapped   *)
(* and handLate remember that they happened.  They are history variables: no   *)
(* guard reads them, and the page has nothing like them.                       *)
EXTENDS Integers, Sequences, FiniteSets

CONSTANTS
    Fingers,                     \* the fingers of the panel: 1..5 right, 6..10 left
    minimumFingerprintsRequired, \* as the service asked for
    MaxCaptures,                 \* bound: capture() calls in flight
    MaxPending,                  \* bound: verifications, and enrolments, in flight
    MaxSaves,                    \* bound: click handlers on the save button
    MaxAttempts,                 \* bound: attempts of any finger, at a click
    MaxEntries                   \* bound: length of fingersCaptured, at a click

Pairs == {<<6, 1>>, <<2, 3>>, <<8, 7>>}

ASSUME EnrolmentAssumption ==
    /\ Fingers \subseteq 1..10
    /\ \A p \in Pairs : p[1] \in Fingers <=> p[2] \in Fingers
    /\ minimumFingerprintsRequired \in 0..Cardinality(Fingers)
    /\ MaxCaptures \in Nat \ {0} /\ MaxPending \in Nat \ {0} /\ MaxSaves \in Nat \ {0}
    /\ MaxAttempts \in Nat \ 0..3 /\ MaxEntries \in Nat \ 0..Cardinality(Fingers)

VARIABLES
    captured, nCaptured,  \* fingersCaptured
    absent, nAbsent,      \* absencesJson
    attempts,             \* fingersCaptureAttempts
    disabled,             \* fingers with the class no-captured-disable
    menus,                \* fingers whose absence menu is shown
    hands,                \* the hand buttons (RH, LH) that still work
    toCapture,            \* the global fingersToCapture
    requests,             \* capture() calls the service has not answered, oldest first
    waiting,              \* waitingDialog is shown; it blocks every click
    confirm,              \* the finger or hand a confirmation asks about; it blocks the rest
    ine,                  \* fingers whose INE icon is shown
    verifying,            \* number of getAnsiWSQ() calls not answered
    saves,                \* click handlers of the save button
    sending,              \* sendEnrollment() calls not answered
    panel,                \* the hands panel is shown
    overlapped,           \* history: a capture was begun before another answer had come
    handLate              \* history: a hand was given up after an absence

scan == <<captured, nCaptured, absent, nAbsent, attempts>>
panelState == <<disabled, menus, hands, panel>>
services == <<toCapture, requests, verifying, sending>>
history == <<overlapped, handLate>>
vars == <<scan, panelState, services, waiting, confirm, ine, saves, history>>

N == Cardinality(Fingers)
NoConfirm == 0
RH == 11
LH == 12
Hand(h) == {f \in Fingers : (f <= 5) <=> (h = RH)}
HandOf(f) == IF f <= 5 THEN RH ELSE LH

(* The fingers with which the capture device takes f.                          *)
PairOf(f) == IF \E p \in Pairs : f \in {p[1], p[2]}
             THEN CHOOSE p \in Pairs : f \in {p[1], p[2]}
             ELSE <<f>>

isDone(f) == f \in captured \/ f \in absent

(* Mutants: the partner is taken again although it is done; a finger is named  *)
(* by its slot in fingersCaptureAttempts.                                      *)
BothFingers(f) == PairOf(f)
BySlot(f) == <<f - 1>>

(* Of a pair, only the finger that is not done yet; the one with the lower     *)
(* number is looked at first.                                                  *)
fingerToCapture(f) ==
    LET p    == PairOf(f)
        low  == IF p[1] < p[2] THEN p[1] ELSE p[2]
        high == IF p[1] < p[2] THEN p[2] ELSE p[1]
    IN  IF Len(p) = 1  THEN p
        ELSE IF isDone(low)  THEN <<high>>
        ELSE IF isDone(high) THEN <<low>>
        ELSE p

(* Mutant: the waiting dialog lets clicks through.                             *)
NoBackdrop == panel /\ confirm = NoConfirm

(* The dialogs are modal: nothing else can be clicked.                         *)
Idle == panel /\ ~waiting /\ confirm = NoConfirm

(* addInvoke() with a good result.  If every finger is required there are no   *)
(* absence menus, no hand buttons, and the INE icons get no handler.           *)
Init ==
    /\ captured = {} /\ nCaptured = 0
    /\ absent = {} /\ nAbsent = 0
    /\ attempts = [f \in Fingers |-> 0]
    /\ disabled = {}
    /\ menus = IF minimumFingerprintsRequired = N THEN {} ELSE Fingers
    /\ hands = IF minimumFingerprintsRequired = N THEN {} ELSE {RH, LH}
    /\ toCapture = <<>> /\ requests = <<>>
    /\ waiting = FALSE /\ confirm = NoConfirm
    /\ ine = {} /\ verifying = 0
    /\ saves = 0 /\ sending = 0
    /\ panel = TRUE
    /\ overlapped = FALSE /\ handLate = FALSE

(* A click on finger f; the call throws if the hub is not connected.  A        *)
(* verification or an enrolment may not be answered yet: the former shows no   *)
(* waiting dialog, and its answer hides that of the latter.                    *)
captureFingerprints(f) ==
    /\ Idle
    /\ f \notin disabled /\ f \notin captured
    /\ Len(requests) < MaxCaptures /\ nCaptured < MaxEntries
    /\ \A g \in Fingers : attempts[g] < MaxAttempts
    /\ toCapture' = fingerToCapture(f)
    /\ overlapped' = (overlapped \/ verifying > 0 \/ sending > 0)
    /\ \/ /\ requests' = Append(requests, toCapture')
          /\ waiting' = TRUE
          /\ UNCHANGED panelState
       \/ /\ panel' = FALSE
          /\ UNCHANGED <<requests, waiting, disabled, menus, hands>>
    /\ UNCHANGED <<scan, verifying, sending, confirm, ine, saves, handLate>>

(* ---------------------------- addCapture(flags) ---------------------------- *)
(* Flag i is about finger toCapture[i], whatever was asked of the device.      *)
Named(I) == {toCapture[i] : i \in I \cap DOMAIN toCapture}

(* The failures that are a third attempt and make the finger absent.           *)
Thirds(flags) == {i \in DOMAIN flags \cap DOMAIN toCapture :
                    ~flags[i] /\ attempts[toCapture[i]] = 2}

(* Such an absence may end the enrolment, and the loop over the flags.         *)
Aborts(flags) == {i \in Thirds(flags) :
    nAbsent + Cardinality({j \in Thirds(flags) : j <= i}) > minimumFingerprintsRequired}
Read(flags) == {i \in DOMAIN flags : \A j \in Aborts(flags) : i <= j}

(* Mutant: the finger stays on the panel after its third failure.              *)
ForgetThird(failed) == disabled

(* enableNextFingerOption() for the fingers that became absent: as no finger   *)
(* is held back, it only takes them off the panel.                             *)
enableNextFingerOption(failed) == disabled \cup failed

addCapture(flags) ==
    LET good   == {i \in Read(flags) : flags[i]}
        third  == Thirds(flags) \cap Read(flags)
        failed == Named({i \in Read(flags) : ~flags[i]})
    IN
    /\ requests # <<>>
    /\ DOMAIN flags = DOMAIN Head(requests)
    /\ requests' = Tail(requests)
    /\ captured' = captured \cup Named(good)
    /\ nCaptured' = nCaptured + Cardinality(good)
    /\ absent' = absent \cup Named(third)
    /\ nAbsent' = nAbsent + Cardinality(third)
    /\ attempts' = [f \in Fingers |-> attempts[f] + IF f \in failed THEN 1 ELSE 0]
    /\ disabled' = enableNextFingerOption(Named(third))
    /\ menus' = menus \ Named(good \cup third)
    /\ hands' = hands \ {HandOf(f) : f \in Named(good)}
    /\ panel' = (panel /\ Aborts(flags) = {})
    /\ ine' = IF Aborts(flags) = {} /\ nCaptured' + nAbsent' = N THEN ine \cup captured' ELSE ine
    /\ waiting' = FALSE
    /\ UNCHANGED <<toCapture, verifying, sending, confirm, saves, history>>

(* ------------------------------- absences ---------------------------------- *)
addAbsenceMenu(f) ==
    /\ Idle
    /\ f \in menus
    /\ confirm' = f
    /\ UNCHANGED <<scan, panelState, services, waiting, ine, saves, history>>

(* The operator confirms that finger f is missing.                             *)
confirmAbsence(f) ==
    LET last == nAbsent + 1 = N - minimumFingerprintsRequired IN
    /\ ~waiting /\ confirm = f
    /\ absent' = absent \cup {f} /\ nAbsent' = nAbsent + 1
    /\ disabled' = enableNextFingerOption({f})
    /\ menus' = IF last THEN {} ELSE menus \ {f}
    /\ ine' = IF last THEN ine \cup captured ELSE ine
    /\ confirm' = NoConfirm
    /\ UNCHANGED <<captured, nCaptured, attempts, hands, panel, services, waiting, saves, history>>

(* A whole hand may be given up while no finger of it is captured.             *)
removeHandOptions(h) ==
    /\ Idle
    /\ h \in hands
    /\ confirm' = h
    /\ UNCHANGED <<scan, panelState, services, waiting, ine, saves, history>>

(* Every finger of the hand is recorded as absent, also one that already was,  *)
(* and every finger of the other hand is put back on the panel.                *)
confirmHand(h) ==
    LET rest == Fingers \ Hand(h) IN
    /\ ~waiting /\ confirm = h
    /\ absent' = absent \cup Hand(h) /\ nAbsent' = nAbsent + Cardinality(Hand(h))
    /\ disabled' = (disabled \cup Hand(h)) \ rest
    /\ menus' = IF minimumFingerprintsRequired >= Cardinality(rest) THEN {} ELSE menus \ Hand(h)
    /\ hands' = {}
    /\ confirm' = NoConfirm
    /\ handLate' = (handLate \/ absent # {})
    /\ UNCHANGED <<captured, nCaptured, attempts, panel, services, waiting, ine, saves, overlapped>>

cancelConfirm ==
    /\ ~waiting /\ confirm # NoConfirm
    /\ confirm' = NoConfirm
    /\ UNCHANGED <<scan, panelState, services, waiting, ine, saves, history>>

(* ------------------------- verification and sending ------------------------ *)
(* The icon shows no waiting dialog.  The icons of the first fingers may show  *)
(* before the others are done.                                                 *)
sendToIne(f) ==
    /\ Idle
    /\ f \in ine /\ minimumFingerprintsRequired # N
    /\ verifying < MaxPending
    /\ verifying' = verifying + 1
    /\ UNCHANGED <<scan, panelState, toCapture, requests, sending, waiting, confirm, ine, saves, history>>

(* The answer hides whatever dialog there is; a finger that could be verified  *)
(* adds one more handler to the save button.                                   *)
addcaptureIndex(verified) ==
    /\ verifying > 0
    /\ verifying' = verifying - 1
    /\ waiting' = FALSE
    /\ saves' = IF verified /\ saves < MaxSaves THEN saves + 1 ELSE saves
    /\ UNCHANGED <<scan, panelState, toCapture, requests, sending, confirm, ine, history>>

(* Mutant: the number of captured fingers is not looked at.                    *)
AnyNumber == TRUE

EnoughCaptured == nCaptured >= minimumFingerprintsRequired

(* One click runs every handler of the save button; their calls throw if the   *)
(* hub is not connected.                                                       *)
sendEnrollment ==
    /\ Idle
    /\ saves > 0 /\ EnoughCaptured
    /\ sending + saves <= MaxPending
    /\ \/ /\ sending' = sending + saves
          /\ waiting' = TRUE
          /\ UNCHANGED panelState
       \/ /\ panel' = FALSE
          /\ UNCHANGED <<sending, waiting, disabled, menus, hands>>
    /\ UNCHANGED <<scan, toCapture, requests, verifying, confirm, ine, saves, history>>

(* The service has stored the enrolment (code 1), or refused it.               *)
addEnrollment(stored) ==
    /\ sending > 0
    /\ sending' = sending - 1
    /\ waiting' = FALSE
    /\ panel' = (panel /\ ~stored)
    /\ UNCHANGED <<scan, disabled, menus, hands, toCapture, requests, verifying, confirm, ine, saves, history>>

Next ==
    \/ \E f \in Fingers :
          captureFingerprints(f) \/ addAbsenceMenu(f) \/ confirmAbsence(f) \/ sendToIne(f)
    \/ \E n \in 1..2 : \E flags \in [1..n -> BOOLEAN] : addCapture(flags)
    \/ \E h \in {RH, LH} : removeHandOptions(h) \/ confirmHand(h)
    \/ cancelConfirm
    \/ \E ok \in BOOLEAN : addcaptureIndex(ok) \/ addEnrollment(ok)
    \/ sendEnrollment

Spec == Init /\ [][Next]_vars

(* -------------------------------- properties ------------------------------- *)
TypeOK ==
    /\ captured \in SUBSET Fingers /\ nCaptured \in Nat
    /\ absent \in SUBSET Fingers /\ nAbsent \in Nat
    /\ attempts \in [Fingers -> Nat]
    /\ disabled \in SUBSET Fingers /\ menus \in SUBSET Fingers
    /\ hands \in SUBSET {RH, LH} /\ panel \in BOOLEAN
    /\ toCapture \in Seq(Fingers) /\ requests \in Seq(Seq(Fingers))
    /\ waiting \in BOOLEAN
    /\ confirm \in Fingers \cup {RH, LH, NoConfirm}
    /\ ine \in SUBSET Fingers
    /\ verifying \in Nat /\ saves \in Nat /\ sending \in Nat
    /\ overlapped \in BOOLEAN /\ handLate \in BOOLEAN

(* The flags of an answer are read against the global fingersToCapture         *)
(* (BioCapture.js:149): the only capture under way is the one that it names,   *)
(* or a finger is recorded that nobody put on the device.  Nothing but an      *)
(* overlapping capture breaks this, whatever is declared absent when.          *)
CaptureIsNamed == requests # <<>> => requests = <<toCapture>>
AnswersMatch == overlapped \/ CaptureIsNamed

Spoilt == overlapped \/ handLate

(* No finger is recorded twice, as captured, as absent or as both: every       *)
(* decision of the page compares the lengths of the two arrays.  The two       *)
(* spoiling orders are the only way to break it.                               *)
RecordedOnce ==
    /\ captured \cap absent = {}
    /\ nCaptured = Cardinality(captured)
    /\ nAbsent = Cardinality(absent)
FingerOnce == Spoilt \/ RecordedOnce

(* A finger has three attempts, and is absent after the third failed, in any   *)
(* order of clicks but the two.                                                *)
TriedThrice == \A f \in Fingers : attempts[f] <= 3 /\ (attempts[f] = 3 => f \in absent)
ThreeAttempts == Spoilt \/ TriedThrice

(* Nothing is sent before every finger is captured or absent, although neither *)
(* the save button nor its handler looks at the fingers that are left; only    *)
(* the two spoiling orders let less be sent.                                   *)
SentIsComplete == [][sending' > sending => Spoilt \/ captured \cup absent = Fingers]_vars

(* What the page does to the two arrays and to what is sent is FingerRegister, *)
(* until one of the two orders spoils it: no answer, third failure or absence  *)
(* undoes what was decided of a finger.                                        *)
Register == INSTANCE FingerRegister WITH
    Enough <- {S \in SUBSET Fingers : Cardinality(S) >= minimumFingerprintsRequired}
FollowsRegister ==
    Register!Init /\ [][Spoilt' \/ Register!Next]_<<captured, absent, sending>>

(* "no se podrá revertir el cambio" (BioCapture.js:593): a finger that the     *)
(* operator confirmed to be missing is not captured after all.                 *)
AbsenceStands == captured \cap absent = {}

(* "TERMINE DE CAPTURAR O INDIQUE AUSENCIAS" (BioCapture.js:879): once each    *)
(* finger is captured or absent, and enough are captured, the enrolment can be *)
(* verified, and so saved.                                                     *)
CanBeFinished ==
    Idle /\ captured \cup absent = Fingers /\ EnoughCaptured => ine # {}
================================================================================
