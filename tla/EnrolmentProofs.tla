---------------------------- MODULE EnrolmentProofs ----------------------------
(* Proofs about Enrolment, for any panel and any number of required fingers:   *)
(* unless its operator captures while another answer is due, or gives up a     *)
(* hand after an absence, no finger is recorded twice, answers match what was  *)
(* asked, three attempts are all, and what is sent is complete.                *)
EXTENDS Enrolment, FiniteSetTheorems, TLAPS

(* While a capture is under way nothing else is.                               *)
CaptureIsAlone ==
    requests # <<>> =>
        /\ requests = <<toCapture>>
        /\ waiting /\ verifying = 0 /\ sending = 0 /\ confirm = NoConfirm

(* A capture under way is about different fingers that are not done.           *)
AsksUndone ==
    requests # <<>> =>
        /\ \A i \in DOMAIN toCapture : ~isDone(toCapture[i])
        /\ \A i, j \in DOMAIN toCapture : toCapture[i] = toCapture[j] => i = j

(* A finger that is done cannot be clicked, nor its hand given up.             *)
DoneIsOffPanel ==
    /\ absent \subseteq disabled
    /\ \A f \in menus : ~isDone(f)
    /\ \A h \in hands : Hand(h) \cap captured = {}

(* A confirmation is still about what could be clicked when it was opened.     *)
ConfirmStands ==
    /\ confirm \in Fingers => confirm \in menus
    /\ confirm \in {RH, LH} => confirm \in hands

(* The INE icons show once all fingers are done, or once so many are absent    *)
(* that all others are required.                                               *)
IneIsEarned ==
    /\ ine # {} => \/ nCaptured + nAbsent >= N
                   \/ nAbsent >= N - minimumFingerprintsRequired
    /\ verifying > 0 \/ saves > 0 => ine # {}
    /\ sending > 0 => captured \cup absent = Fingers

(* What holds of a register that neither order of clicks has spoilt.           *)
Sound == RecordedOnce /\ TriedThrice /\ AsksUndone /\ DoneIsOffPanel
             /\ ConfirmStands /\ IneIsEarned

IInv == TypeOK /\ (~overlapped => CaptureIsAlone) /\ (~Spoilt => Sound)

(* ---------------------------------- lemmas --------------------------------- *)
LEMMA FingerNumbers ==
    /\ \A f \in Fingers : f \in 1..10
    /\ minimumFingerprintsRequired \in 0..Cardinality(Fingers)
    /\ \A f \in Fingers : f \in Int /\ f # NoConfirm /\ f # RH /\ f # LH
<1>1. Fingers \subseteq 1..10 /\ minimumFingerprintsRequired \in 0..Cardinality(Fingers)
  BY EnrolmentAssumption DEF EnrolmentAssumption
<1>2. \A f \in Fingers : f \in 1..10 BY <1>1
<1> QED BY <1>1, <1>2 DEF NoConfirm, RH, LH

LEMMA FingersFinite ==
    /\ IsFiniteSet(Fingers) /\ N \in Nat
    /\ \A S \in SUBSET Fingers : IsFiniteSet(S) /\ Cardinality(S) \in Nat
<1>1. IsFiniteSet(1..10)
  <2>1. \A a, b \in Int : IsFiniteSet(a..b) BY FS_Interval
  <2>2. 1 \in Int /\ 10 \in Int OBVIOUS
  <2> QED BY <2>1, <2>2, Zenon
<1>2. IsFiniteSet(Fingers) BY <1>1, FS_Subset, FingerNumbers
<1>3. \A S \in SUBSET Fingers : IsFiniteSet(S) /\ Cardinality(S) \in Nat
  BY <1>2, FS_Subset, FS_CardinalityType
<1> QED BY <1>2, <1>3 DEF N

(* Adding what is not there yet adds up.                                       *)
LEMMA DisjointCount ==
    ASSUME NEW S \in SUBSET Fingers, NEW T \in SUBSET Fingers, S \cap T = {}
    PROVE  Cardinality(S \cup T) = Cardinality(S) + Cardinality(T)
<1>1. IsFiniteSet(S) /\ IsFiniteSet(T) /\ Cardinality(S) \in Nat /\ Cardinality(T) \in Nat
  BY FingersFinite
<1>2. Cardinality(S \cap T) = 0 BY FS_EmptySet
<1>3. Cardinality(S \cup T) = Cardinality(S) + Cardinality(T) - Cardinality(S \cap T)
  BY <1>1, FS_Union
<1> QED BY <1>1, <1>2, <1>3

(* Flags that are about different fingers are as many as the fingers.          *)
LEMMA NamedCount ==
    ASSUME toCapture \in Seq(Fingers),
           \A i, j \in DOMAIN toCapture : toCapture[i] = toCapture[j] => i = j,
           NEW I \in SUBSET DOMAIN toCapture
    PROVE  /\ Named(I) \in SUBSET Fingers
           /\ IsFiniteSet(I)
           /\ Cardinality(Named(I)) = Cardinality(I)
<1>1. Named(I) = {toCapture[i] : i \in I} BY DEF Named
<1>2. \A i \in I : toCapture[i] \in Fingers OBVIOUS
<1>3. IsFiniteSet(I)
  <2>1. DOMAIN toCapture = 1..Len(toCapture) /\ Len(toCapture) \in Int OBVIOUS
  <2>2. IsFiniteSet(1..Len(toCapture)) BY <2>1, FS_Interval
  <2> QED BY <2>1, <2>2, FS_Subset
<1>4. ExistsBijection(I, Named(I))
  <2> DEFINE g == [i \in I |-> toCapture[i]]
  <2>1. g \in Bijection(I, Named(I))
    BY <1>1 DEF Bijection, Injection, Surjection, IsInjective
  <2> QED BY <2>1 DEF ExistsBijection
<1> QED BY <1>1, <1>2, <1>3, <1>4, FS_Bijection

(* Whatever finger is clicked, it and its partner are of the panel.            *)
LEMMA AskedAreFingers ==
    ASSUME NEW f \in Fingers PROVE fingerToCapture(f) \in Seq(Fingers)
<1>1. CASE \A p \in Pairs : f \notin {p[1], p[2]}
  <2>1. PairOf(f) = <<f>> BY <1>1 DEF PairOf
  <2>2. fingerToCapture(f) = <<f>> BY <2>1 DEF fingerToCapture
  <2> QED BY <2>2
<1>2. CASE \E p \in Pairs : f \in {p[1], p[2]}
  <2>1. PairOf(f) \in Pairs /\ f \in {PairOf(f)[1], PairOf(f)[2]} BY <1>2 DEF PairOf
  <2>2. PICK a, b : PairOf(f) = <<a, b>> BY <2>1 DEF Pairs
  <2>3. <<a, b>>[1] = a /\ <<a, b>>[2] = b /\ Len(<<a, b>>) = 2 OBVIOUS
  <2>4. a \in Fingers /\ b \in Fingers
    <3>1. f = a \/ f = b BY <2>1, <2>2, <2>3
    <3>2. a \in Fingers <=> b \in Fingers
      BY <2>1, <2>2, <2>3, EnrolmentAssumption DEF EnrolmentAssumption
    <3> QED BY <3>1, <3>2
  <2>5. fingerToCapture(f) \in {<<a>>, <<b>>, <<a, b>>} BY <2>2, <2>3 DEF fingerToCapture
  <2>6. <<a>> \in Seq(Fingers) /\ <<b>> \in Seq(Fingers) /\ <<a, b>> \in Seq(Fingers)
    BY <2>4
  <2> QED BY <2>5, <2>6, Zenon
<1> QED BY <1>1, <1>2

(* A click on a finger that is not done asks for one or two such fingers.      *)
LEMMA AskedAreUndone ==
    ASSUME NEW f \in Fingers, ~isDone(f)
    PROVE  LET s == fingerToCapture(f) IN
           /\ \A i \in DOMAIN s : ~isDone(s[i])
           /\ \A i, j \in DOMAIN s : s[i] = s[j] => i = j
<1>1. CASE \A p \in Pairs : f \notin {p[1], p[2]}
  <2>1. PairOf(f) = <<f>> BY <1>1 DEF PairOf
  <2>2. fingerToCapture(f) = <<f>> BY <2>1 DEF fingerToCapture
  <2> QED BY <2>2
<1>2. CASE \E p \in Pairs : f \in {p[1], p[2]}
  <2>1. PairOf(f) \in Pairs /\ f \in {PairOf(f)[1], PairOf(f)[2]}
    BY <1>2 DEF PairOf
  <2>2. PICK a, b : /\ PairOf(f) = <<a, b>> /\ a # b
                    /\ a \in 1..10 /\ b \in 1..10
                    /\ f \in {a, b}
    BY <2>1 DEF Pairs
  <2>3. a \in Fingers /\ b \in Fingers
    <3>1. PairOf(f)[1] = a /\ PairOf(f)[2] = b BY <2>2
    <3>2. a \in Fingers <=> b \in Fingers BY <2>1, <3>1, EnrolmentAssumption DEF EnrolmentAssumption
    <3> QED BY <2>2, <3>2
  <2>4. /\ Len(<<a, b>>) = 2 /\ <<a, b>>[1] = a /\ <<a, b>>[2] = b OBVIOUS
  <2>5. CASE isDone(a) \/ isDone(b)
    <3>1. fingerToCapture(f) = <<f>>
      <4>1. CASE a < b
        BY <2>2, <2>4, <2>5, <4>1 DEF fingerToCapture
      <4>2. CASE b < a
        BY <2>2, <2>4, <2>5, <4>2 DEF fingerToCapture
      <4> QED BY <2>2, <4>1, <4>2
    <3> QED BY <3>1
  <2>6. CASE ~isDone(a) /\ ~isDone(b)
    <3>1. fingerToCapture(f) = <<a, b>>
      BY <2>2, <2>4, <2>6 DEF fingerToCapture
    <3> QED BY <3>1, <2>2, <2>3, <2>4, <2>6
  <2> QED BY <2>5, <2>6
<1> QED BY <1>1, <1>2

(* What passes the test of sendEnrollment() is complete: enough fingers are    *)
(* captured, and the icons that led there were earned.                         *)
LEMMA SentIsDone ==
    ASSUME TypeOK, Sound, sendEnrollment PROVE captured \cup absent = Fingers
<1>1. nCaptured >= minimumFingerprintsRequired /\ ine # {}
  BY DEF sendEnrollment, EnoughCaptured, Sound, IneIsEarned
<1>2. N \in Nat /\ minimumFingerprintsRequired \in Nat
  BY FingersFinite, FingerNumbers DEF N
<1>3. nCaptured + nAbsent >= N BY <1>1, <1>2 DEF Sound, IneIsEarned, TypeOK
<1>4. captured \cup absent \in SUBSET Fingers BY DEF TypeOK
<1>5. Cardinality(captured \cup absent) = nCaptured + nAbsent
  BY DisjointCount DEF Sound, RecordedOnce, TypeOK
<1>6. IsFiniteSet(Fingers) BY FingersFinite
<1>7. Cardinality(captured \cup absent) <= N
  BY <1>4, <1>6, FS_Subset DEF N
<1>8. Cardinality(captured \cup absent) = Cardinality(Fingers)
  <2>1. nCaptured \in Nat /\ nAbsent \in Nat BY DEF TypeOK
  <2> QED BY <1>2, <1>3, <1>5, <1>7, <2>1 DEF N
<1> QED BY <1>4, <1>6, <1>8, FS_Subset

(* ----------------------------------- types --------------------------------- *)
LEMMA InitTypeOK == Init => TypeOK
<1> SUFFICES ASSUME Init PROVE TypeOK OBVIOUS
<1>1. attempts \in [Fingers -> Nat] BY DEF Init
<1>2. toCapture \in Seq(Fingers) /\ requests \in Seq(Seq(Fingers)) BY DEF Init
<1> QED BY <1>1, <1>2 DEF Init, TypeOK

(* An answer names only fingers of the panel, however late it comes.           *)
LEMMA AnswerTypeOK ==
    ASSUME TypeOK, NEW n \in 1..2, NEW flags \in [1..n -> BOOLEAN], addCapture(flags)
    PROVE  TypeOK'
<1>1. \A I : Named(I) \in SUBSET Fingers BY DEF Named, TypeOK
<1>2. \A I \in SUBSET DOMAIN flags : Cardinality(I) \in Nat
  <2>1. DOMAIN flags = 1..n /\ n \in Int /\ 1 \in Int OBVIOUS
  <2>2. IsFiniteSet(1..n)
    <3>1. \A a, b \in Int : IsFiniteSet(a..b) BY FS_Interval
    <3> QED BY <2>1, <3>1, Zenon
  <2> QED BY <2>1, <2>2, FS_Subset, FS_CardinalityType
<1> DEFINE good  == {i \in Read(flags) : flags[i]}
           third == Thirds(flags) \cap Read(flags)
<1>3. Cardinality(good) \in Nat /\ Cardinality(third) \in Nat
  <2>1. good \in SUBSET DOMAIN flags /\ third \in SUBSET DOMAIN flags BY DEF Read
  <2> QED BY <1>2, <2>1
<1>4. captured' \in SUBSET Fingers /\ absent' \in SUBSET Fingers
  BY <1>1 DEF addCapture, TypeOK
<1>5. nCaptured' \in Nat /\ nAbsent' \in Nat
  <2>1. nCaptured' = nCaptured + Cardinality(good) /\ nAbsent' = nAbsent + Cardinality(third)
    BY DEF addCapture
  <2> HIDE DEF good, third
  <2> QED BY <1>3, <2>1 DEF TypeOK
<1>6. attempts' \in [Fingers -> Nat] BY DEF addCapture, TypeOK
<1>7. disabled' \in SUBSET Fingers BY <1>1 DEF addCapture, enableNextFingerOption, TypeOK
<1>8. menus' \in SUBSET Fingers /\ hands' \in SUBSET {RH, LH}
  BY DEF addCapture, TypeOK
<1>9. ine' \in SUBSET Fingers BY <1>4 DEF addCapture, TypeOK
<1>10. requests' \in Seq(Seq(Fingers)) BY DEF addCapture, TypeOK
<1>11. /\ UNCHANGED <<toCapture, verifying, sending, confirm, saves, overlapped, handLate>>
       /\ waiting' = FALSE /\ panel' \in BOOLEAN
  BY DEF addCapture, history, TypeOK
<1> QED BY <1>4, <1>5, <1>6, <1>7, <1>8, <1>9, <1>10, <1>11 DEF TypeOK

LEMMA ClickTypeOK ==
    ASSUME TypeOK, NEW f \in Fingers,
           captureFingerprints(f) \/ addAbsenceMenu(f) \/ confirmAbsence(f) \/ sendToIne(f)
    PROVE  TypeOK'
<1>1. CASE captureFingerprints(f)
  <2>1. toCapture' \in Seq(Fingers) BY <1>1, AskedAreFingers DEF captureFingerprints
  <2>2. requests' \in Seq(Seq(Fingers))
    <3>1. requests' = Append(requests, toCapture') \/ requests' = requests
      BY <1>1 DEF captureFingerprints
    <3>2. requests \in Seq(Seq(Fingers)) BY DEF TypeOK
    <3>3. Append(requests, toCapture') \in Seq(Seq(Fingers)) BY <2>1, <3>2
    <3> QED BY <3>1, <3>2, <3>3, Zenon
  <2>3. waiting' \in BOOLEAN /\ panel' \in BOOLEAN /\ UNCHANGED <<disabled, menus, hands>>
    BY <1>1 DEF captureFingerprints, panelState, TypeOK
  <2>4. overlapped' \in BOOLEAN /\ handLate' = handLate BY <1>1 DEF captureFingerprints
  <2>5. UNCHANGED <<scan, verifying, sending, confirm, ine, saves>>
    BY <1>1 DEF captureFingerprints
  <2> QED BY <2>1, <2>2, <2>3, <2>4, <2>5 DEF TypeOK, scan
<1>2. CASE addAbsenceMenu(f)
  <2>1. confirm' \in Fingers BY <1>2 DEF addAbsenceMenu
  <2>2. UNCHANGED <<scan, panelState, services, waiting, ine, saves, history>>
    BY <1>2 DEF addAbsenceMenu
  <2> QED BY <2>1, <2>2 DEF TypeOK, scan, panelState, services, history
<1>3. CASE confirmAbsence(f)
  <2>1. nAbsent' \in Nat BY <1>3 DEF confirmAbsence, TypeOK
  <2>2. /\ absent' \in SUBSET Fingers /\ disabled' \in SUBSET Fingers
        /\ menus' \in SUBSET Fingers /\ ine' \in SUBSET Fingers
    BY <1>3 DEF confirmAbsence, enableNextFingerOption, TypeOK
  <2>3. /\ confirm' = NoConfirm
        /\ UNCHANGED <<captured, nCaptured, attempts, hands, panel, services, waiting, saves,
                       history>>
    BY <1>3 DEF confirmAbsence
  <2> QED BY <2>1, <2>2, <2>3 DEF TypeOK, services, history
<1>4. CASE sendToIne(f)
  <2>1. verifying' \in Nat BY <1>4 DEF sendToIne, TypeOK
  <2>2. UNCHANGED <<scan, panelState, toCapture, requests, sending, waiting, confirm, ine,
                    saves, history>>
    BY <1>4 DEF sendToIne
  <2> QED BY <2>1, <2>2 DEF TypeOK, scan, panelState, history
<1> QED BY <1>1, <1>2, <1>3, <1>4

LEMMA HandTypeOK ==
    ASSUME TypeOK, NEW h \in {RH, LH}, removeHandOptions(h) \/ confirmHand(h)
    PROVE  TypeOK'
<1>1. CASE removeHandOptions(h)
  <2>1. UNCHANGED <<scan, panelState, services, waiting, ine, saves, history>>
    BY <1>1 DEF removeHandOptions
  <2>2. confirm' \in {RH, LH} BY <1>1 DEF removeHandOptions
  <2> QED BY <2>1, <2>2 DEF TypeOK, scan, panelState, services, history
<1>2. CASE confirmHand(h)
  <2>1. Hand(h) \in SUBSET Fingers BY DEF Hand
  <2>2. Cardinality(Hand(h)) \in Nat BY <2>1, FingersFinite
  <2>3. nAbsent' \in Nat BY <1>2, <2>2 DEF confirmHand, TypeOK
  <2>4. /\ absent' \in SUBSET Fingers /\ disabled' \in SUBSET Fingers
        /\ menus' \in SUBSET Fingers /\ hands' \in SUBSET {RH, LH}
    BY <1>2, <2>1 DEF confirmHand, TypeOK
  <2>5. handLate' \in BOOLEAN BY <1>2 DEF confirmHand
  <2>6. /\ confirm' = NoConfirm
        /\ UNCHANGED <<captured, nCaptured, attempts, panel, services, waiting, ine, saves,
                       overlapped>>
    BY <1>2 DEF confirmHand
  <2> QED BY <2>3, <2>4, <2>5, <2>6 DEF TypeOK, services
<1> QED BY <1>1, <1>2

LEMMA ServiceTypeOK ==
    ASSUME TypeOK,
           \/ cancelConfirm
           \/ \E ok \in BOOLEAN : addcaptureIndex(ok) \/ addEnrollment(ok)
           \/ sendEnrollment
    PROVE  TypeOK'
<1>1. CASE cancelConfirm
  BY <1>1 DEF cancelConfirm, TypeOK, scan, panelState, services, history
<1>2. ASSUME NEW ok \in BOOLEAN, addcaptureIndex(ok) PROVE TypeOK'
  <2>1. verifying' \in Nat /\ saves' \in Nat BY <1>2 DEF addcaptureIndex, TypeOK
  <2>2. /\ waiting' = FALSE
        /\ UNCHANGED <<scan, panelState, toCapture, requests, sending, confirm, ine, history>>
    BY <1>2 DEF addcaptureIndex
  <2> QED BY <2>1, <2>2 DEF TypeOK, scan, panelState, history
<1>3. ASSUME NEW ok \in BOOLEAN, addEnrollment(ok) PROVE TypeOK'
  <2>1. sending' \in Nat BY <1>3 DEF addEnrollment, TypeOK
  <2>2. /\ waiting' = FALSE /\ panel' \in BOOLEAN
        /\ UNCHANGED <<scan, disabled, menus, hands, toCapture, requests, verifying, confirm,
                       ine, saves, history>>
    BY <1>3 DEF addEnrollment
  <2> QED BY <2>1, <2>2 DEF TypeOK, scan, history
<1>4. CASE sendEnrollment
  <2>1. sending' \in Nat BY <1>4 DEF sendEnrollment, TypeOK
  <2>2. waiting' \in BOOLEAN /\ panel' \in BOOLEAN /\ UNCHANGED <<disabled, menus, hands>>
    BY <1>4 DEF sendEnrollment, panelState, TypeOK
  <2>3. UNCHANGED <<scan, toCapture, requests, verifying, confirm, ine, saves, history>>
    BY <1>4 DEF sendEnrollment
  <2> QED BY <2>1, <2>2, <2>3 DEF TypeOK, scan, history
<1> QED BY <1>1, <1>2, <1>3, <1>4

LEMMA StepTypeOK == TypeOK /\ [Next]_vars => TypeOK'
<1> SUFFICES ASSUME TypeOK, [Next]_vars PROVE TypeOK' OBVIOUS
<1>1. CASE UNCHANGED vars
  BY <1>1 DEF vars, scan, panelState, services, history, TypeOK
<1>2. CASE Next
  BY <1>2, ClickTypeOK, AnswerTypeOK, HandTypeOK, ServiceTypeOK DEF Next
<1> QED BY <1>1, <1>2

(* ------------------------------ captures alone ----------------------------- *)
(* The waiting dialog keeps a capture alone, until one is begun beside another *)
(* answer that is due.                                                         *)
LEMMA StepAlone ==
    ASSUME TypeOK, ~overlapped => CaptureIsAlone, [Next]_vars, ~overlapped'
    PROVE  ~overlapped /\ CaptureIsAlone /\ CaptureIsAlone'
<1>1. ~overlapped /\ CaptureIsAlone
  <2>1. overlapped => overlapped'
    BY DEF Next, captureFingerprints, addCapture, addAbsenceMenu, confirmAbsence,
       removeHandOptions, confirmHand, cancelConfirm, sendToIne, addcaptureIndex,
       sendEnrollment, addEnrollment, history, vars
  <2> QED BY <2>1
<1>2. CASE UNCHANGED vars BY <1>1, <1>2 DEF vars, services, CaptureIsAlone
<1>3. ASSUME NEW f \in Fingers, captureFingerprints(f) PROVE CaptureIsAlone'
  <2>1. requests = <<>> /\ confirm = NoConfirm
    BY <1>1, <1>3 DEF captureFingerprints, Idle, CaptureIsAlone
  <2>2. verifying = 0 /\ sending = 0
    <3>1. ~(verifying > 0) /\ ~(sending > 0) BY <1>3, Zenon DEF captureFingerprints
    <3> QED BY <3>1 DEF TypeOK
  <2>3. UNCHANGED <<verifying, sending, confirm>> BY <1>3 DEF captureFingerprints
  <2>4. \/ requests' = Append(requests, toCapture') /\ waiting'
        \/ requests' = requests
    BY <1>3 DEF captureFingerprints
  <2>5. toCapture' \in Seq(Fingers) BY <1>3, AskedAreFingers DEF captureFingerprints
  <2>6. Append(<<>>, toCapture') = <<toCapture'>> BY <2>5
  <2> QED BY <2>1, <2>2, <2>3, <2>4, <2>6 DEF CaptureIsAlone
<1>4. ASSUME NEW n \in 1..2, NEW flags \in [1..n -> BOOLEAN], addCapture(flags)
      PROVE  CaptureIsAlone'
  <2>1. requests = <<toCapture>> BY <1>1, <1>4 DEF addCapture, CaptureIsAlone
  <2>2. requests' = <<>> BY <1>4, <2>1 DEF addCapture
  <2> QED BY <2>2 DEF CaptureIsAlone
<1>5. CASE \/ \E f \in Fingers : addAbsenceMenu(f) \/ confirmAbsence(f) \/ sendToIne(f)
           \/ \E h \in {RH, LH} : removeHandOptions(h) \/ confirmHand(h)
           \/ cancelConfirm \/ sendEnrollment
           \/ \E ok \in BOOLEAN : addcaptureIndex(ok) \/ addEnrollment(ok)
  <2>1. requests = <<>>
    <3>1. ~waiting \/ verifying > 0 \/ sending > 0
      BY <1>5 DEF addAbsenceMenu, confirmAbsence, sendToIne, removeHandOptions, confirmHand,
         cancelConfirm, sendEnrollment, addcaptureIndex, addEnrollment, Idle
    <3> QED BY <1>1, <3>1 DEF CaptureIsAlone
  <2>2. requests' = requests
    BY <1>5 DEF addAbsenceMenu, confirmAbsence, sendToIne, removeHandOptions, confirmHand,
       cancelConfirm, sendEnrollment, addcaptureIndex, addEnrollment, services
  <2> QED BY <1>1, <2>1, <2>2 DEF CaptureIsAlone
<1> QED BY <1>1, <1>2, <1>3, <1>4, <1>5 DEF Next

(* ------------------------------ a sound register --------------------------- *)
LEMMA CaptureSound ==
    ASSUME TypeOK, CaptureIsAlone, Sound, NEW f \in Fingers, captureFingerprints(f)
    PROVE  Sound'
<1> USE DEF Sound
<1>1. ~isDone(f) BY DEF captureFingerprints, DoneIsOffPanel, isDone
<1>2. UNCHANGED <<scan, disabled, menus, hands, verifying, sending, confirm, ine, saves>>
  BY DEF captureFingerprints, panelState
<1>3. RecordedOnce' /\ TriedThrice' BY <1>2 DEF RecordedOnce, TriedThrice, scan
<1>4. AsksUndone'
  <2>1. /\ \A i \in DOMAIN toCapture' : ~isDone(toCapture'[i])
        /\ \A i, j \in DOMAIN toCapture' : toCapture'[i] = toCapture'[j] => i = j
    BY <1>1, AskedAreUndone DEF captureFingerprints
  <2> QED BY <1>2, <2>1 DEF AsksUndone, isDone, scan
<1>5. DoneIsOffPanel' BY <1>2 DEF DoneIsOffPanel, isDone, scan
<1>6. ConfirmStands' BY <1>2 DEF ConfirmStands
<1>7. IneIsEarned' BY <1>2 DEF IneIsEarned, scan
<1> QED BY <1>3, <1>4, <1>5, <1>6, <1>7

LEMMA AnswerSound ==
    ASSUME TypeOK, CaptureIsAlone, Sound,
           NEW n \in 1..2, NEW flags \in [1..n -> BOOLEAN], addCapture(flags)
    PROVE  Sound'
<1> USE DEF Sound
<1> DEFINE good  == {i \in Read(flags) : flags[i]}
           bad   == {i \in Read(flags) : ~flags[i]}
           third == Thirds(flags) \cap Read(flags)
           ok    == Named(good)
           gone  == Named(third)
<1>1. /\ requests # <<>> /\ requests = <<toCapture>>
      /\ verifying = 0 /\ sending = 0 /\ confirm = NoConfirm
      /\ \A i \in DOMAIN toCapture : ~isDone(toCapture[i])
      /\ \A i, j \in DOMAIN toCapture : toCapture[i] = toCapture[j] => i = j
  BY DEF addCapture, CaptureIsAlone, AsksUndone
<1>2. requests' = <<>> /\ Head(requests) = toCapture BY <1>1 DEF addCapture
<1>3. DOMAIN flags = DOMAIN toCapture BY <1>2 DEF addCapture
<1>4. toCapture \in Seq(Fingers) BY DEF TypeOK
<1>5. /\ good \in SUBSET DOMAIN toCapture
      /\ bad \in SUBSET DOMAIN toCapture
      /\ third \in SUBSET bad
  BY <1>3 DEF Read, Thirds
<1>6. /\ ok \in SUBSET Fingers /\ Cardinality(ok) = Cardinality(good)
      /\ gone \in SUBSET Fingers /\ Cardinality(gone) = Cardinality(third)
  BY <1>1, <1>4, <1>5, NamedCount
<1>7. /\ ok = {toCapture[i] : i \in good}
      /\ gone = {toCapture[i] : i \in third}
      /\ Named(bad) = {toCapture[i] : i \in bad}
  BY <1>5 DEF Named
<1>8. good \cap third = {} BY <1>5
<1>9. ok \cap gone = {} 
  <2> SUFFICES ASSUME NEW i \in good, NEW j \in third, toCapture[i] = toCapture[j] PROVE FALSE
    BY <1>7
  <2>1. i \in DOMAIN toCapture /\ j \in DOMAIN toCapture BY <1>5
  <2>2. i = j BY <1>1, <2>1
  <2> QED BY <1>8, <2>2
<1>10. /\ ok \cap (captured \cup absent) = {}
       /\ gone \cap (captured \cup absent) = {}
  <2>1. \A i \in good \cup third : toCapture[i] \notin captured \cup absent
    BY <1>1, <1>5 DEF isDone
  <2>2. \A x \in ok : x \notin captured \cup absent BY <2>1, <1>7
  <2>3. \A x \in gone : x \notin captured \cup absent BY <2>1, <1>7
  <2> HIDE DEF ok, gone
  <2> QED BY <2>2, <2>3
<1>11. /\ captured' = captured \cup ok /\ nCaptured' = nCaptured + Cardinality(good)
       /\ absent' = absent \cup gone /\ nAbsent' = nAbsent + Cardinality(third)
       /\ attempts' = [f \in Fingers |-> attempts[f] + IF f \in Named(bad) THEN 1 ELSE 0]
       /\ disabled' = disabled \cup gone
       /\ menus' = menus \ Named(good \cup third)
       /\ hands' = hands \ {HandOf(f) : f \in ok}
       /\ ine' \in {ine, ine \cup captured'}
       /\ (ine' # ine => nCaptured' + nAbsent' = N)
       /\ panel' \in BOOLEAN
       /\ UNCHANGED <<toCapture, verifying, sending, confirm, saves>> /\ waiting' = FALSE
  BY DEF addCapture, enableNextFingerOption, TypeOK
<1>12. Named(good \cup third) = ok \cup gone BY DEF Named
<1> HIDE DEF good, bad, third, ok, gone
<1>13. /\ captured \in SUBSET Fingers /\ absent \in SUBSET Fingers
       /\ Cardinality(ok) \in Nat /\ Cardinality(gone) \in Nat
  BY <1>6, FingersFinite DEF TypeOK
<1>14. TypeOK' BY AnswerTypeOK
<1>15. RecordedOnce'
  <2>1. captured' \cap absent' = {} BY <1>9, <1>10, <1>11 DEF RecordedOnce
  <2>2. nCaptured' = Cardinality(captured')
    BY <1>6, <1>10, <1>11, <1>13, DisjointCount DEF RecordedOnce
  <2>3. nAbsent' = Cardinality(absent')
    BY <1>6, <1>10, <1>11, <1>13, DisjointCount DEF RecordedOnce
  <2> QED BY <2>1, <2>2, <2>3 DEF RecordedOnce
<1>16. TriedThrice'
  <2> SUFFICES ASSUME NEW f \in Fingers
               PROVE  attempts'[f] <= 3 /\ (attempts'[f] = 3 => f \in absent')
    BY DEF TriedThrice
  <2>1. attempts[f] \in Nat /\ attempts[f] <= 3 /\ (attempts[f] = 3 => f \in absent)
    BY DEF TriedThrice, TypeOK
  <2>2. CASE f \notin Named(bad)
    BY <1>11, <2>1, <2>2
  <2>3. CASE f \in Named(bad)
    <3>1. PICK i \in bad : toCapture[i] = f BY <2>3, <1>7
    <3>2. attempts[f] <= 2 BY <1>1, <1>5, <2>1, <3>1 DEF isDone
    <3>3. attempts[f] = 2 => f \in gone
      <4> SUFFICES ASSUME attempts[f] = 2 PROVE f \in gone OBVIOUS
      <4>1. i \in third
        BY <1>3, <1>5, <3>1 DEF bad, third, Thirds
      <4> QED BY <4>1, <3>1, <1>7
    <3>4. attempts'[f] = attempts[f] + 1 BY <1>11, <2>3
    <3> QED BY <2>1, <3>2, <3>3, <3>4, <1>11
  <2> QED BY <2>2, <2>3
<1>17. DoneIsOffPanel'
  <2>1. absent' \subseteq disabled' BY <1>11 DEF DoneIsOffPanel
  <2>2. \A f \in menus' : ~isDone(f)'
    BY <1>11, <1>12 DEF DoneIsOffPanel, isDone
  <2>3. \A h \in hands' : Hand(h) \cap captured' = {}
    <3> SUFFICES ASSUME NEW h \in hands', NEW f \in Hand(h), f \in captured' PROVE FALSE
      OBVIOUS
    <3>1. h \in hands /\ h \in {RH, LH} BY <1>11 DEF TypeOK
    <3>2. f \notin captured BY <3>1 DEF DoneIsOffPanel
    <3>3. f \in ok BY <3>2, <1>11
    <3>4. f \in Int BY FingerNumbers DEF Hand
    <3>5. HandOf(f) = h BY <3>1, <3>4 DEF Hand, HandOf, RH, LH
    <3> QED BY <3>3, <3>5, <1>11
  <2> QED BY <2>1, <2>2, <2>3 DEF DoneIsOffPanel
<1>18. AsksUndone' BY <1>2 DEF AsksUndone
<1>19. ConfirmStands'
  <2>1. confirm' = NoConfirm BY <1>1, <1>11
  <2>2. NoConfirm \notin Fingers /\ NoConfirm \notin {RH, LH}
    BY FingerNumbers DEF NoConfirm, RH, LH
  <2> QED BY <2>1, <2>2 DEF ConfirmStands
<1>20. IneIsEarned'
  <2>1. nCaptured' >= nCaptured /\ nAbsent' >= nAbsent
    BY <1>6, <1>11, <1>13 DEF TypeOK
  <2>2. N \in Nat /\ minimumFingerprintsRequired \in Nat
    BY FingersFinite, FingerNumbers DEF N
  <2>3. ine' # {} => \/ nCaptured' + nAbsent' >= N
                     \/ nAbsent' >= N - minimumFingerprintsRequired
    BY <1>11, <1>14, <2>1, <2>2 DEF IneIsEarned, TypeOK
  <2>4. verifying' > 0 \/ saves' > 0 => ine' # {}
    BY <1>11 DEF IneIsEarned
  <2>5. sending' = 0 BY <1>1, <1>11
  <2> QED BY <2>3, <2>4, <2>5 DEF IneIsEarned
<1> QED BY <1>15, <1>16, <1>17, <1>18, <1>19, <1>20

LEMMA AbsenceSound ==
    ASSUME TypeOK, CaptureIsAlone, Sound, NEW f \in Fingers, confirmAbsence(f)
    PROVE  Sound'
<1> USE DEF Sound
<1>1. confirm = f /\ requests = <<>> /\ f \in menus /\ ~isDone(f)
  BY DEF confirmAbsence, ConfirmStands, DoneIsOffPanel, CaptureIsAlone
<1>2. /\ absent' = absent \cup {f} /\ nAbsent' = nAbsent + 1
      /\ disabled' = disabled \cup {f}
      /\ menus' \subseteq menus \ {f}
      /\ confirm' = NoConfirm
      /\ \/ ine' = ine
         \/ /\ nAbsent + 1 = N - minimumFingerprintsRequired
            /\ ine' = ine \cup captured
      /\ UNCHANGED <<captured, nCaptured, attempts, hands, services, waiting, saves>>
  BY DEF confirmAbsence, enableNextFingerOption
<1>3. RecordedOnce'
  <2>1. Cardinality(absent \cup {f}) = Cardinality(absent) + 1
    <3>1. absent \in SUBSET Fingers /\ {f} \in SUBSET Fingers /\ absent \cap {f} = {}
      BY <1>1 DEF TypeOK, isDone
    <3>2. Cardinality({f}) = 1 BY FS_Singleton
    <3> QED BY <3>1, <3>2, DisjointCount
  <2> QED BY <1>1, <1>2, <2>1 DEF RecordedOnce, isDone
<1>4. TriedThrice' BY <1>2 DEF TriedThrice
<1>5. AsksUndone' BY <1>1, <1>2 DEF AsksUndone, services
<1>6. DoneIsOffPanel' BY <1>2 DEF DoneIsOffPanel, isDone
<1>7. ConfirmStands'
  <2>1. NoConfirm \notin Fingers /\ NoConfirm \notin {RH, LH}
    BY FingerNumbers DEF NoConfirm, RH, LH
  <2> QED BY <1>2, <2>1 DEF ConfirmStands
<1>8. IneIsEarned'
  <2>1. N \in Nat /\ minimumFingerprintsRequired \in Nat
    BY FingersFinite, FingerNumbers DEF N
  <2>2. captured \cup absent = Fingers => captured \cup absent' = Fingers BY <1>2
  <2> QED BY <1>2, <2>1, <2>2 DEF IneIsEarned, TypeOK, services
<1> QED BY <1>3, <1>4, <1>5, <1>6, <1>7, <1>8

(* A hand that is given up before any absence is recorded finger by finger.    *)
LEMMA HandSound ==
    ASSUME TypeOK, CaptureIsAlone, Sound, NEW h \in {RH, LH}, confirmHand(h), ~handLate'
    PROVE  Sound'
<1> USE DEF Sound
<1>1. /\ confirm = h /\ requests = <<>>
      /\ h \in hands /\ absent = {}
      /\ Hand(h) \cap captured = {} /\ Hand(h) \in SUBSET Fingers
  BY DEF confirmHand, ConfirmStands, DoneIsOffPanel, CaptureIsAlone, Hand
<1>2. /\ absent' = Hand(h) /\ nAbsent' = nAbsent + Cardinality(Hand(h))
      /\ Hand(h) \subseteq disabled'
      /\ menus' \subseteq menus \ Hand(h)
      /\ hands' = {} /\ confirm' = NoConfirm
      /\ UNCHANGED <<captured, nCaptured, attempts, services, waiting, ine, saves>>
  BY <1>1 DEF confirmHand
<1>3. Cardinality(Hand(h)) \in Nat BY <1>1, FingersFinite
<1>4. nAbsent = 0 BY <1>1, FS_EmptySet DEF RecordedOnce
<1>5. RecordedOnce' BY <1>1, <1>2, <1>3, <1>4 DEF RecordedOnce
<1>6. TriedThrice' BY <1>1, <1>2 DEF TriedThrice
<1>7. AsksUndone' BY <1>1, <1>2 DEF AsksUndone, services
<1>8. DoneIsOffPanel' BY <1>2 DEF DoneIsOffPanel, isDone
<1>9. ConfirmStands'
  <2>1. NoConfirm \notin Fingers /\ NoConfirm \notin {RH, LH}
    BY FingerNumbers DEF NoConfirm, RH, LH
  <2> QED BY <1>2, <2>1 DEF ConfirmStands
<1>10. IneIsEarned'
  <2>1. N \in Nat /\ minimumFingerprintsRequired \in Nat
    BY FingersFinite, FingerNumbers DEF N
  <2>2. captured \cup absent = Fingers => captured \cup absent' = Fingers BY <1>1, <1>2
  <2> QED BY <1>2, <1>3, <2>1, <2>2 DEF IneIsEarned, TypeOK, services
<1> QED BY <1>5, <1>6, <1>7, <1>8, <1>9, <1>10

(* The clicks that only open or close a confirmation.                          *)
LEMMA ConfirmSound ==
    ASSUME Sound,
           \/ \E f \in Fingers : addAbsenceMenu(f)
           \/ \E h \in {RH, LH} : removeHandOptions(h)
           \/ cancelConfirm
    PROVE  Sound'
<1> USE DEF Sound
<1>1. /\ UNCHANGED <<scan, panelState, services, waiting, ine, saves>>
      /\ \/ confirm' \in Fingers /\ confirm' \in menus
         \/ confirm' \in {RH, LH} /\ confirm' \in hands
         \/ confirm' = NoConfirm
  BY DEF addAbsenceMenu, removeHandOptions, cancelConfirm
<1>2. RecordedOnce' /\ TriedThrice' BY <1>1 DEF RecordedOnce, TriedThrice, scan
<1>3. AsksUndone' BY <1>1 DEF AsksUndone, isDone, scan, services
<1>4. DoneIsOffPanel' BY <1>1 DEF DoneIsOffPanel, isDone, scan, panelState
<1>5. ConfirmStands'
  <2>1. /\ NoConfirm \notin Fingers /\ NoConfirm \notin {RH, LH}
        /\ \A f \in Fingers : f \notin {RH, LH}
    BY FingerNumbers DEF NoConfirm, RH, LH
  <2> QED BY <1>1, <2>1 DEF ConfirmStands, panelState
<1>6. IneIsEarned' BY <1>1 DEF IneIsEarned, scan, services
<1> QED BY <1>2, <1>3, <1>4, <1>5, <1>6

(* Verification and sending record no finger.                                  *)
LEMMA ServiceSound ==
    ASSUME TypeOK, Sound,
           \/ \E f \in Fingers : sendToIne(f)
           \/ \E ok \in BOOLEAN : addcaptureIndex(ok) \/ addEnrollment(ok)
           \/ sendEnrollment
    PROVE  Sound'
<1> USE DEF Sound
<1>1. UNCHANGED <<scan, disabled, menus, hands, toCapture, requests, confirm, ine>>
  BY DEF sendToIne, addcaptureIndex, addEnrollment, sendEnrollment, panelState
<1>2. verifying' > 0 \/ saves' > 0 => ine # {}
  BY DEF sendToIne, addcaptureIndex, addEnrollment, sendEnrollment, IneIsEarned, TypeOK
<1>3. sending' > 0 => captured \cup absent = Fingers
  <2>1. CASE sendEnrollment BY <2>1, SentIsDone
  <2>2. CASE ~sendEnrollment
    BY <2>2 DEF sendToIne, addcaptureIndex, addEnrollment, IneIsEarned, TypeOK
  <2> QED BY <2>1, <2>2
<1>4. RecordedOnce' /\ TriedThrice' BY <1>1 DEF RecordedOnce, TriedThrice, scan
<1>5. AsksUndone' BY <1>1 DEF AsksUndone, isDone, scan
<1>6. DoneIsOffPanel' BY <1>1 DEF DoneIsOffPanel, isDone, scan
<1>7. ConfirmStands' BY <1>1 DEF ConfirmStands
<1>8. IneIsEarned' BY <1>1, <1>2, <1>3 DEF IneIsEarned, scan
<1> QED BY <1>4, <1>5, <1>6, <1>7, <1>8

LEMMA StepSound ==
    ASSUME IInv, [Next]_vars, ~Spoilt'
    PROVE  ~Spoilt /\ CaptureIsAlone /\ Sound /\ Sound'
<1>1. ~Spoilt /\ CaptureIsAlone /\ Sound
  <2>1. ~overlapped /\ CaptureIsAlone BY StepAlone DEF IInv, Spoilt
  <2>2. handLate => handLate'
    BY DEF Next, captureFingerprints, addCapture, addAbsenceMenu, confirmAbsence,
       removeHandOptions, confirmHand, cancelConfirm, sendToIne, addcaptureIndex,
       sendEnrollment, addEnrollment, history, vars
  <2> QED BY <2>1, <2>2 DEF IInv, Spoilt
<1>2. TypeOK /\ ~handLate' BY DEF IInv, Spoilt
<1>3. CASE UNCHANGED vars
  BY <1>1, <1>3 DEF vars, scan, panelState, services, Sound, RecordedOnce, TriedThrice,
     AsksUndone, DoneIsOffPanel, ConfirmStands, IneIsEarned, isDone
<1>4. CASE \E f \in Fingers : captureFingerprints(f) BY <1>1, <1>2, <1>4, CaptureSound
<1>5. CASE \E f \in Fingers : confirmAbsence(f) BY <1>1, <1>2, <1>5, AbsenceSound
<1>6. CASE \E n \in 1..2 : \E flags \in [1..n -> BOOLEAN] : addCapture(flags)
  BY <1>1, <1>2, <1>6, AnswerSound
<1>7. CASE \E h \in {RH, LH} : confirmHand(h) BY <1>1, <1>2, <1>7, HandSound
<1>8. CASE \/ \E f \in Fingers : addAbsenceMenu(f)
           \/ \E h \in {RH, LH} : removeHandOptions(h)
           \/ cancelConfirm
  BY <1>1, <1>8, ConfirmSound
<1>9. CASE \/ \E f \in Fingers : sendToIne(f)
           \/ \E ok \in BOOLEAN : addcaptureIndex(ok) \/ addEnrollment(ok)
           \/ sendEnrollment
  BY <1>1, <1>2, <1>9, ServiceSound
<1> QED BY <1>1, <1>3, <1>4, <1>5, <1>6, <1>7, <1>8, <1>9 DEF Next

LEMMA InitIInv == Init => IInv
<1> SUFFICES ASSUME Init PROVE IInv OBVIOUS
<1>1. TypeOK BY InitTypeOK
<1>2. RecordedOnce BY FS_EmptySet DEF Init, RecordedOnce
<1>3. TriedThrice BY DEF Init, TriedThrice
<1>4. DoneIsOffPanel BY DEF Init, DoneIsOffPanel, isDone
<1>5. CaptureIsAlone /\ AsksUndone BY DEF Init, CaptureIsAlone, AsksUndone
<1>6. ConfirmStands
  <2>1. confirm \notin Fingers BY FingerNumbers DEF Init
  <2>2. confirm \notin {RH, LH} BY DEF Init, NoConfirm, RH, LH
  <2> QED BY <2>1, <2>2 DEF ConfirmStands
<1>7. IneIsEarned BY DEF Init, IneIsEarned
<1> QED BY <1>1, <1>2, <1>3, <1>4, <1>5, <1>6, <1>7 DEF IInv, Sound

LEMMA StepIInv == IInv /\ [Next]_vars => IInv'
<1> SUFFICES ASSUME IInv, [Next]_vars PROVE IInv' OBVIOUS
<1>1. TypeOK' BY StepTypeOK DEF IInv
<1>2. ~overlapped' => CaptureIsAlone' BY StepAlone DEF IInv
<1>3. ~Spoilt' => Sound' BY StepSound
<1> QED BY <1>1, <1>2, <1>3 DEF IInv

(* --------------------------------- theorems -------------------------------- *)
LEMMA Inductive == Spec => []IInv
BY InitIInv, StepIInv, PTL DEF Spec

(* The variables of the page keep their types, in any order of clicks and      *)
(* answers.                                                                    *)
THEOREM EnrolmentTypeCorrect == Spec => []TypeOK
<1>1. IInv => TypeOK BY DEF IInv
<1> QED BY <1>1, Inductive, PTL

(* Unless a capture overlapped another answer, an answer is read against the   *)
(* fingers that were asked for (addCapture), hands given up late or not.       *)
THEOREM AnswersAreMatched == Spec => []AnswersMatch
<1>1. IInv => AnswersMatch BY DEF IInv, CaptureIsAlone, AnswersMatch, CaptureIsNamed
<1> QED BY <1>1, Inductive, PTL

(* Unless one of the two orders spoilt it, fingersCaptured and absencesJson    *)
(* together hold no finger twice.                                              *)
THEOREM FingersAreOnce == Spec => []FingerOnce
<1>1. IInv => FingerOnce BY DEF IInv, Sound, FingerOnce
<1> QED BY <1>1, Inductive, PTL

(* Unless one of the two orders spoilt the register, no finger is tried a      *)
(* fourth time, and one that failed thrice is absent.                          *)
THEOREM AttemptsAreThree == Spec => []ThreeAttempts
<1>1. IInv => ThreeAttempts BY DEF IInv, Sound, ThreeAttempts
<1> QED BY <1>1, Inductive, PTL

(* sendEnrollment() sends only what is complete, or what was spoilt.           *)
THEOREM SentAreComplete == Spec => SentIsComplete
<1>1. IInv /\ [Next]_vars
        => [sending' > sending => Spoilt \/ captured \cup absent = Fingers]_vars
  <2> SUFFICES ASSUME IInv, Next, sending' > sending, ~Spoilt
               PROVE  captured \cup absent = Fingers
    OBVIOUS
  <2>1. CASE sendEnrollment BY <2>1, SentIsDone DEF IInv
  <2>2. CASE ~sendEnrollment
    <3>1. sending' = sending \/ sending' = sending - 1
      BY <2>2 DEF Next, captureFingerprints, addCapture, addAbsenceMenu, confirmAbsence,
         removeHandOptions, confirmHand, cancelConfirm, sendToIne, addcaptureIndex,
         addEnrollment, services
    <3> QED BY <3>1 DEF IInv, TypeOK
  <2> QED BY <2>1, <2>2
<1> QED BY <1>1, Inductive, PTL DEF Spec, SentIsComplete

(* An answer, an absence or a hand given up only adds to the fingers that are  *)
(* decided; all else leaves them alone.                                        *)
LEMMA RegisterStep ==
    ASSUME IInv, IInv', [Next]_vars, ~Spoilt'
    PROVE  Register!Next \/ UNCHANGED <<captured, absent, sending>>
<1> DEFINE Goal == Register!Next \/ UNCHANGED <<captured, absent, sending>>
<1>0. TypeOK /\ Sound /\ TypeOK' /\ Sound' BY StepSound DEF IInv
<1>1. captured' \cup absent' \subseteq Fingers /\ captured' \cap absent' = {}
  BY <1>0 DEF Sound, TypeOK, RecordedOnce
<1>2. ASSUME NEW n \in 1..2, NEW flags \in [1..n -> BOOLEAN], addCapture(flags) PROVE Goal
  <2>1. captured \subseteq captured' /\ absent \subseteq absent' /\ sending' = sending
    BY <1>2 DEF addCapture
  <2> QED BY <1>1, <2>1 DEF Register!Next, Register!Decide
<1>3. ASSUME NEW f \in Fingers, confirmAbsence(f) PROVE Goal
  <2>1. captured' = captured /\ absent \subseteq absent' /\ sending' = sending
    BY <1>3 DEF confirmAbsence, services
  <2> QED BY <1>1, <2>1 DEF Register!Next, Register!Decide
<1>4. ASSUME NEW h \in {RH, LH}, confirmHand(h) PROVE Goal
  <2>1. captured' = captured /\ absent \subseteq absent' /\ sending' = sending
    BY <1>4 DEF confirmHand, services
  <2> QED BY <1>1, <2>1 DEF Register!Next, Register!Decide
<1>5. CASE sendEnrollment
  <2>1. captured' = captured /\ absent' = absent
    BY <1>5 DEF sendEnrollment, scan
  <2>2. captured \in SUBSET Fingers /\ Cardinality(captured) >= minimumFingerprintsRequired
    BY <1>0, <1>5 DEF sendEnrollment, EnoughCaptured, Sound, RecordedOnce, TypeOK
  <2>3. sending' > sending \/ sending' = sending
    BY <1>0, <1>5 DEF sendEnrollment, TypeOK
  <2>4. captured \cup absent = Fingers BY <1>0, <1>5, SentIsDone
  <2>5. CASE sending' > sending BY <2>1, <2>2, <2>4, <2>5 DEF Register!Next, Register!Send
  <2> QED BY <2>1, <2>3, <2>5
<1>6. ASSUME NEW ok \in BOOLEAN, addEnrollment(ok) PROVE Goal
  BY <1>6 DEF addEnrollment, scan, Register!Next, Register!Answer
<1>7. CASE \/ \E f \in Fingers : captureFingerprints(f) \/ addAbsenceMenu(f) \/ sendToIne(f)
           \/ \E h \in {RH, LH} : removeHandOptions(h)
           \/ cancelConfirm
           \/ \E ok \in BOOLEAN : addcaptureIndex(ok)
           \/ UNCHANGED vars
  BY <1>7 DEF captureFingerprints, addAbsenceMenu, sendToIne, removeHandOptions, cancelConfirm,
     addcaptureIndex, vars, scan, services
<1> QED BY <1>2, <1>3, <1>4, <1>5, <1>6, <1>7 DEF Next

(* Until one of the two orders spoils the register, what the page decides      *)
(* stays decided, and only a complete register is sent.                        *)
THEOREM ImplementsRegister == Spec => FollowsRegister
<1>1. Init => Register!Init BY DEF Init, Register!Init
<1>2. IInv /\ IInv' /\ [Next]_vars
        => [Spoilt' \/ Register!Next]_<<captured, absent, sending>>
  BY RegisterStep
<1>3. Spec => []IInv BY Inductive
<1> QED BY <1>1, <1>2, <1>3, PTL DEF Spec, FollowsRegister
================================================================================
