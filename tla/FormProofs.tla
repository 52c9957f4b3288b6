---------------------------- MODULE FormProofs -----------------------------
(* The schedule form, the listing form, the settings form and the search,  *)
(* for every number of inputs, requests, photos and pictures.              *)
EXTENDS MCPages, SequenceFacts

-----------------------------------------------------------------------------
(* The schedule form. Coordinates are only set together with their         *)
(* address, and every change of the text drops them; what is sent was      *)
(* captured in one step.                                                   *)

ScheduleInv ==
  /\ ScheduleTypeOK
  /\ debounce => addressQuery \in Searchable
  /\ CoordsAreTheAddress
  /\ SentIsOnePlace
-----------------------------------------------------------------------------
LEMMA NoneTyped == NoSubmission \in Submission /\ NoSubmission.at = "none"
  BY DEF NoSubmission, Submission, Steps, Location, Texts

LEMMA ScheduleStart == ScheduleInit => ScheduleInv
<1> SUFFICES ASSUME ScheduleInit PROVE ScheduleInv
  OBVIOUS
<1>1. 0 \in 0..MaxInputs
  BY ScheduleFormAssumption
<1>2. place \in Location /\ addressQuery \in Texts
  BY DEF ScheduleInit, Location, Texts, Searchable
<1>3. submission \in Submission /\ SentIsOnePlace
  BY DEF ScheduleInit, NoSubmission, Submission, Steps, Location, Texts, SentIsOnePlace
<1>4. debounce \in BOOLEAN /\ (debounce => addressQuery \in Searchable)
  BY DEF ScheduleInit, Debounced
<1> QED  BY <1>1, <1>2, <1>3, <1>4 DEF ScheduleInit, ScheduleInv, ScheduleTypeOK, CoordsAreTheAddress

LEMMA SearchTyped ==
  ASSUME ScheduleTypeOK, NEW text \in Searchable, searchAddresses(text)
  PROVE  /\ addressResults' \subseteq Places
         /\ showAddressResults' \in BOOLEAN /\ isSearchingAddress' \in BOOLEAN
         /\ searches' \subseteq Searchable
  BY DEF ScheduleTypeOK, searchAddresses

LEMMA InputTyped == ScheduleTypeOK /\ Input => inputs' \in 0..MaxInputs
  BY ScheduleFormAssumption DEF ScheduleTypeOK, Input

(* A step that leaves the submission alone. *)
LEMMA NotSent ==
  ASSUME ScheduleInv, UNCHANGED submission
  PROVE  SentIsOnePlace'
  BY DEF ScheduleInv, SentIsOnePlace

LEMMA ScheduleStep == ScheduleInv /\ [ScheduleNext]_scheduleVars => ScheduleInv'
<1> SUFFICES ASSUME ScheduleInv, [ScheduleNext]_scheduleVars PROVE ScheduleInv'
  OBVIOUS
<1> USE DEF ScheduleInv
<1>1. ASSUME NEW text \in Texts, handleAddressInputChange(text) PROVE ScheduleInv'
  <2>1. ScheduleTypeOK'
    BY <1>1, InputTyped DEF handleAddressInputChange, ScheduleTypeOK, Debounced
  <2> QED  BY <1>1, <2>1, NotSent DEF handleAddressInputChange, Debounced, CoordsAreTheAddress
<1>2. CASE DebouncedSearch
  BY <1>2, SearchTyped, NotSent DEF DebouncedSearch, ScheduleTypeOK, CoordsAreTheAddress
<1>3. ASSUME NEW text \in searches, SearchAnswered(text) PROVE ScheduleInv'
  <2>1. ScheduleTypeOK'
    BY <1>3, ScheduleFormAssumption DEF SearchAnswered, ScheduleTypeOK, address
  <2> QED  BY <1>3, <2>1, NotSent DEF SearchAnswered, address, CoordsAreTheAddress
<1>4. CASE handleClickOutside
  BY <1>4, NotSent DEF handleClickOutside, ScheduleTypeOK, address, CoordsAreTheAddress
<1>5. CASE Focus
  BY <1>5, NotSent DEF Focus, ScheduleTypeOK, address, CoordsAreTheAddress
<1>6. ASSUME NEW p \in Places, handleAddressSelect(p) PROVE ScheduleInv'
  BY <1>6, NotSent DEF handleAddressSelect, ScheduleTypeOK, Texts, Searchable, CoordsAreTheAddress
<1>7. ASSUME NEW method \in {"address", "gps"}, handleLocationMethodChange(method)
      PROVE ScheduleInv'
  <2>1. inputs' \in 0..MaxInputs
    BY <1>7, InputTyped DEF handleLocationMethodChange
  <2>2. /\ addressResults' \subseteq Places
        /\ showAddressResults' \in BOOLEAN /\ isSearchingAddress' \in BOOLEAN
        /\ searches' \subseteq Searchable
    <3>1. CASE method = "address" /\ addressQuery \in Searchable
      BY <1>7, <3>1, SearchTyped DEF handleLocationMethodChange
    <3>2. CASE ~(method = "address" /\ addressQuery \in Searchable)
      BY <1>7, <3>2 DEF handleLocationMethodChange, results, ScheduleTypeOK
    <3> QED  BY <3>1, <3>2
  <2>3. debounce' \in BOOLEAN
    BY <1>7 DEF handleLocationMethodChange, ScheduleTypeOK, Debounced
  <2> QED  BY <1>7, <2>1, <2>2, <2>3, NotSent
           DEF handleLocationMethodChange, ScheduleTypeOK, Debounced, CoordsAreTheAddress
<1>8. CASE handleDaySelect
  BY <1>8, NotSent DEF handleDaySelect, ScheduleTypeOK, results, address, CoordsAreTheAddress
<1>9. CASE submit
  <2>1. PICK at \in {"locating", "sent"}, coords \in Location :
          /\ submission' = [at |-> at, address |-> addressQuery, coords |-> coords]
          /\ at = "sent" => coords = addressQuery
    BY <1>9 DEF submit, ScheduleTypeOK, Location, CoordsAreTheAddress
  <2>2. addressQuery \in Texts
    BY DEF ScheduleTypeOK
  <2>3. submission' \in Submission
    BY <2>1, <2>2 DEF Submission, Steps
  <2>4. submission'.at = at /\ submission'.coords = coords /\ submission'.address = addressQuery
    BY <2>1
  <2>5. SentIsOnePlace'
    BY <2>1, <2>4 DEF SentIsOnePlace
  <2> QED  BY <1>9, <2>3, <2>5 DEF submit, ScheduleTypeOK, results, address, CoordsAreTheAddress
<1>10. CASE getLoc
  <2>1. submission' \in Submission /\ SentIsOnePlace'
    <3>1. CASE submission' = NoSubmission
      BY <3>1, NoneTyped DEF SentIsOnePlace
    <3>2. CASE submission' = [submission EXCEPT !.at = "sent", !.coords = Device]
      <4>1. submission' \in Submission
        BY <3>2 DEF ScheduleTypeOK, Submission, Steps, Location
      <4>2. /\ submission'.coords = Device
            /\ submission'.address = submission.address
        BY <3>2 DEF ScheduleTypeOK, Submission
      <4> QED  BY <1>10, <4>1, <4>2 DEF getLoc, SentIsOnePlace
    <3> QED  BY <1>10, <3>1, <3>2 DEF getLoc
  <2> QED  BY <1>10, <2>1 DEF getLoc, ScheduleTypeOK, results, address, CoordsAreTheAddress
<1>11. CASE AnswerSchedule
  <2>1. PICK done \in BOOLEAN : \E outcome \in Outcomes(done) :
          /\ place' = IF done /\ SentLocation # NoPlace THEN SentLocation ELSE place
          /\ submission' = [submission EXCEPT !.at = outcome]
    BY <1>11 DEF AnswerSchedule
  <2>2. submission' \in Submission /\ place' \in Location
    BY <2>1 DEF ScheduleTypeOK, Submission, Steps, Outcomes, SentLocation, Location
  <2>3. SentIsOnePlace'
    BY <1>11, <2>1 DEF AnswerSchedule, ScheduleTypeOK, Submission, SentIsOnePlace
  <2> QED  BY <1>11, <2>2, <2>3
           DEF AnswerSchedule, ScheduleTypeOK, results, address, CoordsAreTheAddress
<1>12. CASE SubmitAnswered
  <2>1. submission' \in Submission /\ SentIsOnePlace'
    <3>1. CASE submission' = NoSubmission
      BY <3>1, NoneTyped DEF SentIsOnePlace
    <3>2. CASE submission' = [submission EXCEPT !.at = "left"]
      <4>1. submission' \in Submission
        BY <3>2 DEF ScheduleTypeOK, Submission, Steps, Location
      <4>2. /\ submission'.coords = submission.coords
            /\ submission'.address = submission.address
        BY <3>2 DEF ScheduleTypeOK, Submission
      <4> QED  BY <1>12, <4>1, <4>2 DEF SubmitAnswered, SentIsOnePlace
    <3> QED  BY <1>12, <3>1, <3>2 DEF SubmitAnswered
  <2> QED  BY <1>12, <2>1 DEF SubmitAnswered, ScheduleTypeOK, results, address, CoordsAreTheAddress
<1>13. CASE UNCHANGED scheduleVars
  BY <1>13, NotSent DEF scheduleVars, ScheduleTypeOK, results, address, CoordsAreTheAddress
<1> QED  BY <1>1, <1>2, <1>3, <1>4, <1>5, <1>6, <1>7, <1>8, <1>9, <1>10, <1>11, <1>12, <1>13
     DEF ScheduleNext

THEOREM ScheduleCorrect == ScheduleSpec => []ScheduleInv
  BY ScheduleStart, ScheduleStep, PTL DEF ScheduleSpec

(* Whatever searches are answered late, the form keeps only coordinates of *)
(* the address it shows.                                                   *)
THEOREM CoordsAreOfTheAddress == ScheduleSpec => []CoordsAreTheAddress
<1>1. ScheduleInv => CoordsAreTheAddress
  BY DEF ScheduleInv
<1> QED  BY <1>1, ScheduleCorrect, PTL

(* An address is sent with its own coordinates or with the device's.       *)
THEOREM OnePlaceIsSent == ScheduleSpec => []SentIsOnePlace
<1>1. ScheduleInv => SentIsOnePlace
  BY DEF ScheduleInv
<1> QED  BY <1>1, ScheduleCorrect, PTL

-----------------------------------------------------------------------------
(* The listing form. What was fetched and what is still to be fetched are  *)
(* always what was shown at the click.                                     *)

(* Of a form that is being sent, what was fetched and what is still to be  *)
(* fetched are together what was shown; files are read only if there is    *)
(* room for them.                                                          *)
CollectedOfShown ==
  \A n \in Submits :
    submits[n].at = "collecting" => submits[n].photos \o submits[n].todo = submits[n].shown
RoomForReading == Len(hrefs) + Cardinality(reading) <= MaxPreviews
ProductFormInv == ProductFormTypeOK /\ CollectedOfShown /\ SentIsShown /\ RoomForReading
-----------------------------------------------------------------------------
LEMMA PhotosAreSequences ==
  /\ \A h \in Photos : h \in Seq(Images) /\ Len(h) <= MaxPreviews
  /\ \A h \in Seq(Images) : Len(h) <= MaxPreviews => h \in Photos
<1>1. MaxPreviews \in Nat
  BY ProductFormAssumption
<1>2. ASSUME NEW h \in Seq(Images), Len(h) <= MaxPreviews
      PROVE  h \in Photos
  <2>1. Len(h) \in 0..MaxPreviews /\ h \in [1..Len(h) -> Images]
    BY <1>1, <1>2
  <2> QED  BY <2>1 DEF Photos
<1>3. ASSUME NEW h \in Photos
      PROVE  h \in Seq(Images) /\ Len(h) <= MaxPreviews
  <2>1. PICK n \in 0..MaxPreviews : h \in [1..n -> Images]
    BY DEF Photos
  <2>2. Len(h) = n /\ h \in Seq(Images)
    BY <1>1, <2>1
  <2> QED  BY <1>1, <2>1, <2>2
<1> QED  BY <1>2, <1>3

(* The head of one sequence moved to the end of another. *)
LEMMA MoveHead ==
  ASSUME NEW S, NEW p \in Seq(S), NEW t \in Seq(S), t # <<>>
  PROVE  /\ Append(p, Head(t)) \in Seq(S) /\ Len(Append(p, Head(t))) = Len(p) + 1
         /\ Tail(t) \in Seq(S) /\ Len(Tail(t)) = Len(t) - 1
         /\ Append(p, Head(t)) \o Tail(t) = p \o t
<1> DEFINE a == Append(p, Head(t))
           b == Tail(t)
<1>1. Head(t) \in S /\ Head(t) = t[1] /\ Len(t) \in Nat /\ Len(t) >= 1 /\ Len(p) \in Nat
  OBVIOUS
<1>2. /\ a \in Seq(S) /\ Len(a) = Len(p) + 1
      /\ \A j \in 1..Len(p) : a[j] = p[j]
      /\ a[Len(p) + 1] = t[1]
  BY <1>1, AppendProperties
<1>3. b \in Seq(S) /\ Len(b) = Len(t) - 1 /\ \A j \in 1..Len(t) - 1 : b[j] = t[j + 1]
  BY HeadTailProperties
<1> HIDE DEF a, b
<1>4. /\ a \o b \in Seq(S) /\ Len(a \o b) = Len(a) + Len(b)
      /\ \A j \in 1..Len(a) + Len(b) : (a \o b)[j] = IF j <= Len(a) THEN a[j] ELSE b[j - Len(a)]
  BY ONLY <1>2, <1>3, ConcatProperties
<1>5. /\ p \o t \in Seq(S) /\ Len(p \o t) = Len(p) + Len(t)
      /\ \A j \in 1..Len(p) + Len(t) : (p \o t)[j] = IF j <= Len(p) THEN p[j] ELSE t[j - Len(p)]
  BY ONLY ConcatProperties, p \in Seq(S), t \in Seq(S)
<1>6. Len(a \o b) = Len(p \o t)
  BY ONLY <1>1, <1>2, <1>3, <1>4, <1>5
<1>7. ASSUME NEW j \in 1..Len(p) + Len(t)
      PROVE  (a \o b)[j] = (p \o t)[j]
  <2>0. (a \o b)[j] = (IF j <= Len(a) THEN a[j] ELSE b[j - Len(a)])
        /\ (p \o t)[j] = (IF j <= Len(p) THEN p[j] ELSE t[j - Len(p)])
    BY <1>4, <1>5, <1>6
  <2>1. CASE j <= Len(p)
    <3>1. j <= Len(a) /\ j \in 1..Len(p)
      BY ONLY <1>1, <1>2, <1>7, <2>1
    <3> QED  BY <1>2, <2>0, <2>1, <3>1
  <2>2. CASE j = Len(p) + 1
    <3>1. j <= Len(a) /\ ~(j <= Len(p)) /\ j - Len(p) = 1
      BY ONLY <1>1, <1>2, <2>2
    <3> QED  BY <1>2, <2>0, <2>2, <3>1
  <2>3. CASE j > Len(p) + 1
    <3>1. ~(j <= Len(a)) /\ ~(j <= Len(p)) /\ j - Len(a) \in 1..Len(t) - 1
          /\ (j - Len(a)) + 1 = j - Len(p)
      BY ONLY <1>1, <1>2, <1>7, <2>3
    <3> QED  BY <1>3, <2>0, <3>1
  <2>4. j <= Len(p) \/ j = Len(p) + 1 \/ j > Len(p) + 1
    BY ONLY <1>1, <1>7
  <2> QED  BY ONLY <2>1, <2>2, <2>3, <2>4
<1>8. a \o b = p \o t
  BY ONLY <1>4, <1>5, <1>6, <1>7, SeqEqual
<1> QED  BY <1>2, <1>3, <1>8 DEF a, b

LEMMA NothingSubmitted == NoSubmit \in Submit /\ NoSubmit.at = "none"
<1>1. <<>> \in Photos
  <2>1. <<>> \in Seq(Images) /\ Len(<<>>) = 0 /\ 0 <= MaxPreviews
    BY ProductFormAssumption
  <2> QED  BY <2>1, PhotosAreSequences
<1>2. (CHOOSE p \in Prices : TRUE) \in Prices /\ (CHOOSE q \in Quantities : TRUE) \in Quantities
  BY ProductFormAssumption
<1> QED  BY <1>1, <1>2 DEF NoSubmit, Submit

(* Files and previews. *)
LEMMA ReadingIsFinite ==
  ASSUME ProductFormTypeOK
  PROVE  IsFiniteSet(reading) /\ Cardinality(reading) \in Nat
  BY FS_Subset, FS_CardinalityType, ProductFormAssumption DEF ProductFormTypeOK

LEMMA ProductFormStart == ProductFormInit => ProductFormInv
<1> SUFFICES ASSUME ProductFormInit PROVE ProductFormInv
  OBVIOUS
<1>1. PICK i \in Images, p \in Prices :
        /\ hrefs = IF editMode THEN <<i>> ELSE <<>>
        /\ files = {i}
        /\ listings = [l \in Listings |-> [price |-> p, photos |-> <<i>>, days |-> {}]]
  BY DEF ProductFormInit
<1>2. hrefs \in Seq(Images) /\ Len(hrefs) \in 0..1
  BY <1>1
<1>3. hrefs \in Photos /\ listened \in 0..MaxPreviews /\ Len(hrefs) <= MaxPreviews
  <2>1. MaxPreviews \in Nat /\ MaxPreviews >= 1 /\ listened = 0
    BY ProductFormAssumption DEF ProductFormInit
  <2>2. Len(hrefs) <= MaxPreviews /\ listened \in 0..MaxPreviews
    BY ONLY <1>2, <2>1
  <2> QED  BY <1>2, <2>2, PhotosAreSequences
<1>4. listings \in [Listings -> ListingRow]
  <2>1. ASSUME NEW l \in Listings
        PROVE  [price |-> p, photos |-> <<i>>, days |-> {}] \in ListingRow
    BY DEF ListingRow
  <2> QED  BY <1>1, <2>1
<1>5. submits \in [Submits -> Submit] /\ \A n \in Submits : submits[n].at = "none"
  BY NothingSubmitted DEF ProductFormInit
<1>6. changes \in 0..MaxChanges /\ reading = {} /\ Cardinality(reading) = 0
  BY ProductFormAssumption, FS_EmptySet DEF ProductFormInit
<1>7. /\ editMode \in BOOLEAN /\ away \in BOOLEAN /\ shared \in BOOLEAN
      /\ withId \subseteq Images /\ created \in Seq(ListingRow)
  <2>1. editMode \in BOOLEAN /\ away \in BOOLEAN
    BY DEF ProductFormInit
  <2>2. shared \in BOOLEAN
    BY DEF ProductFormInit
  <2>3. withId \subseteq Images
    BY <1>2 DEF ProductFormInit, ToSet
  <2>4. created \in Seq(ListingRow)
    BY DEF ProductFormInit
  <2> QED  BY <2>1, <2>2, <2>3, <2>4
<1>8. ProductFormTypeOK
  BY <1>1, <1>3, <1>4, <1>5, <1>6, <1>7 DEF ProductFormInit, ProductFormTypeOK
<1>9. RoomForReading
  BY <1>2, <1>3, <1>6 DEF RoomForReading
<1> QED  BY <1>5, <1>8, <1>9 DEF ProductFormInv, CollectedOfShown, SentIsShown

LEMMA ChangesTyped == ProductFormTypeOK /\ Changes => changes' \in 0..MaxChanges
  BY ProductFormAssumption DEF ProductFormTypeOK, Changes

(* A step that leaves the submissions, or the previews, alone. *)
LEMMA SameSubmits ==
  ASSUME ProductFormInv, UNCHANGED submits
  PROVE  CollectedOfShown' /\ SentIsShown'
  BY DEF ProductFormInv, CollectedOfShown, SentIsShown

LEMMA SamePreviews ==
  ASSUME ProductFormInv, UNCHANGED <<hrefs, reading>>
  PROVE  RoomForReading'
  BY DEF ProductFormInv, RoomForReading

(* One submission changes. *)
LEMMA SubmitChanges ==
  ASSUME ProductFormInv, NEW n \in Submits, NEW s \in Submit,
         submits' = [submits EXCEPT ![n] = s],
         s.at = "collecting" => s.photos \o s.todo = s.shown,
         s.at \in {"sent", "resolved", "rejected"} => s.photos = s.shown
  PROVE  /\ submits' \in [Submits -> Submit]
         /\ CollectedOfShown' /\ SentIsShown'
<1>1. \A m \in Submits : submits'[m] = IF m = n THEN s ELSE submits[m]
  BY DEF ProductFormInv, ProductFormTypeOK
<1>2. submits' \in [Submits -> Submit]
  BY DEF ProductFormInv, ProductFormTypeOK
<1> QED  BY <1>1, <1>2 DEF ProductFormInv, CollectedOfShown, SentIsShown

(* A submission that only moves on. *)
LEMMA SubmitMoves ==
  ASSUME ProductFormInv, NEW n \in Submits,
         NEW at \in {"resolved", "rejected", "failed"},
         submits[n].at \in {"sent", "resolved", "rejected"} \/ at = "failed",
         submits' = [submits EXCEPT ![n].at = at]
  PROVE  /\ submits' \in [Submits -> Submit]
         /\ CollectedOfShown' /\ SentIsShown'
<1> DEFINE s == [submits[n] EXCEPT !.at = at]
<1>1. submits[n] \in Submit
  BY DEF ProductFormInv, ProductFormTypeOK
<1>2. s \in Submit /\ s.at = at /\ s.photos = submits[n].photos /\ s.shown = submits[n].shown
  BY <1>1 DEF Submit
<1>3. submits' = [submits EXCEPT ![n] = s]
  BY DEF ProductFormInv, ProductFormTypeOK
<1>4. at # "failed" => submits[n].photos = submits[n].shown
  BY DEF ProductFormInv, SentIsShown
<1> HIDE DEF s
<1> QED  BY <1>2, <1>3, <1>4, SubmitChanges

LEMMA CollectKeeps ==
  ASSUME ProductFormInv, NEW n \in Submits, Collect(n)
  PROVE  /\ submits' \in [Submits -> Submit]
         /\ CollectedOfShown' /\ SentIsShown'
<1> DEFINE t == submits[n]
<1>1. /\ t \in Submit /\ t.at = "collecting" /\ t.photos \o t.todo = t.shown
      /\ t.photos \in Photos /\ t.todo \in Photos /\ t.shown \in Photos
  BY DEF ProductFormInv, ProductFormTypeOK, CollectedOfShown, Collect, Submit
<1>2. t.photos \in Seq(Images) /\ t.todo \in Seq(Images) /\ Len(t.photos) \in Nat
      /\ Len(t.todo) \in Nat /\ Len(t.shown) <= MaxPreviews
  BY <1>1, PhotosAreSequences
<1>3. CASE t.todo # <<>>
  <2> DEFINE p == Append(t.photos, Head(t.todo))
             r == Tail(t.todo)
             s == [t EXCEPT !.photos = p, !.todo = r]
  <2>1. submits' = [submits EXCEPT ![n] = s]
    BY ONLY <1>3, Collect(n) DEF Collect
  <2>2. /\ p \in Seq(Images) /\ Len(p) = Len(t.photos) + 1
        /\ r \in Seq(Images) /\ Len(r) = Len(t.todo) - 1
        /\ p \o r = t.photos \o t.todo
    BY ONLY <1>2, <1>3, MoveHead
  <2>3. Len(t.photos \o t.todo) = Len(t.photos) + Len(t.todo)
    BY ONLY <1>2, ConcatProperties
  <2> HIDE DEF p, r
  <2>4. Len(p) <= MaxPreviews /\ Len(r) <= MaxPreviews
    <3>1. MaxPreviews \in Nat /\ Len(t.photos) + Len(t.todo) <= MaxPreviews
      BY <1>1, <1>2, <2>3, ProductFormAssumption
    <3>2. /\ Len(p) = Len(t.photos) + 1 /\ Len(r) = Len(t.todo) - 1
          /\ Len(r) \in Nat /\ Len(t.photos) \in Nat /\ Len(t.todo) \in Nat
      BY <1>2, <2>2
    <3>3. \A a, b, m \in Nat : a + b <= m /\ b - 1 \in Nat => a + 1 <= m /\ b - 1 <= m
      BY ONLY SMT
    <3> QED  BY ONLY <3>1, <3>2, <3>3
  <2>5. p \in Photos /\ r \in Photos
    BY ONLY <2>2, <2>4, PhotosAreSequences
  <2>6. s \in Submit /\ s.at = "collecting" /\ s.photos = p /\ s.todo = r /\ s.shown = t.shown
    BY <1>1, <2>5 DEF Submit
  <2> HIDE DEF s, t
  <2> QED  BY <1>1, <2>1, <2>2, <2>6, SubmitChanges
<1>4. CASE t.todo = <<>>
  <2> DEFINE s == [t EXCEPT !.at = "sent", !.remove = IF editMode THEN toRemoveImages ELSE {}]
  <2>1. submits' = [submits EXCEPT ![n] = s]
    BY <1>4 DEF Collect, ProductFormInv, ProductFormTypeOK
  <2>2. toRemoveImages \in SUBSET Images
    BY DEF ProductFormInv, ProductFormTypeOK
  <2>3. s \in Submit /\ s.at = "sent" /\ s.photos = t.photos /\ s.shown = t.shown
    BY <1>1, <2>2 DEF Submit
  <2>4. t.photos \o <<>> = t.photos
    BY <1>2, ConcatEmptySeq
  <2> HIDE DEF s, t
  <2> QED  BY <1>1, <1>4, <2>1, <2>3, <2>4, SubmitChanges
<1> QED  BY <1>3, <1>4

LEMMA ImageReadKeeps ==
  ASSUME ProductFormInv, NEW i \in Images, ImageRead(i)
  PROVE  hrefs' \in Photos /\ reading' \subseteq Images /\ RoomForReading'
<1>1. /\ i \in reading /\ reading' = reading \ {i} /\ hrefs' = Append(hrefs, i)
      /\ hrefs \in Seq(Images) /\ Len(hrefs) \in Nat
      /\ Len(hrefs) + Cardinality(reading) <= MaxPreviews
  BY PhotosAreSequences DEF ImageRead, ProductFormInv, ProductFormTypeOK, RoomForReading
<1>2. Cardinality(reading') = Cardinality(reading) - 1 /\ Cardinality(reading') \in Nat
  BY <1>1, ReadingIsFinite, FS_RemoveElement, FS_CardinalityType DEF ProductFormInv
<1>3. hrefs' \in Seq(Images) /\ Len(hrefs') = Len(hrefs) + 1
  BY <1>1, AppendProperties
<1>4. Len(hrefs') + Cardinality(reading') <= MaxPreviews /\ Len(hrefs') <= MaxPreviews
  <2>1. MaxPreviews \in Nat /\ Cardinality(reading) \in Nat
    BY ProductFormAssumption, ReadingIsFinite DEF ProductFormInv
  <2>2. \A a, b, m \in Nat : a + b <= m /\ b - 1 \in Nat =>
          (a + 1) + (b - 1) <= m /\ a + 1 <= m
    BY ONLY SMT
  <2> QED  BY ONLY <1>1, <1>2, <1>3, <2>1, <2>2
<1> QED  BY <1>1, <1>3, <1>4, PhotosAreSequences
         DEF RoomForReading, ProductFormInv, ProductFormTypeOK

LEMMA RemoveImageKeeps ==
  ASSUME ProductFormInv, NEW i \in Images, RemoveImage(i)
  PROVE  /\ hrefs' \in Photos /\ RoomForReading'
         /\ listened' \in 0..MaxPreviews /\ shared' \in BOOLEAN
<1>1. /\ hrefs' = Kept(hrefs, Images \ {i}) /\ reading' = reading
      /\ hrefs \in Seq(Images) /\ Len(hrefs) \in Nat /\ Len(hrefs) <= MaxPreviews
      /\ Len(hrefs) + Cardinality(reading) <= MaxPreviews
  BY PhotosAreSequences DEF RemoveImage, ProductFormInv, ProductFormTypeOK, RoomForReading
<1>2. hrefs' \in Seq(Images \cap (Images \ {i})) /\ Len(hrefs') <= Len(hrefs)
  BY <1>1, KeptProperties DEF KeepsUpTo
<1>3. hrefs' \in Seq(Images) /\ Len(hrefs') \in Nat
  BY <1>2
<1>4. Len(hrefs') + Cardinality(reading') <= MaxPreviews /\ Len(hrefs') <= MaxPreviews
  <2>1. MaxPreviews \in Nat /\ Cardinality(reading) \in Nat
    BY ProductFormAssumption, ReadingIsFinite DEF ProductFormInv
  <2>2. \A a, b, c, m \in Nat : a + b <= m /\ c <= a => c + b <= m /\ c <= m
    BY ONLY SMT
  <2> QED  BY ONLY <1>1, <1>2, <1>3, <2>1, <2>2
<1>5. listened' \in 0..MaxPreviews
  <2>1. listened' = Len(hrefs) \/ listened' = listened
    BY DEF RemoveImage, Counted
  <2>2. listened \in 0..MaxPreviews /\ MaxPreviews \in Nat
    BY ProductFormAssumption DEF ProductFormInv, ProductFormTypeOK
  <2> QED  BY ONLY <1>1, <2>1, <2>2
<1>6. shared' \in BOOLEAN
  BY DEF RemoveImage
<1> QED  BY <1>3, <1>4, <1>5, <1>6, PhotosAreSequences DEF RoomForReading

LEMMA ServerTyped ==
  ASSUME ProductFormTypeOK, NEW s \in Submit,
         IF editMode THEN Edit(s) ELSE Create(s)
  PROVE  /\ listings' \in [Listings -> ListingRow] /\ created' \in Seq(ListingRow)
         /\ files' \subseteq Images
<1>1. /\ s.price \in Prices /\ s.days \in SUBSET Days /\ s.photos \in Seq(Images)
      /\ s.remove \subseteq Images
  BY PhotosAreSequences DEF Submit
<1>2. ToSet(s.photos) \subseteq Images
  BY <1>1 DEF ToSet
<1>3. CASE editMode
  <2> DEFINE kept == files \ s.remove
             photos(order) == order \o s.photos
  <2>1. /\ files' = kept \cup ToSet(s.photos) /\ kept \subseteq Images /\ IsFiniteSet(kept)
    BY <1>3, ProductFormAssumption, FS_Subset DEF Edit, ProductFormTypeOK
  <2>2. PICK order \in [1..Cardinality(kept) -> kept] :
          listings' = [l \in Listings |->
            [listings[l] EXCEPT
               !.price = IF ProductOf[l] = s.quantity THEN s.price ELSE @,
               !.photos = IF ProductOf[l] = Mine /\ s.remove \cup ToSet(s.photos) # {}
                            THEN photos(order) ELSE @]]
    BY <1>3 DEF Edit
  <2>3. order \in Seq(Images)
    <3>1. Cardinality(kept) \in Nat
      BY <2>1, FS_CardinalityType
    <3> HIDE DEF kept
    <3>2. order \in [1..Cardinality(kept) -> Images]
      BY <2>1
    <3> QED  BY <3>1, <3>2
  <2>4. photos(order) \in Seq(Images)
    BY <1>1, <2>3, ConcatProperties
  <2> HIDE DEF photos, kept
  <2>5. ASSUME NEW l \in Listings, NEW p, p = photos(order)
        PROVE  [listings[l] EXCEPT
                  !.price = IF ProductOf[l] = s.quantity THEN s.price ELSE @,
                  !.photos = IF ProductOf[l] = Mine /\ s.remove \cup ToSet(s.photos) # {}
                               THEN p ELSE @] \in ListingRow
    <3>1. p \in Seq(Images)
      BY <2>4, <2>5
    <3>2. listings[l] \in ListingRow
      BY DEF ProductFormTypeOK
    <3> QED  BY <1>1, <3>1, <3>2 DEF ListingRow
  <2>6. listings' \in [Listings -> ListingRow]
    BY <2>2, <2>5
  <2>7. created' = created
    BY <1>3 DEF Edit
  <2> QED  BY <1>2, <2>1, <2>6, <2>7 DEF ProductFormTypeOK
<1>4. CASE ~editMode
  <2>1. [price |-> s.price, photos |-> s.photos, days |-> s.days] \in ListingRow
    BY <1>1 DEF ListingRow
  <2> QED  BY <1>4, <2>1, AppendProperties DEF Create, ProductFormTypeOK
<1> QED  BY <1>3, <1>4 DEF ProductFormTypeOK

LEMMA FailureTyped ==
  ASSUME ProductFormTypeOK, NEW s \in Submit,
         IF editMode THEN EditFails(s) ELSE CreateFails
  PROVE  /\ listings' \in [Listings -> ListingRow] /\ created' \in Seq(ListingRow)
         /\ files' \subseteq Images
<1>1. UNCHANGED <<listings, created>>
  BY DEF EditFails, CreateFails, server, ProductFormTypeOK
<1>2. CASE editMode
  <2>1. s.photos \in Seq(Images) /\ files \subseteq Images
    BY PhotosAreSequences DEF Submit, ProductFormTypeOK
  <2>2. ASSUME NEW k \in 0..Len(s.photos)
        PROVE  ToSet(SubSeq(s.photos, 1, k)) \subseteq Images
    <3>1. SubSeq(s.photos, 1, k) \in Seq(Images)
      BY <2>1, SubSeqProperties
    <3> QED  BY <3>1 DEF ToSet
  <2>3. \/ \E removed \in SUBSET s.remove : files' = files \ removed
        \/ \E k \in 0..Len(s.photos) :
             files' = (files \ s.remove) \cup ToSet(SubSeq(s.photos, 1, k))
    BY <1>2 DEF EditFails
  <2> QED  BY <1>1, <2>1, <2>2, <2>3 DEF ProductFormTypeOK
<1>3. CASE ~editMode
  BY <1>1, <1>3 DEF CreateFails, server, ProductFormTypeOK
<1> QED  BY <1>2, <1>3 DEF ProductFormTypeOK

LEMMA ProductFormStep == ProductFormInv /\ [ProductFormNext]_productFormVars => ProductFormInv'
<1> SUFFICES ASSUME ProductFormInv, [ProductFormNext]_productFormVars PROVE ProductFormInv'
  OBVIOUS
<1> USE DEF ProductFormInv
<1>1. ASSUME NEW selected \in SUBSET Images, AddImages(selected) PROVE ProductFormInv'
  <2>1. changes' \in 0..MaxChanges /\ reading' \subseteq Images
    BY <1>1, ChangesTyped DEF AddImages, server, ProductFormTypeOK
  <2>2. ProductFormTypeOK'
    BY <1>1, <2>1 DEF AddImages, server, ProductFormTypeOK
  <2>3. RoomForReading'
    BY <1>1 DEF AddImages, RoomForReading
  <2> QED  BY <1>1, <2>2, <2>3, SameSubmits DEF AddImages
<1>2. ASSUME NEW i \in Images, ImageRead(i) PROVE ProductFormInv'
  <2>1. ProductFormTypeOK'
    BY <1>2, ImageReadKeeps DEF ImageRead, server, ProductFormTypeOK
  <2> QED  BY <1>2, <2>1, ImageReadKeeps, SameSubmits DEF ImageRead
<1>3. ASSUME NEW i \in Images, RemoveImage(i) PROVE ProductFormInv'
  <2>1. changes' \in 0..MaxChanges /\ toRemoveImages' \subseteq Images
    BY <1>3, ChangesTyped DEF RemoveImage, server, ProductFormTypeOK
  <2>2. ProductFormTypeOK'
    BY <1>3, <2>1, RemoveImageKeeps DEF RemoveImage, server, ProductFormTypeOK
  <2> QED  BY <1>3, <2>2, RemoveImageKeeps, SameSubmits DEF RemoveImage
<1>4. ASSUME NEW d \in Days, handleScheduleAdd(d) \/ removeSchedule(d) PROVE ProductFormInv'
  <2>1. changes' \in 0..MaxChanges /\ selectedSchedules' \subseteq Days
    BY <1>4, ChangesTyped DEF handleScheduleAdd, removeSchedule, server, ProductFormTypeOK
  <2>2. ProductFormTypeOK'
    BY <1>4, <2>1 DEF handleScheduleAdd, removeSchedule, server, ProductFormTypeOK
  <2> QED  BY <1>4, <2>2, SameSubmits, SamePreviews DEF handleScheduleAdd, removeSchedule
<1>5. ASSUME NEW n \in Submits, submitProduct(n) PROVE ProductFormInv'
  <2>1. PICK price \in Prices, quantity \in Quantities :
          submits' = [submits EXCEPT ![n] =
            [at |-> "collecting", todo |-> hrefs, photos |-> <<>>, days |-> selectedSchedules,
             remove |-> {}, price |-> price, quantity |-> quantity, shown |-> hrefs]]
    BY <1>5 DEF submitProduct
  <2> DEFINE s == [at |-> "collecting", todo |-> hrefs, photos |-> <<>>,
                   days |-> selectedSchedules, remove |-> {}, price |-> price,
                   quantity |-> quantity, shown |-> hrefs]
  <2>2. <<>> \in Photos /\ hrefs \in Seq(Images)
    BY NothingSubmitted, PhotosAreSequences DEF NoSubmit, Submit, ProductFormTypeOK
  <2>3. <<>> \o hrefs = hrefs
    BY <2>2, ConcatEmptySeq
  <2>4. s \in Submit /\ s.at = "collecting" /\ s.photos \o s.todo = s.shown
    BY <2>2, <2>3 DEF Submit, ProductFormTypeOK
  <2>5. submits' = [submits EXCEPT ![n] = s]
    BY <2>1
  <2> HIDE DEF s
  <2>6. submits' \in [Submits -> Submit] /\ CollectedOfShown' /\ SentIsShown'
    BY <2>4, <2>5, SubmitChanges
  <2> QED  BY <1>5, <2>6, SamePreviews DEF submitProduct, form, server, ProductFormTypeOK
<1>6. ASSUME NEW n \in Submits, Collect(n) PROVE ProductFormInv'
  BY <1>6, CollectKeeps, SamePreviews DEF Collect, form, server, ProductFormTypeOK
<1>7. ASSUME NEW n \in Submits, FetchFails(n) PROVE ProductFormInv'
  BY <1>7, SubmitMoves, SamePreviews DEF FetchFails, form, server, ProductFormTypeOK
<1>8. ASSUME NEW n \in Submits, AnswerSubmit(n) PROVE ProductFormInv'
  <2>1. PICK at \in {"resolved", "rejected"} : submits' = [submits EXCEPT ![n].at = at]
    BY <1>8 DEF AnswerSubmit, Outcomes
  <2>2. submits' \in [Submits -> Submit] /\ CollectedOfShown' /\ SentIsShown'
    BY <1>8, <2>1, SubmitMoves DEF AnswerSubmit
  <2>3. /\ listings' \in [Listings -> ListingRow] /\ created' \in Seq(ListingRow)
        /\ files' \subseteq Images
    BY <1>8, ServerTyped, FailureTyped DEF AnswerSubmit, ProductFormTypeOK
  <2>4. UNCHANGED <<editMode, withId, form, away, changes>>
    BY <1>8 DEF AnswerSubmit
  <2> QED  BY <2>2, <2>3, <2>4, SamePreviews DEF form, ProductFormTypeOK
<1>9. ASSUME NEW n \in Submits, SubmitSettled(n) PROVE ProductFormInv'
  <2>1. away' \in BOOLEAN /\ UNCHANGED <<editMode, withId, form, changes, server>>
    BY <1>9 DEF SubmitSettled
  <2>2. submits' \in [Submits -> Submit] /\ CollectedOfShown' /\ SentIsShown'
    <3>1. CASE away'
      <4>1. UNCHANGED submits
        BY <1>9, <3>1 DEF SubmitSettled, ProductFormTypeOK, Submit
      <4> QED  BY <4>1, SameSubmits DEF ProductFormTypeOK
    <3>2. CASE ~away'
      <4>1. submits' = [submits EXCEPT ![n].at = "failed"]
        BY <1>9, <3>2 DEF SubmitSettled
      <4> QED  BY <4>1, SubmitMoves
    <3> QED  BY <3>1, <3>2
  <2> QED  BY <2>1, <2>2, SamePreviews DEF form, server, ProductFormTypeOK
<1>10. CASE UNCHANGED productFormVars
  BY <1>10, SameSubmits, SamePreviews DEF productFormVars, form, server, ProductFormTypeOK
<1> QED  BY <1>1, <1>2, <1>3, <1>4, <1>5, <1>6, <1>7, <1>8, <1>9, <1>10 DEF ProductFormNext

THEOREM ProductFormCorrect == ProductFormSpec => []ProductFormInv
  BY ProductFormStart, ProductFormStep, PTL DEF ProductFormSpec

(* A submission sends the previews of its click, for any images, clicks    *)
(* and submissions that run side by side.                                  *)
THEOREM ShownIsSent == ProductFormSpec => []SentIsShown
<1>1. ProductFormInv => SentIsShown
  BY DEF ProductFormInv
<1> QED  BY <1>1, ProductFormCorrect, PTL

-----------------------------------------------------------------------------
(* The settings form. Every picture chosen is a new one, and a file is     *)
(* there before a row names it.                                            *)

(* A picture is resized once, is in the form once, and leaves it when a    *)
(* save of it is reported: what a later save can send is not reported.     *)
PicturesAreNew ==
  /\ resizing \subseteq 1..chosen /\ reported \subseteq 1..chosen
  /\ imageFile \in (1..chosen) \cup {NoPicture}
  /\ imageFile \notin resizing \cup reported
  /\ resizing \cap reported = {}
  /\ \A n \in Saves :
       saves[n].image \in (1..chosen) \cup {NoPicture} /\ saves[n].image \notin resizing

(* As long as no save failed in between and no two overlapped: the file of *)
(* the account's picture is there while no picture is being saved, and     *)
(* what is going to be its picture is there before the row is updated.     *)
FilesFollow ==
  ~torn =>
    /\ account /\ (\A n \in Saves : InServer(n) => saves[n].image = NoPicture)
         => avatar \in directory
    /\ \A n \in Saves :
         saves[n].at = "written" /\ saves[n].image # NoPicture => saves[n].image \in directory

SettingsInv == SettingsTypeOK /\ PicturesAreNew /\ FilesFollow
-----------------------------------------------------------------------------
LEMMA NotAPicture == NoPicture \notin Pictures /\ MaxChoices \in Nat
  BY SettingsAssumption

LEMMA SettingsStart == SettingsInit => SettingsInv
<1> SUFFICES ASSUME SettingsInit PROVE SettingsInv
  OBVIOUS
<1>1. SettingsTypeOK
  <2>1. [at |-> "none", image |-> NoPicture, password |-> FALSE] \in Save
    BY DEF Save, Picture
  <2>2. /\ passwords \in BOOLEAN /\ saveSuccess \in BOOLEAN /\ closed \in BOOLEAN
        /\ account \in BOOLEAN /\ torn \in BOOLEAN
    BY DEF SettingsInit
  <2>3. saves \in [Saves -> Save]
    BY <2>1 DEF SettingsInit
  <2>4. deletions \in [Deletions -> {"none", "sent", "resolved", "rejected", "answered"}]
    BY DEF SettingsInit
  <2>5. /\ imageFile \in Pictures \cup {NoPicture} /\ resizing \subseteq Pictures
        /\ chosen \in 0..MaxChoices /\ avatar \in Picture /\ directory \subseteq Picture
        /\ reported \subseteq Picture
    BY NotAPicture DEF SettingsInit, Picture
  <2> QED  BY <2>2, <2>3, <2>4, <2>5 DEF SettingsTypeOK
<1>2. PicturesAreNew
  BY DEF SettingsInit, PicturesAreNew
<1>3. FilesFollow
  BY DEF SettingsInit, FilesFollow
<1> QED  BY <1>1, <1>2, <1>3 DEF SettingsInv

(* A save that moves on, with its picture. *)
LEMMA SaveMoves ==
  ASSUME SettingsTypeOK, NEW n \in Saves,
         NEW at \in {"sent", "emptied", "written", "resolved", "rejected", "answered"},
         saves' = [saves EXCEPT ![n].at = at]
  PROVE  /\ saves' \in [Saves -> Save]
         /\ saves'[n].at = at
         /\ \A m \in Saves : saves'[m].image = saves[m].image
         /\ \A m \in Saves \ {n} : saves'[m] = saves[m]
<1>1. [saves[n] EXCEPT !.at = at] \in Save /\ saves[n] \in Save
  BY DEF SettingsTypeOK, Save
<1>2. \A m \in Saves : saves'[m] = IF m = n THEN [saves[n] EXCEPT !.at = at] ELSE saves[m]
  BY DEF SettingsTypeOK
<1>3. [saves[n] EXCEPT !.at = at].image = saves[n].image
      /\ [saves[n] EXCEPT !.at = at].at = at
  BY <1>1 DEF Save
<1> QED  BY <1>1, <1>2, <1>3 DEF SettingsTypeOK

LEMMA SamePictures ==
  ASSUME PicturesAreNew, UNCHANGED <<picture, reported>>,
         \A m \in Saves : saves'[m].image = saves[m].image
  PROVE  PicturesAreNew'
  BY DEF PicturesAreNew, picture

LEMMA SameFiles ==
  ASSUME FilesFollow, UNCHANGED <<profile, saves>>
  PROVE  FilesFollow'
  BY DEF FilesFollow, profile, InServer

LEMMA SettingsStep == SettingsInv /\ [SettingsNext]_settingsVars => SettingsInv'
<1> SUFFICES ASSUME SettingsInv, [SettingsNext]_settingsVars PROVE SettingsInv'
  OBVIOUS
<1> USE DEF SettingsInv
<1>1. CASE handleFileChange
  <2>1. /\ chosen' = chosen + 1 /\ chosen' \in 0..MaxChoices
        /\ resizing' = resizing \cup {chosen'} /\ chosen' \in Pictures
        /\ chosen \in Nat
    BY <1>1, NotAPicture DEF handleFileChange, SettingsTypeOK, Pictures
  <2>2. SettingsTypeOK'
    BY <1>1, <2>1 DEF handleFileChange, SettingsTypeOK, profile
  <2>3. PicturesAreNew'
    <3>1. chosen' \notin 1..chosen /\ 1..chosen \subseteq 1..chosen' /\ chosen' \in 1..chosen'
          /\ chosen' # NoPicture
      BY <2>1, NotAPicture
    <3> QED  BY <1>1, <2>1, <3>1 DEF handleFileChange, PicturesAreNew
  <2>4. FilesFollow'
    BY <1>1, SameFiles DEF handleFileChange
  <2> QED  BY <2>2, <2>3, <2>4
<1>2. ASSUME NEW c \in Pictures, resizeImage(c) PROVE SettingsInv'
  <2>1. SettingsTypeOK'
    BY <1>2 DEF resizeImage, SettingsTypeOK, profile
  <2>2. PicturesAreNew'
    BY <1>2 DEF resizeImage, PicturesAreNew
  <2>3. FilesFollow'
    BY <1>2, SameFiles DEF resizeImage
  <2> QED  BY <2>1, <2>2, <2>3
<1>3. CASE handleRemoveImage
  <2>1. SettingsTypeOK'
    BY <1>3 DEF handleRemoveImage, SettingsTypeOK, profile
  <2>2. PicturesAreNew'
    <3>1. NoPicture \notin 1..chosen
      BY NotAPicture DEF SettingsTypeOK, Pictures
    <3> QED  BY <1>3, <3>1 DEF handleRemoveImage, PicturesAreNew
  <2>3. FilesFollow'
    BY <1>3, SameFiles DEF handleRemoveImage
  <2> QED  BY <2>1, <2>2, <2>3
<1>4. CASE setPasswords
  <2>1. passwords' \in BOOLEAN
    BY <1>4 DEF setPasswords
  <2>2. SettingsTypeOK'
    BY <1>4, <2>1 DEF setPasswords, SettingsTypeOK, profile, picture
  <2> QED  BY <1>4, <2>2, SamePictures, SameFiles DEF setPasswords
<1>5. ASSUME NEW n \in Saves, handleSubmit(n) PROVE SettingsInv'
  <2> DEFINE new == [at |-> "sent", image |-> imageFile, password |-> passwords]
  <2>1. new \in Save /\ new.at = "sent" /\ new.image = imageFile
    BY DEF Save, SettingsTypeOK, Picture
  <2>2. /\ saves' = [saves EXCEPT ![n] = new] /\ saveSuccess' \in BOOLEAN
        /\ UNCHANGED <<picture, passwords, deletions, closed, profile, reported>>
    BY <1>5 DEF handleSubmit
  <2> HIDE DEF new
  <2>3. /\ saves' \in [Saves -> Save]
        /\ \A m \in Saves : saves'[m] = IF m = n THEN new ELSE saves[m]
    BY <2>1, <2>2 DEF SettingsTypeOK
  <2>4. SettingsTypeOK'
    BY <2>2, <2>3 DEF SettingsTypeOK, profile, picture
  <2>5. PicturesAreNew'
    BY <2>1, <2>2, <2>3 DEF PicturesAreNew, picture
  <2>6. FilesFollow'
    <3>1. saves[n].at = "none"
      BY <1>5 DEF handleSubmit
    <3> QED  BY <2>1, <2>2, <2>3, <3>1 DEF FilesFollow, profile, InServer
  <2> QED  BY <2>4, <2>5, <2>6
<1>6. ASSUME NEW n \in Saves, EmptyDirectory(n) PROVE SettingsInv'
  <2> DEFINE at == IF account THEN "emptied" ELSE "rejected"
  <2>1. /\ at \in {"emptied", "rejected"} /\ saves' = [saves EXCEPT ![n].at = at]
        /\ UNCHANGED <<picture, passwords, saveSuccess, deletions, closed, account, avatar,
                       reported>>
    BY <1>6 DEF EmptyDirectory
  <2>2. /\ saves' \in [Saves -> Save]
        /\ saves'[n].at = at
        /\ \A m \in Saves : saves'[m].image = saves[m].image
        /\ \A m \in Saves \ {n} : saves'[m] = saves[m]
    BY <2>1, SaveMoves
  <2>3. SettingsTypeOK'
    <3>1. torn' \in BOOLEAN /\ directory' \subseteq Picture
      BY <1>6 DEF EmptyDirectory, SettingsTypeOK
    <3> QED  BY <2>1, <2>2, <3>1 DEF SettingsTypeOK, picture
  <2>4. PicturesAreNew'
    BY <2>1, <2>2, SamePictures
  <2>5. FilesFollow'
    <3>1. CASE account /\ saves[n].image # NoPicture
      <4>1. torn' = (torn \/ \E m \in Saves : InServer(m) /\ saves[m].image # NoPicture)
        BY <1>6, <3>1 DEF EmptyDirectory
      <4>2. InServer(n)'
        BY <2>2, <3>1 DEF InServer
      <4>3. ~torn' => \A m \in Saves \ {n} : saves'[m].at = "written" => saves'[m].image = NoPicture
        BY <2>2, <4>1 DEF InServer
      <4> QED  BY <2>2, <3>1, <4>2, <4>3 DEF FilesFollow
    <3>2. CASE ~(account /\ saves[n].image # NoPicture)
      <4>1. UNCHANGED <<directory, torn, account, avatar>>
        BY <1>6, <3>2 DEF EmptyDirectory
      <4>2. \A m \in Saves \ {n} : InServer(m)' = InServer(m)
        BY <2>2 DEF InServer
      <4>3. CASE ~account
        BY <2>1, <2>2, <4>1, <4>3 DEF FilesFollow
      <4>4. CASE account
        BY <2>1, <2>2, <3>2, <4>1, <4>2, <4>4 DEF FilesFollow
      <4> QED  BY <4>3, <4>4
    <3> QED  BY <3>1, <3>2
  <2> QED  BY <2>3, <2>4, <2>5
<1>7. ASSUME NEW n \in Saves, WriteFile(n) PROVE SettingsInv'
  <2>1. PICK at \in {"written", "rejected"} :
          /\ saves' = [saves EXCEPT ![n].at = at]
          /\ at = "written" => directory' = directory \cup ({saves[n].image} \ {NoPicture})
                               /\ UNCHANGED torn
          /\ at = "rejected" => UNCHANGED directory /\ torn' = TRUE
    BY <1>7 DEF WriteFile
  <2>2. /\ saves[n].at = "emptied"
        /\ UNCHANGED <<picture, passwords, saveSuccess, deletions, closed, account, avatar,
                       reported>>
    BY <1>7 DEF WriteFile
  <2>3. /\ saves' \in [Saves -> Save]
        /\ saves'[n].at = at
        /\ \A m \in Saves : saves'[m].image = saves[m].image
        /\ \A m \in Saves \ {n} : saves'[m] = saves[m]
    BY <2>1, SaveMoves
  <2>4. SettingsTypeOK'
    <3>1. torn' \in BOOLEAN
      BY <2>1 DEF SettingsTypeOK
    <3>2. saves[n].image \in Picture
      BY DEF SettingsTypeOK, Save
    <3>3. directory' \subseteq Picture
      BY <2>1, <3>2 DEF SettingsTypeOK
    <3> QED  BY <2>2, <2>3, <3>1, <3>3 DEF SettingsTypeOK, picture
  <2>5. PicturesAreNew'
    BY <2>2, <2>3, SamePictures
  <2>6. FilesFollow'
    <3>1. CASE at = "rejected"
      BY <2>1, <3>1 DEF FilesFollow
    <3>2. CASE at = "written"
      <4>1. \A m \in Saves : InServer(m)' = InServer(m)
        BY <2>2, <2>3, <3>2 DEF InServer
      <4> QED  BY <2>1, <2>2, <2>3, <3>2, <4>1 DEF FilesFollow
    <3> QED  BY <3>1, <3>2
  <2> QED  BY <2>4, <2>5, <2>6
<1>8. ASSUME NEW n \in Saves, UpdateRow(n) PROVE SettingsInv'
  <2>1. /\ saves[n].at = "written"
        /\ UNCHANGED <<picture, passwords, saveSuccess, deletions, closed, account, directory,
                       reported>>
    BY <1>8 DEF UpdateRow
  <2>2. PICK at \in {"resolved", "rejected"} : saves' = [saves EXCEPT ![n].at = at]
    BY <1>8 DEF UpdateRow, Outcomes
  <2>3. \/ /\ avatar' = IF account /\ saves[n].image # NoPicture THEN saves[n].image ELSE avatar
           /\ UNCHANGED torn
        \/ torn' = (torn \/ saves[n].image # NoPicture) /\ UNCHANGED avatar
    BY <1>8 DEF UpdateRow
  <2>4. /\ saves' \in [Saves -> Save]
        /\ saves'[n].at = at
        /\ \A m \in Saves : saves'[m].image = saves[m].image
        /\ \A m \in Saves \ {n} : saves'[m] = saves[m]
    BY <2>2, SaveMoves
  <2>5. SettingsTypeOK'
    <3>1. torn' \in BOOLEAN
      BY <2>3 DEF SettingsTypeOK
    <3>2. avatar' \in Picture
      BY <2>3 DEF SettingsTypeOK, Save
    <3> QED  BY <2>1, <2>4, <3>1, <3>2 DEF SettingsTypeOK, picture
  <2>6. PicturesAreNew'
    BY <2>1, <2>4, SamePictures
  <2>7. FilesFollow'
    <3>1. \A m \in Saves \ {n} : InServer(m)' = InServer(m)
      BY <2>4 DEF InServer
    <3>2. CASE torn'
      BY <3>2 DEF FilesFollow
    <3>3. CASE ~torn'
      <4>1. ~torn
        BY <2>3, <3>3
      <4>2. \A m \in Saves :
              saves'[m].at = "written" /\ saves'[m].image # NoPicture => saves'[m].image \in directory'
        BY <2>1, <2>4, <4>1 DEF FilesFollow
      <4>3. CASE saves[n].image # NoPicture
        BY <2>1, <2>3, <3>3, <4>1, <4>2, <4>3 DEF FilesFollow
      <4>4. CASE saves[n].image = NoPicture
        BY <2>1, <2>3, <2>4, <3>1, <4>1, <4>2, <4>4 DEF FilesFollow
      <4> QED  BY <4>3, <4>4
    <3> QED  BY <3>2, <3>3
  <2> QED  BY <2>5, <2>6, <2>7
<1>9. ASSUME NEW n \in Saves, SaveAnswered(n) PROVE SettingsInv'
  <2>1. /\ saves[n].at \in {"resolved", "rejected"}
        /\ saves' = [saves EXCEPT ![n].at = "answered"]
        /\ UNCHANGED <<resizing, chosen, deletions, closed, profile>>
    BY <1>9 DEF SaveAnswered
  <2>2. /\ saves' \in [Saves -> Save]
        /\ saves'[n].at = "answered"
        /\ \A m \in Saves : saves'[m].image = saves[m].image
        /\ \A m \in Saves \ {n} : saves'[m] = saves[m]
    BY <2>1, SaveMoves
  <2>3. saves[n].image \in (1..chosen) \cup {NoPicture} /\ saves[n].image \notin resizing
    BY DEF PicturesAreNew
  <2>4. NoPicture \notin 1..chosen /\ 1..chosen \subseteq Picture
    BY NotAPicture DEF SettingsTypeOK, Pictures, Picture
  <2>5. CASE saves[n].at = "resolved"
    <3>1. /\ saveSuccess' = TRUE /\ passwords' = FALSE /\ imageFile' = NoPicture
          /\ reported' = reported \cup ({saves[n].image} \ {NoPicture})
      BY <1>9, <2>5 DEF SaveAnswered
    <3>2. saveSuccess' \in BOOLEAN /\ passwords' \in BOOLEAN
      BY <3>1
    <3>3. reported' \subseteq 1..chosen
      BY <2>3, <3>1 DEF PicturesAreNew
    <3>4. SettingsTypeOK'
      BY <2>1, <2>2, <2>4, <3>1, <3>2, <3>3 DEF SettingsTypeOK, profile
    <3>5. PicturesAreNew'
      BY <2>1, <2>2, <2>3, <2>4, <3>1, <3>3 DEF PicturesAreNew
    <3> QED  BY <2>1, <2>2, <3>4, <3>5 DEF FilesFollow, profile, InServer
  <2>6. CASE saves[n].at # "resolved"
    <3>1. UNCHANGED <<saveSuccess, passwords, imageFile, reported>>
      BY <1>9, <2>6 DEF SaveAnswered
    <3>2. SettingsTypeOK'
      BY <2>1, <2>2, <3>1 DEF SettingsTypeOK, profile
    <3>3. PicturesAreNew'
      BY <2>1, <2>2, <3>1, SamePictures DEF picture
    <3> QED  BY <2>1, <2>2, <3>2, <3>3 DEF FilesFollow, profile, InServer
  <2> QED  BY <2>5, <2>6
<1>10. ASSUME NEW d \in Deletions, handleDeleteAccount(d) PROVE SettingsInv'
  <2>1. SettingsTypeOK'
    BY <1>10 DEF handleDeleteAccount, SettingsTypeOK, profile, picture
  <2> QED  BY <1>10, <2>1, SamePictures, SameFiles DEF handleDeleteAccount
<1>11. ASSUME NEW d \in Deletions, AnswerDelete(d) PROVE SettingsInv'
  <2>1. /\ account' \in BOOLEAN /\ (account' => account)
        /\ deletions' \in [Deletions -> {"none", "sent", "resolved", "rejected", "answered"}]
        /\ UNCHANGED <<picture, passwords, saves, saveSuccess, closed, avatar, directory, torn,
                       reported>>
    BY <1>11 DEF AnswerDelete, SettingsTypeOK, Outcomes
  <2>2. SettingsTypeOK'
    BY <2>1 DEF SettingsTypeOK, picture
  <2>3. FilesFollow'
    BY <2>1 DEF FilesFollow, InServer
  <2> QED  BY <2>1, <2>2, <2>3, SamePictures
<1>12. ASSUME NEW d \in Deletions, DeleteAnswered(d) PROVE SettingsInv'
  <2>1. closed' \in BOOLEAN
    BY <1>12 DEF DeleteAnswered
  <2>2. SettingsTypeOK'
    BY <1>12, <2>1 DEF DeleteAnswered, SettingsTypeOK, profile, picture
  <2> QED  BY <1>12, <2>2, SamePictures, SameFiles DEF DeleteAnswered
<1>13. CASE LeaveSettings
  <2>1. closed' \in BOOLEAN
    BY <1>13 DEF LeaveSettings
  <2>2. SettingsTypeOK'
    BY <1>13, <2>1 DEF LeaveSettings, SettingsTypeOK, profile, picture
  <2> QED  BY <1>13, <2>2, SamePictures, SameFiles DEF LeaveSettings
<1>14. CASE UNCHANGED settingsVars
  <2>1. SettingsTypeOK'
    BY <1>14 DEF settingsVars, SettingsTypeOK, profile, picture
  <2> QED  BY <1>14, <2>1, SamePictures, SameFiles DEF settingsVars
<1> QED  BY <1>1, <1>2, <1>3, <1>4, <1>5, <1>6, <1>7, <1>8, <1>9, <1>10, <1>11, <1>12, <1>13, <1>14
     DEF SettingsNext

THEOREM SettingsCorrect == SettingsSpec => []SettingsInv
  BY SettingsStart, SettingsStep, PTL DEF SettingsSpec

(* The file of the account's picture exists between saves that neither     *)
(* failed halfway nor overlapped, however the account is saved, its form   *)
(* changed and the account deleted.                                        *)
THEOREM AvatarExists == SettingsSpec => []AvatarIsThere
<1>1. SettingsInv => AvatarIsThere
  <2> SUFFICES ASSUME SettingsInv, account, ~torn, \A n \in Saves : ~InServer(n)
               PROVE  avatar \in directory
    BY DEF AvatarIsThere
  <2> QED  BY DEF SettingsInv, FilesFollow
<1> QED  BY <1>1, SettingsCorrect, PTL

(* A picture whose save was reported is not sent again.                    *)
THEOREM PictureIsSavedOnce == SettingsSpec => SavedOnce
<1> DEFINE SentOnce == \A n \in Saves :
      saves[n].at = "none" /\ saves'[n].at = "sent" => saves'[n].image \notin reported
<1>1. SettingsInv /\ [SettingsNext]_settingsVars => [SentOnce]_settingsVars
  <2> SUFFICES ASSUME SettingsInv, SettingsNext,
                      NEW n \in Saves, saves[n].at = "none", saves'[n].at = "sent"
               PROVE  saves'[n].image \notin reported
    OBVIOUS
  <2> USE DEF SettingsInv
  <2>1. CASE UNCHANGED saves
    BY <2>1
  <2>2. ASSUME NEW m \in Saves, handleSubmit(m) PROVE saves'[n].image \notin reported
    <3>1. saves' = [saves EXCEPT ![m] =
                      [at |-> "sent", image |-> imageFile, password |-> passwords]]
      BY <2>2 DEF handleSubmit
    <3>2. n = m
      BY <3>1 DEF SettingsTypeOK
    <3>3. saves'[n].image = imageFile
      BY <3>1, <3>2 DEF SettingsTypeOK
    <3> QED  BY <3>3 DEF PicturesAreNew
  <2>3. ASSUME NEW m \in Saves, EmptyDirectory(m) \/ WriteFile(m) \/ UpdateRow(m) \/ SaveAnswered(m)
        PROVE  FALSE
    <3>1. PICK at \in {"emptied", "written", "resolved", "rejected", "answered"} :
            saves' = [saves EXCEPT ![m].at = at]
      BY <2>3 DEF EmptyDirectory, WriteFile, UpdateRow, SaveAnswered, Outcomes
    <3>2. saves[m].at # "none"
      BY <2>3 DEF EmptyDirectory, WriteFile, UpdateRow, SaveAnswered
    <3> QED  BY <3>1, <3>2, SaveMoves
  <2> QED  BY <2>1, <2>2, <2>3
           DEF SettingsNext, handleFileChange, resizeImage, handleRemoveImage, setPasswords,
               handleDeleteAccount, AnswerDelete, DeleteAnswered, LeaveSettings
<1> QED  BY <1>1, SettingsCorrect, PTL DEF SettingsSpec, SavedOnce

-----------------------------------------------------------------------------
(* The search. The modal edits the object of the store only by taking a    *)
(* field away, and only while what it previews is that object: whatever it *)
(* adds is in a copy until it is confirmed.                                *)

SearchInv ==
  /\ SearchTypeOK
  /\ aliased => modalOpen /\ preview = filter
  /\ FilterWasChosen
  /\ ListsWereTold
-----------------------------------------------------------------------------
(* Filters. *)

LEMMA NoFieldsTyped == NoFields \in Filter
<1>1. NoFields = [product_type |-> Unset, product_id |-> Unset]
  BY DEF NoFields, Fields
<1> QED  BY <1>1 DEF Filter

LEMMA OrEmptyTyped ==
  ASSUME NEW v \in MaybeFilter
  PROVE  OrEmpty(v) \in Filter
  BY NoFieldsTyped DEF OrEmpty, MaybeFilter

LEMMA FieldsOfNone == FieldsOf(NoFilter) = {} /\ FieldsOf(NoFields) = {}
  BY DEF FieldsOf, NoFields

(* Who has the value of a field has it as a pair. *)
LEMMA FieldsOfSome ==
  ASSUME NEW v \in Filter
  PROVE  FieldsOf(v) \subseteq
           {<<f, v[f]>> : f \in {g \in Fields : v[g] # Unset}}
  BY DEF FieldsOf

LEMMA FieldsOfEmptied ==
  ASSUME NEW v \in MaybeFilter
  PROVE  {<<f, OrEmpty(v)[f]>> : f \in {g \in Fields : OrEmpty(v)[g] # Unset}} = FieldsOf(v)
<1>1. CASE v = NoFilter
  BY <1>1 DEF OrEmpty, FieldsOf, NoFields
<1>2. CASE v # NoFilter
  BY <1>2 DEF OrEmpty, FieldsOf
<1> QED  BY <1>1, <1>2

(* A field that is set is the only new one. *)
LEMMA TypeSet ==
  ASSUME NEW v \in MaybeFilter, NEW t \in Types \cup {Unset}
  PROVE  LET w == [OrEmpty(v) EXCEPT !.product_type = t] IN
         /\ w \in Filter
         /\ FieldsOf(w) \subseteq FieldsOf(v) \cup {<<"product_type", t>>}
         /\ t = Unset => FieldsOf(w) \subseteq FieldsOf(v)
<1> DEFINE u == OrEmpty(v)
           w == [u EXCEPT !.product_type = t]
<1>1. u \in Filter
  BY OrEmptyTyped
<1>2. w \in Filter
  BY <1>1 DEF Filter
<1>3. w["product_type"] = t /\ w["product_id"] = u["product_id"]
  BY <1>1 DEF Filter
<1>4. \A f \in Fields : w[f] = u[f] \/ (f = "product_type" /\ w[f] = t)
  BY <1>3 DEF Fields
<1> HIDE DEF u, w
<1>5. FieldsOf(w) \subseteq
        {<<f, u[f]>> : f \in {g \in Fields : u[g] # Unset}} \cup {<<"product_type", t>>}
  BY <1>2, <1>4, FieldsOfSome
<1>6. t = Unset => FieldsOf(w) \subseteq {<<f, u[f]>> : f \in {g \in Fields : u[g] # Unset}}
  BY <1>2, <1>4, FieldsOfSome
<1>7. {<<f, u[f]>> : f \in {g \in Fields : u[g] # Unset}} = FieldsOf(v)
  BY FieldsOfEmptied DEF u
<1> QED  BY <1>2, <1>5, <1>6, <1>7 DEF u, w

LEMMA ProductIsSet ==
  ASSUME NEW v \in MaybeFilter, NEW p \in Listed \cup {Nobody, Unset}
  PROVE  LET w == [OrEmpty(v) EXCEPT !.product_id = p] IN
         /\ w \in Filter
         /\ FieldsOf(w) \subseteq FieldsOf(v) \cup {<<"product_id", p>>}
         /\ p = Unset => FieldsOf(w) \subseteq FieldsOf(v)
<1> DEFINE u == OrEmpty(v)
           w == [u EXCEPT !.product_id = p]
<1>1. u \in Filter
  BY OrEmptyTyped
<1>2. w \in Filter
  BY <1>1 DEF Filter
<1>3. w["product_id"] = p /\ w["product_type"] = u["product_type"]
  BY <1>1 DEF Filter
<1>4. \A f \in Fields : w[f] = u[f] \/ (f = "product_id" /\ w[f] = p)
  BY <1>3 DEF Fields
<1> HIDE DEF u, w
<1>5. FieldsOf(w) \subseteq
        {<<f, u[f]>> : f \in {g \in Fields : u[g] # Unset}} \cup {<<"product_id", p>>}
  BY <1>2, <1>4, FieldsOfSome
<1>6. p = Unset => FieldsOf(w) \subseteq {<<f, u[f]>> : f \in {g \in Fields : u[g] # Unset}}
  BY <1>2, <1>4, FieldsOfSome
<1>7. {<<f, u[f]>> : f \in {g \in Fields : u[g] # Unset}} = FieldsOf(v)
  BY FieldsOfEmptied DEF u
<1> QED  BY <1>2, <1>5, <1>6, <1>7 DEF u, w
-----------------------------------------------------------------------------
(* Steps. *)

LEMMA ListeningMenu == \A v : "menu" \in Listeners(v)
  BY DEF Listeners, Lists

LEMMA SetFilterKeeps ==
  ASSUME SearchTypeOK, NEW v \in Filter, SetFilter(v), FieldsOf(v) \subseteq chosenFields'
  PROVE  /\ filter' = v /\ filter' \in MaybeFilter
         /\ asked' \in [Lists -> Filter]
         /\ FilterWasChosen' /\ ListsWereTold'
<1>1. filter' = v /\ asked' = [l \in Lists |-> IF l \in Listeners(v) THEN v ELSE asked[l]]
  BY DEF SetFilter
<1>2. asked' \in [Lists -> Filter]
  BY <1>1 DEF SearchTypeOK
<1>3. asked'["menu"] = v
  BY <1>1, ListeningMenu DEF Lists
<1> QED  BY <1>1, <1>2, <1>3 DEF FilterWasChosen, ListsWereTold, MaybeFilter

(* Losing fields needs no telling. *)
LEMMA LosingKeeps ==
  ASSUME SearchInv, UNCHANGED asked, chosenFields \subseteq chosenFields',
         FieldsOf(filter') \subseteq FieldsOf(filter)
  PROVE  FilterWasChosen' /\ ListsWereTold'
  BY DEF SearchInv, FilterWasChosen, ListsWereTold

LEMMA ChosenTyped ==
  ASSUME NEW v \in MaybeFilter
  PROVE  FieldsOf(v) \subseteq Fields \X (Types \cup Listed \cup {Nobody})
<1>1. CASE v = NoFilter
  BY <1>1, FieldsOfNone
<1>2. CASE v # NoFilter
  <2>1. v \in Filter
    BY <1>2 DEF MaybeFilter
  <2>2. \A f \in Fields : v[f] \in Types \cup Listed \cup {Nobody, Unset}
    BY <2>1 DEF Filter, Fields
  <2> QED  BY <2>1, <2>2, FieldsOfSome
<1> QED  BY <1>1, <1>2

LEMMA SetNamesKeeps ==
  ASSUME SearchInv, NEW text \in Queries \cup {NoQuery}, SetNames(text),
         UNCHANGED <<aliased, modalOpen, chosenFields>>
  PROVE  /\ filter' \in MaybeFilter /\ preview' \in MaybeFilter
         /\ asked' \in [Lists -> Filter]
         /\ product_names' \in Queries \cup {NoQuery} /\ isOnSelect' \in BOOLEAN
         /\ aliased' => modalOpen' /\ preview' = filter'
         /\ FilterWasChosen' /\ ListsWereTold'
<1>1. product_names' \in Queries \cup {NoQuery} /\ isOnSelect' \in BOOLEAN
  BY DEF SetNames
<1>2. CASE text # NoQuery
  BY <1>1, <1>2 DEF SetNames, SearchInv, SearchTypeOK, FilterWasChosen, ListsWereTold
<1>3. CASE text = NoQuery /\ filter = NoFilter
  <2>1. SetFilter(NoFields) /\ preview' = IF aliased THEN filter' ELSE preview
    BY <1>3 DEF SetNames
  <2>2. /\ filter' = NoFields /\ filter' \in MaybeFilter /\ asked' \in [Lists -> Filter]
        /\ FilterWasChosen' /\ ListsWereTold'
    BY <2>1, NoFieldsTyped, FieldsOfNone, SetFilterKeeps DEF SearchInv
  <2> QED  BY <1>1, <2>1, <2>2 DEF SearchInv, SearchTypeOK
<1>4. CASE text = NoQuery /\ filter # NoFilter
  <2>1. /\ filter' = [OrEmpty(filter) EXCEPT !.product_id = Unset] /\ UNCHANGED asked
        /\ preview' = IF aliased THEN filter' ELSE preview
    BY <1>4 DEF SetNames, OrEmpty
  <2>2. filter' \in Filter /\ FieldsOf(filter') \subseteq FieldsOf(filter)
    BY <2>1, ProductIsSet DEF SearchInv, SearchTypeOK
  <2>3. FilterWasChosen' /\ ListsWereTold'
    BY <2>1, <2>2, LosingKeeps
  <2> QED  BY <1>1, <2>1, <2>2, <2>3 DEF SearchInv, SearchTypeOK, MaybeFilter
<1> QED  BY <1>2, <1>3, <1>4

LEMMA SearchStart == SearchInit => SearchInv
<1> SUFFICES ASSUME SearchInit PROVE SearchInv
  OBVIOUS
<1>1. SearchTypeOK
  BY NoFieldsTyped DEF SearchInit, SearchTypeOK, MaybeFilter
<1> QED  BY <1>1, FieldsOfNone DEF SearchInit, SearchInv, FilterWasChosen, ListsWereTold

LEMMA SearchStep == SearchInv /\ [SearchNext]_searchVars => SearchInv'
<1> SUFFICES ASSUME SearchInv, [SearchNext]_searchVars PROVE SearchInv'
  OBVIOUS
<1> USE DEF SearchInv
<1>1. CASE OpenFilter
  BY <1>1 DEF OpenFilter, SearchTypeOK, box, FilterWasChosen, ListsWereTold
<1>2. CASE CloseFilter
  BY <1>2 DEF CloseFilter, Unmount, SearchTypeOK, MaybeFilter, box, FilterWasChosen, ListsWereTold
<1>3. CASE deleteField
  <2> DEFINE w == [OrEmpty(preview) EXCEPT !.product_type = Unset]
  <2>1. w \in Filter /\ FieldsOf(w) \subseteq FieldsOf(preview)
    BY TypeSet DEF SearchTypeOK
  <2>2. /\ preview' = w /\ filter' = IF aliased THEN w ELSE filter
        /\ aliased' = FALSE
        /\ UNCHANGED <<modalOpen, screen, box, asked, chosenFields>>
    BY <1>3 DEF deleteField
  <2> HIDE DEF w
  <2>3. filter' \in MaybeFilter /\ FieldsOf(filter') \subseteq FieldsOf(filter)
    BY <2>1, <2>2 DEF SearchTypeOK, MaybeFilter
  <2>4. FilterWasChosen' /\ ListsWereTold'
    BY <2>2, <2>3, LosingKeeps
  <2> QED  BY <2>1, <2>2, <2>3, <2>4 DEF SearchTypeOK, MaybeFilter, box
<1>4. CASE confirmFilter
  <2>1. /\ Unmount /\ UNCHANGED <<screen, box>>
        /\ chosenFields' = chosenFields \cup FieldsOf(preview)
    BY <1>4 DEF confirmFilter
  <2>2. chosenFields' \subseteq Fields \X (Types \cup Listed \cup {Nobody})
    BY <2>1, ChosenTyped DEF SearchTypeOK
  <2>3. /\ filter' \in MaybeFilter /\ asked' \in [Lists -> Filter]
        /\ FilterWasChosen' /\ ListsWereTold'
    <3>1. CASE UNCHANGED <<filter, asked>>
      BY <2>1, <3>1, LosingKeeps DEF SearchTypeOK
    <3>2. CASE filter' = NoFilter /\ UNCHANGED asked
      BY <2>1, <3>2, FieldsOfNone, LosingKeeps DEF SearchTypeOK, MaybeFilter
    <3>3. CASE preview # NoFilter /\ SetFilter(preview)
      BY <2>1, <3>3, SetFilterKeeps DEF SearchTypeOK, MaybeFilter
    <3> QED  BY <1>4, <3>1, <3>2, <3>3 DEF confirmFilter
  <2> QED  BY <2>1, <2>2, <2>3 DEF Unmount, SearchTypeOK, MaybeFilter, box
<1>5. ASSUME NEW v \in Types, setField(v) PROVE SearchInv'
  <2>1. preview' \in Filter
    BY <1>5, TypeSet DEF setField, SearchTypeOK
  <2> QED  BY <1>5, <2>1 DEF setField, SearchTypeOK, MaybeFilter, box, FilterWasChosen, ListsWereTold
<1>6. ASSUME NEW v \in Types, ChooseCategory(v) PROVE SearchInv'
  <2> DEFINE w == [OrEmpty(NoFilter) EXCEPT !.product_type = v]
  <2>1. w = [NoFields EXCEPT !.product_type = v]
    BY DEF OrEmpty
  <2>2. w \in Filter /\ FieldsOf(w) \subseteq {<<"product_type", v>>}
    BY TypeSet, FieldsOfNone DEF MaybeFilter
  <2>3. /\ SetFilter(w) /\ UNCHANGED <<filterModal, box>> /\ ~modalOpen
        /\ screen' \in {"home", "menu"}
        /\ chosenFields' = chosenFields \cup {<<"product_type", v>>}
    BY <1>6, <2>1 DEF ChooseCategory
  <2> HIDE DEF w
  <2>4. /\ filter' \in MaybeFilter /\ asked' \in [Lists -> Filter]
        /\ FilterWasChosen' /\ ListsWereTold'
    BY <2>2, <2>3, SetFilterKeeps
  <2> QED  BY <2>3, <2>4 DEF SearchTypeOK, filterModal, box, Fields
<1>7. ASSUME NEW text \in Queries \cup {NoQuery}, Type(text) PROVE SearchInv'
  BY <1>7 DEF Type, SearchTypeOK, filterModal, FilterWasChosen, ListsWereTold
<1>8. CASE search
  <2>1. CASE input = NoQuery
    BY <1>8, <2>1, SetNamesKeeps DEF search, SearchTypeOK
  <2>2. CASE input # NoQuery
    BY <1>8, <2>2 DEF search, SearchTypeOK, FilterWasChosen, ListsWereTold
  <2> QED  BY <2>1, <2>2
<1>9. ASSUME NEW text \in Queries, SearchSettled(text) PROVE SearchInv'
  <2>1. CASE UNCHANGED <<filter, preview, asked, product_names, isOnSelect>>
    BY <1>9, <2>1 DEF SearchSettled, SearchTypeOK, FilterWasChosen, ListsWereTold
  <2>2. ASSUME NEW shown \in Queries \cup {NoQuery}, SetNames(shown) PROVE SearchInv'
    BY <1>9, <2>2, SetNamesKeeps DEF SearchSettled, SearchTypeOK
  <2> QED  BY <1>9, <2>1, <2>2 DEF SearchSettled
<1>10. ASSUME NEW product \in Listed \cup {Nobody}, updateFilter(product) PROVE SearchInv'
  <2> DEFINE w == [OrEmpty(filter) EXCEPT !.product_id = product]
  <2>1. w \in Filter /\ FieldsOf(w) \subseteq FieldsOf(filter) \cup {<<"product_id", product>>}
    BY ProductIsSet DEF SearchTypeOK
  <2>2. /\ SetFilter(w) /\ screen' = "results" /\ isOnSelect' = TRUE /\ ~modalOpen
        /\ chosenFields' = chosenFields \cup {<<"product_id", product>>}
        /\ UNCHANGED <<filterModal, input, timer, searching, product_names>>
    BY <1>10 DEF updateFilter
  <2> HIDE DEF w
  <2>3. /\ filter' \in MaybeFilter /\ asked' \in [Lists -> Filter]
        /\ FilterWasChosen' /\ ListsWereTold'
    BY <2>1, <2>2, SetFilterKeeps DEF FilterWasChosen
  <2> QED  BY <2>2, <2>3 DEF SearchTypeOK, filterModal, Fields
<1>11. CASE updateUsersQuery
  BY <1>11 DEF updateUsersQuery, SearchTypeOK, filterModal, FilterWasChosen, ListsWereTold
<1>12. ASSUME NEW elsewhere \in BOOLEAN, FocusBox(elsewhere) PROVE SearchInv'
  BY <1>12 DEF FocusBox, SearchTypeOK, filterModal, FilterWasChosen, ListsWereTold
<1>13. ASSUME NEW to \in {"home", "menu"}, Navigate(to) PROVE SearchInv'
  BY <1>13 DEF Navigate, SearchTypeOK, filterModal, box, FilterWasChosen, ListsWereTold
<1>14. CASE UNCHANGED searchVars
  BY <1>14 DEF searchVars, SearchTypeOK, filterModal, box, FilterWasChosen, ListsWereTold
<1> QED  BY <1>1, <1>2, <1>3, <1>4, <1>5, <1>6, <1>7, <1>8, <1>9, <1>10, <1>11, <1>12, <1>13, <1>14
     DEF SearchNext

THEOREM SearchCorrect == SearchSpec => []SearchInv
  BY SearchStart, SearchStep, PTL DEF SearchSpec

(* The store of the filter has no field that was not confirmed or chosen,  *)
(* for any fields, texts and products: Filter.tsx shares the object of the *)
(* store with its modal and can only lose fields by it.                    *)
THEOREM FilterIsChosen == SearchSpec => []FilterWasChosen
<1>1. SearchInv => FilterWasChosen
  BY DEF SearchInv
<1> QED  BY <1>1, SearchCorrect, PTL

(* No field of the store is one that the menu's list was not asked for:    *)
(* what the store's listeners are not told of takes fields away.           *)
THEOREM ListsAreTold == SearchSpec => []ListsWereTold
<1>1. SearchInv => ListsWereTold
  BY DEF SearchInv
<1> QED  BY <1>1, SearchCorrect, PTL

=============================================================================
