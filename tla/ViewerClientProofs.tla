------------------------- MODULE ViewerClientProofs -------------------------
(***************************************************************************)
(* Safety of ViewerClient for any cameras, days, captures, clicks, faults   *)
(* and requests under way.  A card opens because images are never taken     *)
(* away, and because the selection under which its URL was made can only    *)
(* change in a way that empties the grid, or leaves a request for dates or  *)
(* its failure behind until it is emptied (CardInv).                        *)
(***************************************************************************)
EXTENDS ViewerClient, SequenceTheorems, WellFoundedInduction, TLAPS

Pictures == [cam : Cameras, date : 1..Days, n : Nat]
Answers == [status : {0, 200, 401}, body : SUBSET (Cameras \cup (1..Days) \cup Pictures)]
Requests == [kind : Kinds, cam : Cameras \cup {0}, date : 0..Days,
             initial : BOOLEAN, awaited : BOOLEAN, answer : Answers]

Exists(m) == ImageExists(m.cam, m.date, m)

\* An answer lists what there is: a page may read it much later.
Truthful(r) == r.answer.status = 200 =>
  /\ r.kind = "cameras" => r.answer.body \subseteq Cameras
  /\ r.kind = "dates" => r.answer.body \subseteq 1..Days
  /\ r.kind = "images" => \A m \in r.answer.body : Exists(m)

RequestInv == requests \in Seq(Requests) /\ \A r \in Range(requests) : Truthful(r)

\* A new secret takes a restart, and that a fault.
SecretInv == secret <= faults + 1

\* The URL of a card has the present selection, unless the selection is gone or was
\* changed by a selectCamera that has not come to loadImages.
CardInv == \A card \in grid :
  /\ Exists(card.image)
  /\ (card.cam = cam /\ card.date = date) \/ DatesPending \/ unseen \/ cam = 0 \/ date = 0

IInv == TypeOK /\ RequestInv /\ SecretInv /\ CardInv

-----------------------------------------------------------------------------
(* Numbers, sequences and requests *)

LEMMA Least == \A T \in SUBSET Nat : T # {} => \E m \in T : \A k \in T : m <= k
<1> SUFFICES ASSUME NEW T \in SUBSET Nat, T # {} PROVE \E m \in T : \A k \in T : m <= k
  OBVIOUS
<1>1. PICK m \in T : \A k \in T : ~(<<k, m>> \in OpToRel(<, Nat))
  BY NatLessThanWellFounded, WFMin
<1>2. \A k \in T : ~(k < m)
  BY <1>1 DEF OpToRel
<1> QED
  BY <1>2

LEMMA FirstListed == ASSUME NEW S \in SUBSET Cameras, S # {} PROVE Min(S) \in S
<1>1. \E m \in S : \A k \in S : m <= k
  BY Least, ServiceAssumption
<1> QED
  BY <1>1 DEF Min

LEMMA NewestListed == ASSUME NEW S \in SUBSET (1..Days), S # {} PROVE Max(S) \in S
<1> DEFINE T == {Days - k : k \in S}
<1>1. Days \in Nat /\ \A k \in S : k \in Nat /\ k <= Days /\ Days - k \in Nat
  BY ServiceAssumption
<1>2. T \in SUBSET Nat /\ T # {}
  BY <1>1
<1> HIDE DEF T
<1>3. PICK t \in T : \A k \in T : t <= k
  BY <1>2, Least
<1>4. PICK m \in S : t = Days - m
  BY DEF T
<1>5. \A k \in S : Days - m <= Days - k
  BY <1>3, <1>4 DEF T
<1>6. \A k \in S : m >= k
  BY <1>1, <1>5
<1> QED
  BY <1>6 DEF Max

LEMMA Removed ==
  ASSUME NEW S, NEW s \in Seq(S), NEW i \in DOMAIN s
  PROVE  /\ RemoveAt(s, i) \in Seq(S)
         /\ Len(RemoveAt(s, i)) = Len(s) - 1
         /\ Range(RemoveAt(s, i)) \subseteq Range(s)
         /\ \A x \in Range(s) : x = s[i] \/ x \in Range(RemoveAt(s, i))
<1> DEFINE before == SubSeq(s, 1, i - 1)
           after == SubSeq(s, i + 1, Len(s))
           t == RemoveAt(s, i)
<1>1. /\ Len(s) \in Nat /\ DOMAIN s = 1..Len(s) /\ i \in 1..Len(s)
      /\ \A j \in 1..Len(s) : s[j] \in S
  OBVIOUS
<1>2. /\ before \in Seq(S) /\ Len(before) = i - 1
      /\ \A j \in 1..(i - 1) : before[j] = s[j]
  BY <1>1, SubSeqProperties
<1>3. /\ after \in Seq(S) /\ Len(after) = Len(s) - i
      /\ \A j \in 1..(Len(s) - i) : after[j] = s[i + j]
  BY <1>1, SubSeqProperties
<1> HIDE DEF before, after
<1>4. /\ t \in Seq(S) /\ Len(t) = Len(s) - 1
      /\ \A j \in 1..(Len(s) - 1) : t[j] = IF j <= i - 1 THEN before[j] ELSE after[j - (i - 1)]
  <2>1. t = before \o after
    BY DEF RemoveAt, before, after
  <2> HIDE DEF t
  <2>2. /\ before \o after \in Seq(S)
        /\ Len(before \o after) = Len(before) + Len(after)
        /\ \A j \in 1..(Len(before) + Len(after)) :
             (before \o after)[j] = IF j <= Len(before) THEN before[j] ELSE after[j - Len(before)]
    BY <1>2, <1>3, ConcatProperties
  <2>3. (i - 1) + (Len(s) - i) = Len(s) - 1
    BY <1>1
  <2> QED
    BY <1>1, <1>2, <1>3, <2>1, <2>2, <2>3
<1> HIDE DEF t
<1>5. \A j \in 1..(Len(s) - 1) : t[j] = IF j < i THEN s[j] ELSE s[j + 1]
  <2> SUFFICES ASSUME NEW j \in 1..(Len(s) - 1) PROVE t[j] = IF j < i THEN s[j] ELSE s[j + 1]
    OBVIOUS
  <2>1. CASE j < i
    BY <1>1, <1>2, <1>4, <2>1
  <2>2. CASE ~(j < i)
    <3>1. ~(j <= i - 1) /\ j - (i - 1) \in 1..(Len(s) - i) /\ i + (j - (i - 1)) = j + 1
      BY <1>1, <2>2
    <3> QED
      BY <1>3, <1>4, <2>2, <3>1
  <2> QED
    BY <2>1, <2>2
<1>6. DOMAIN t = 1..(Len(s) - 1)
  BY <1>4
<1>7. Range(t) \subseteq Range(s)
  BY <1>1, <1>5, <1>6 DEF Range
<1>8. ASSUME NEW j \in 1..Len(s) PROVE s[j] = s[i] \/ s[j] \in Range(t)
  <2>1. CASE j < i
    <3>1. j \in 1..(Len(s) - 1) /\ t[j] = s[j]
      BY <1>1, <1>5, <2>1
    <3> QED
      BY <1>6, <3>1 DEF Range
  <2>2. CASE i < j
    <3>1. j - 1 \in 1..(Len(s) - 1) /\ ~(j - 1 < i) /\ (j - 1) + 1 = j
      BY <1>1, <2>2
    <3>2. t[j - 1] = s[j]
      BY <1>5, <3>1
    <3> QED
      BY <1>6, <3>1, <3>2 DEF Range
  <2> QED
    BY <1>1, <2>1, <2>2
<1> QED
  BY <1>1, <1>4, <1>7, <1>8 DEF Range, t

LEMMA Appended ==
  ASSUME NEW S, NEW s \in Seq(S), NEW x \in S
  PROVE  /\ Append(s, x) \in Seq(S)
         /\ Len(Append(s, x)) = Len(s) + 1
         /\ Range(Append(s, x)) = Range(s) \cup {x}
<1>1. /\ Append(s, x) \in Seq(S) /\ Len(Append(s, x)) = Len(s) + 1 /\ Len(s) \in Nat
      /\ \A j \in 1..Len(s) : Append(s, x)[j] = s[j]
      /\ Append(s, x)[Len(s) + 1] = x
      /\ DOMAIN s = 1..Len(s) /\ DOMAIN Append(s, x) = 1..(Len(s) + 1)
  OBVIOUS
<1>2. 1..(Len(s) + 1) = (1..Len(s)) \cup {Len(s) + 1}
  BY <1>1
<1> QED
  BY <1>1, <1>2 DEF Range

LEMMA RequestTyped ==
  ASSUME NEW kind \in Kinds, NEW c \in Cameras \cup {0}, NEW d \in 0..Days,
         NEW initial \in BOOLEAN, NEW awaited \in BOOLEAN
  PROVE  /\ Request(kind, c, d, initial, awaited) \in Requests
         /\ Request(kind, c, d, initial, awaited).kind = kind
         /\ Request(kind, c, d, initial, awaited).answer = NoAnswer
BY DEF Request, Requests, Answers, NoAnswer

-----------------------------------------------------------------------------
(* The service: folders only grow *)

LEMMA ServiceMoves == [Next]_vars =>
  \/ UNCHANGED serviceVars
  \/ /\ UNCHANGED <<captures, written, today, secret>>
     /\ cookie' \in {cookie, NoToken, create_session_token}
     /\ faults' = faults \/ Fault
  \/ Surroundings
<1> SUFFICES ASSUME [Next]_vars
             PROVE  \/ UNCHANGED serviceVars
                    \/ /\ UNCHANGED <<captures, written, today, secret>>
                       /\ cookie' \in {cookie, NoToken, create_session_token}
                       /\ faults' = faults \/ Fault
                    \/ Surroundings
  OBVIOUS
<1> USE DEF serviceVars
<1>1. CASE Login
  BY <1>1 DEF Login
<1>2. CASE Logout
  BY <1>2 DEF Logout
<1>3. CASE Reload
  BY <1>3 DEF Reload
<1>4. CASE ClickCamera
  BY <1>4 DEF ClickCamera
<1>5. CASE SelectDate
  BY <1>5 DEF SelectDate
<1>6. CASE ManualRefresh
  BY <1>6 DEF ManualRefresh
<1>7. CASE Poll
  BY <1>7 DEF Poll
<1>8. ASSUME NEW i \in DOMAIN requests, Serve(i) \/ Arrive(i)
      PROVE  \/ UNCHANGED serviceVars
             \/ UNCHANGED <<captures, written, today, secret>> /\ cookie' = cookie /\ Fault
  BY <1>8 DEF Serve, Arrive, Unauthorized, CamerasAnswered, DatesAnswered, ImagesAnswered, RequestFails
<1>9. CASE World
  BY <1>9 DEF World
<1>10. CASE UNCHANGED vars
  BY <1>10 DEF vars
<1> QED
  BY <1>1, <1>2, <1>3, <1>4, <1>5, <1>6, <1>7, <1>8, <1>9, <1>10 DEF Next, User, Network

LEMMA ServiceStep == TypeOK /\ SecretInv /\ [Next]_vars => ServiceTypeOK' /\ SecretInv'
<1> SUFFICES ASSUME TypeOK, SecretInv, [Next]_vars PROVE ServiceTypeOK' /\ SecretInv'
  OBVIOUS
<1> USE ServiceAssumption DEF SecretInv
<1>0. ServiceTypeOK
  BY DEF TypeOK
<1>1. CASE UNCHANGED serviceVars
  BY <1>0, <1>1 DEF serviceVars, ServiceTypeOK
<1>2. CASE /\ UNCHANGED <<captures, written, today, secret>>
           /\ cookie' \in {cookie, NoToken, create_session_token}
           /\ faults' = faults \/ Fault
  <2>1. cookie' \in [secret : 0..secret, expires : 0..(today + MaxAge)]
    BY <1>0, <1>2 DEF ServiceTypeOK, NoToken, create_session_token
  <2>2. faults' \in 0..MaxFaults /\ faults <= faults'
    BY <1>0, <1>2 DEF ServiceTypeOK, Fault
  <2>3. UNCHANGED <<captures, written, today, secret>>
    BY <1>2
  <2>4. secret' <= faults' + 1
    <3>1. secret \in Nat /\ faults \in Nat /\ faults' \in Nat /\ secret <= faults + 1
      BY <1>0, <2>2 DEF ServiceTypeOK
    <3>2. secret' = secret /\ faults <= faults'
      BY <2>2, <2>3
    <3>3. \A a, b, c \in Nat : a <= b + 1 /\ b <= c => a <= c + 1
      OBVIOUS
    <3> QED
      BY <3>1, <3>2, <3>3
  <2> QED
    BY <1>0, <2>1, <2>2, <2>3, <2>4 DEF ServiceTypeOK
<1>3. CASE Capture
  <2>1. captures' \in [Folders -> {NoFolder} \cup Nat]
    <3>1. PICK c \in Cameras, d \in {today - 1, today} :
            \/ captures' = [captures EXCEPT ![<<c, d>>] = IF @ = NoFolder THEN 1 ELSE @ + 1]
            \/ captures[<<c, d>>] = NoFolder /\ captures' = [captures EXCEPT ![<<c, d>>] = 0]
      BY <1>3 DEF Capture
    <3>2. <<c, d>> \in Folders /\ captures[<<c, d>>] \in {NoFolder} \cup Nat
      BY <1>0 DEF Folders, ServiceTypeOK
    <3> QED
      BY <1>0, <3>1, <3>2 DEF ServiceTypeOK, NoFolder
  <2>2. written' \in 0..MaxCaptures
    BY <1>0, <1>3 DEF ServiceTypeOK, Capture
  <2> QED
    BY <1>0, <1>3, <2>1, <2>2 DEF ServiceTypeOK, Capture
<1>4. CASE Midnight
  BY <1>0, <1>4 DEF ServiceTypeOK, Midnight
<1>5. CASE Restart
  BY <1>0, <1>5 DEF ServiceTypeOK, Restart, Fault
<1> QED
  BY <1>1, <1>2, <1>3, <1>4, <1>5, ServiceMoves DEF Surroundings

\* No image is ever taken away.
LEMMA ImagesStay == ASSUME TypeOK, [Next]_vars PROVE \A m : Exists(m) => Exists(m)'
<1>0. captures \in [Folders -> {NoFolder} \cup Nat]
  BY DEF TypeOK, ServiceTypeOK
<1>1. /\ captures' \in [Folders -> {NoFolder} \cup Nat]
      /\ \A f \in Folders : captures[f] <= captures'[f]
  <2>1. CASE captures' = captures
    BY <1>0, <2>1 DEF NoFolder
  <2>2. CASE Capture
    <3>1. PICK c \in Cameras, d \in {today - 1, today} :
            \/ captures' = [captures EXCEPT ![<<c, d>>] = IF @ = NoFolder THEN 1 ELSE @ + 1]
            \/ captures[<<c, d>>] = NoFolder /\ captures' = [captures EXCEPT ![<<c, d>>] = 0]
      BY <2>2 DEF Capture
    <3> QED
      BY <1>0, <3>1 DEF NoFolder
  <2> QED
    BY <2>1, <2>2, ServiceMoves DEF serviceVars, Surroundings, Midnight, Restart
<1>2. ASSUME NEW m, Exists(m) PROVE Exists(m)'
  <2>1. PICK k \in IF m.date \in Dates(m.cam) THEN 1..captures[<<m.cam, m.date>>] ELSE {} :
          m = [cam |-> m.cam, date |-> m.date, n |-> k]
    BY <1>2 DEF Exists, ImageExists, get_images
  <2>2. /\ m.date \in 1..Days /\ <<m.cam, m.date>> \in Folders
        /\ captures[<<m.cam, m.date>>] # NoFolder /\ k \in 1..captures[<<m.cam, m.date>>]
    BY <2>1 DEF Dates
  <2>3. captures'[<<m.cam, m.date>>] # NoFolder /\ k \in 1..captures'[<<m.cam, m.date>>]
    BY <1>0, <1>1, <2>2 DEF NoFolder
  <2> QED
    BY <2>1, <2>2, <2>3 DEF Exists, ImageExists, get_images, Dates
<1> QED
  BY <1>2

-----------------------------------------------------------------------------
(* The page *)

\* The variables of the page with the types that TypeOK gives them.
PageTypeOK ==
  /\ page \in {"login", "viewer"} /\ boot \in {"cameras", "dates", "done"}
  /\ cam \in Cameras \cup {0} /\ lastCam \in Cameras \cup {0}
  /\ date \in 0..Days /\ lastDate \in 0..Days
  /\ items \subseteq Cameras /\ options \subseteq 1..Days
  /\ \A card \in grid : card.cam \in Cameras \cup {0} /\ card.date \in 0..Days
  /\ unseen \in BOOLEAN /\ clicks \in 0..MaxClicks

\* What a step may make of the requests: leave one out, send one.
Rests == {requests, <<>>} \cup {RemoveAt(requests, i) : i \in DOMAIN requests}

Sends == \/ requests' \in Rests
         \/ \E rest \in Rests, q \in Requests :
              Len(rest) < MaxPending /\ q.answer = NoAnswer /\ requests' = Append(rest, q)

\* What a step may do to the cards; the third is for a step that changes the selection.
Clears == grid' = {}
Keeps == /\ UNCHANGED <<grid, cam, date>>
         /\ unseen => unseen'
         /\ DatesPending => DatesPending' \/ unseen'
Selects == grid' = grid /\ (DatesPending' \/ cam' = 0 \/ date' = 0)
Fills == /\ UNCHANGED <<cam, date, unseen>>
         /\ DatesPending => DatesPending'
         /\ \A card \in grid' : card \in grid \/ /\ card.cam = cam /\ card.date = date
                                                 /\ Exists(card.image)

LEMMA KindsKnown ==
  ASSUME NEW s \in Seq(Requests), NEW i \in DOMAIN s
  PROVE  s[i].kind \in Kinds /\ s[i].answer.status \in {0, 200, 401}
<1>1. s[i] \in Requests
  OBVIOUS
<1> QED
  BY <1>1 DEF Requests, Answers

LEMMA PageTyped == TypeOK => PageTypeOK
BY DEF TypeOK, PageTypeOK

LEMMA PendingWhenSent ==
  ASSUME NEW rest \in Seq(Requests), NEW q \in Requests, requests' = Append(rest, q),
         q.kind = "dates" \/ \E r \in Range(rest) : r.kind = "dates"
  PROVE  DatesPending'
<1>1. Range(requests') = Range(rest) \cup {q}
  BY Appended
<1> QED
  BY <1>1 DEF DatesPending, Range

LEMMA RestTyped ==
  ASSUME TypeOK, RequestInv, NEW rest \in Rests
  PROVE  /\ rest \in Seq(Requests) /\ Len(rest) \in Nat /\ Len(rest) <= MaxPending
         /\ Range(rest) \subseteq Range(requests)
<1>0. requests \in Seq(Requests) /\ Len(requests) \in Nat /\ Len(requests) <= MaxPending
      /\ MaxPending \in Nat
  BY ClientAssumption DEF TypeOK, RequestInv
<1>1. CASE rest = requests
  BY <1>0, <1>1
<1>2. CASE rest = <<>>
  BY <1>0, <1>2 DEF Range
<1>3. ASSUME NEW i \in DOMAIN requests, rest = RemoveAt(requests, i)
      PROVE  /\ rest \in Seq(Requests) /\ Len(rest) \in Nat /\ Len(rest) <= MaxPending
             /\ Range(rest) \subseteq Range(requests)
  <2>1. rest \in Seq(Requests) /\ Len(rest) = Len(requests) - 1 /\ Range(rest) \subseteq Range(requests)
    BY <1>0, <1>3, Removed
  <2>2. Len(rest) \in Nat
    BY <2>1
  <2> QED
    BY <1>0, <2>1, <2>2
<1> QED
  BY <1>1, <1>2, <1>3 DEF Rests

\* Without a request there is room for another.
LEMMA RestHasRoom ==
  ASSUME TypeOK, RequestInv, NEW i \in DOMAIN requests
  PROVE  /\ requests[i] \in Requests /\ Truthful(requests[i])
         /\ RemoveAt(requests, i) \in Rests /\ Len(RemoveAt(requests, i)) < MaxPending
         /\ \A r \in Range(requests) : r = requests[i] \/ r \in Range(RemoveAt(requests, i))
<1>0. requests \in Seq(Requests) /\ Len(requests) \in Nat /\ Len(requests) <= MaxPending
      /\ MaxPending \in Nat
  BY ClientAssumption DEF TypeOK, RequestInv
<1>1. Len(RemoveAt(requests, i)) = Len(requests) - 1
      /\ \A r \in Range(requests) : r = requests[i] \/ r \in Range(RemoveAt(requests, i))
  BY <1>0, Removed
<1>2. requests[i] \in Requests /\ requests[i] \in Range(requests)
  BY <1>0 DEF Range
<1>3. Len(RemoveAt(requests, i)) < MaxPending
  BY <1>0, <1>1
<1> QED
  BY <1>1, <1>2, <1>3 DEF RequestInv, Rests

LEMMA EmptyIsRest == <<>> \in Rests /\ requests \in Rests
BY DEF Rests

\* A page that opens has no cards, and asks for the cameras at most.
LEMMA OpenStep ==
  ASSUME TypeOK, RequestInv, NEW name \in {"login", "viewer"}, Open(name)
  PROVE  Sends /\ Clears
         /\ page' \in {"login", "viewer"} /\ boot' \in {"cameras", "dates", "done"}
         /\ cam' \in Cameras \cup {0} /\ date' \in 0..Days
         /\ items' \subseteq Cameras /\ options' \subseteq 1..Days
         /\ grid' = {} /\ unseen' \in BOOLEAN
<1>1. 0 \in 0..Days /\ lastCam \in Cameras \cup {0} /\ lastDate \in 0..Days
  BY ServiceAssumption DEF TypeOK
<1>2. Sends
  <2> DEFINE q == Request("cameras", 0, 0, FALSE, FALSE)
  <2>1. q \in Requests /\ q.answer = NoAnswer
    <3>1. "cameras" \in Kinds /\ 0 \in Cameras \cup {0} /\ FALSE \in BOOLEAN
      BY DEF Kinds
    <3> QED
      BY <1>1, <3>1, RequestTyped
  <2>2. Append(<<>>, q) = <<q>> /\ Len(<<>>) < MaxPending
    BY ClientAssumption
  <2>3. requests' = <<q>> \/ requests' = <<>>
    BY DEF Open
  <2> QED
    BY <2>1, <2>2, <2>3, EmptyIsRest DEF Sends
<1> QED
  BY <1>1, <1>2 DEF Open, Clears

\* loadImages sends its request in either case.
LEMMA LoadSends ==
  ASSUME TypeOK, RequestInv, NEW d \in 0..Days, NEW rest \in Rests, Len(rest) < MaxPending,
         requests' = rest \/ requests' = Append(rest, ImagesOf(cam, d))
  PROVE  Sends /\ \A r \in Range(rest) : r \in Range(requests')
<1>1. cam \in Cameras \cup {0} /\ rest \in Seq(Requests)
  BY RestTyped DEF TypeOK
<1>2. CASE requests' = rest
  BY <1>2 DEF Sends
<1>3. CASE requests' = Append(rest, ImagesOf(cam, d))
  <2>1. ImagesOf(cam, d) \in Requests /\ ImagesOf(cam, d).answer = NoAnswer
    BY <1>1, RequestTyped DEF ImagesOf, Kinds
  <2>2. Sends
    BY <1>3, <2>1 DEF Sends
  <2>3. Range(requests') = Range(rest) \cup {ImagesOf(cam, d)}
    BY <1>1, <1>3, <2>1, Appended
  <2> QED
    BY <2>2, <2>3
<1> QED
  BY <1>2, <1>3

\* With the spinner it clears the cards, or there is no selection.
LEMMA SpinnerStep ==
  ASSUME TypeOK, RequestInv, NEW d \in 0..Days, NEW rest \in Rests, Len(rest) < MaxPending,
         LoadImages(d, TRUE, rest)
  PROVE  /\ Sends /\ date' = d /\ unseen' \in BOOLEAN
         /\ grid' = {} \/ (grid' = grid /\ (cam = 0 \/ d = 0))
<1>1. unseen \in BOOLEAN /\ date' = d /\ (requests' = rest \/ requests' = Append(rest, ImagesOf(cam, d)))
  BY DEF LoadImages, TypeOK
<1>2. unseen' \in BOOLEAN /\ (grid' = {} \/ (grid' = grid /\ (cam = 0 \/ d = 0)))
  <2>1. CASE cam = 0 \/ d = 0
    BY <1>1, <2>1 DEF LoadImages
  <2>2. CASE ~(cam = 0 \/ d = 0)
    BY <1>1, <2>2 DEF LoadImages
  <2> QED
    BY <2>1, <2>2
<1>3. Sends
  BY <1>1, LoadSends
<1> QED
  BY <1>1, <1>2, <1>3

\* Without it the cards wait for the answer.
LEMMA RefreshStep ==
  ASSUME TypeOK, RequestInv, NEW rest \in Rests, Len(rest) < MaxPending,
         LoadImages(date, FALSE, rest)
  PROVE  /\ Sends /\ UNCHANGED <<date, grid, unseen>>
         /\ \A r \in Range(rest) : r \in Range(requests')
<1>1. /\ date \in 0..Days /\ unseen \in BOOLEAN
      /\ requests' = rest \/ requests' = Append(rest, ImagesOf(cam, date))
  BY DEF LoadImages, TypeOK
<1>2. UNCHANGED <<date, grid, unseen>>
  <2>1. CASE cam = 0 \/ date = 0
    BY <1>1, <2>1 DEF LoadImages
  <2>2. CASE ~(cam = 0 \/ date = 0)
    BY <1>1, <2>2 DEF LoadImages
  <2> QED
    BY <2>1, <2>2
<1>3. Sends /\ \A r \in Range(rest) : r \in Range(requests')
  BY <1>1, LoadSends
<1> QED
  BY <1>2, <1>3

LEMMA SelectStep ==
  ASSUME TypeOK, RequestInv, NEW c \in Cameras, NEW initial \in BOOLEAN, NEW awaited \in BOOLEAN,
         NEW rest \in Rests, Len(rest) < MaxPending, SelectCamera(c, initial, awaited, rest)
  PROVE  Sends /\ DatesPending' /\ cam' = c /\ lastCam' = c
<1>1. 0 \in 0..Days /\ rest \in Seq(Requests)
  BY ServiceAssumption, RestTyped
<1>2. /\ DatesOf(c, initial, awaited) \in Requests /\ DatesOf(c, initial, awaited).answer = NoAnswer
      /\ DatesOf(c, initial, awaited).kind = "dates"
  BY <1>1, RequestTyped DEF DatesOf, Kinds
<1>3. requests' = Append(rest, DatesOf(c, initial, awaited)) /\ cam' = c /\ lastCam' = c
  BY DEF SelectCamera
<1>4. Sends
  BY <1>2, <1>3 DEF Sends
<1>5. DatesPending'
  BY <1>1, <1>2, <1>3, PendingWhenSent
<1> QED
  BY <1>3, <1>4, <1>5

\* What a step that is no Serve makes of the page.
PageMoves == PageTypeOK' /\ Sends /\ (Clears \/ Keeps \/ Selects \/ Fills)

LEMMA UserMoves ==
  ASSUME TypeOK, RequestInv, User \/ Poll
  PROVE  PageMoves
<1>0. PageTypeOK /\ 0 \in 0..Days
  BY PageTyped, ServiceAssumption
<1>1. CASE Login
  <2>1. Open("viewer") /\ UNCHANGED <<lastCam, lastDate, clicks>>
    BY <1>1 DEF Login
  <2> QED
    BY <1>0, <2>1, OpenStep DEF PageMoves, PageTypeOK
<1>2. CASE Logout
  <2>1. PICK name \in {"login", "viewer"} : Open(name)
    BY <1>2 DEF Logout, Land
  <2>2. UNCHANGED <<lastCam, lastDate>> /\ clicks' \in 0..MaxClicks
    BY <1>0, <1>2, ClientAssumption DEF Logout, Click, PageTypeOK
  <2> QED
    BY <1>0, <2>1, <2>2, OpenStep DEF PageMoves, PageTypeOK
<1>3. CASE Reload
  <2>1. PICK name \in {"login", "viewer"} : Open(name)
    BY <1>3 DEF Reload, Land
  <2>2. UNCHANGED <<lastCam, lastDate, clicks>>
    BY <1>3 DEF Reload
  <2> QED
    BY <1>0, <2>1, <2>2, OpenStep DEF PageMoves, PageTypeOK
<1>4. CASE ClickCamera
  <2>1. PICK c \in items : SelectCamera(c, FALSE, FALSE, requests)
    BY <1>4 DEF ClickCamera
  <2>2. c \in Cameras /\ Len(requests) < MaxPending /\ clicks' \in 0..MaxClicks
    BY <1>0, <1>4, ClientAssumption DEF ClickCamera, Room, Click, PageTypeOK
  <2>3. Sends /\ DatesPending' /\ cam' = c /\ lastCam' = c
    BY <2>1, <2>2, SelectStep, EmptyIsRest
  <2>4. UNCHANGED <<page, boot, date, items, options, grid, unseen, lastDate>>
    BY <1>4 DEF ClickCamera
  <2> QED
    BY <1>0, <2>2, <2>3, <2>4 DEF PageMoves, PageTypeOK, Selects
<1>5. CASE SelectDate
  <2>1. PICK d \in options \cup {0} : LoadImages(d, TRUE, requests) /\ lastDate' = d
    BY <1>5 DEF SelectDate
  <2>2. d \in 0..Days /\ Len(requests) < MaxPending /\ clicks' \in 0..MaxClicks
    BY <1>0, <1>5, ServiceAssumption, ClientAssumption DEF SelectDate, Room, Click, PageTypeOK
  <2>a. requests \in Rests
    BY EmptyIsRest
  <2>3. /\ Sends /\ date' = d /\ unseen' \in BOOLEAN
        /\ grid' = {} \/ (grid' = grid /\ (cam = 0 \/ d = 0))
    BY <2>1, <2>2, <2>a, SpinnerStep
  <2>4. UNCHANGED <<page, boot, cam, items, options, lastCam>>
    BY <1>5 DEF SelectDate
  <2> QED
    BY <1>0, <2>1, <2>2, <2>3, <2>4 DEF PageMoves, PageTypeOK, Selects, Clears
<1>6. CASE ManualRefresh \/ Poll
  <2>1. /\ LoadImages(date, FALSE, requests)
        /\ UNCHANGED <<page, boot, cam, items, options, lastCam, lastDate>>
    BY <1>6 DEF ManualRefresh, Poll
  <2>2. date \in 0..Days /\ Len(requests) < MaxPending /\ requests \in Rests
    BY <1>0, <1>6, EmptyIsRest DEF ManualRefresh, Poll, Room, PageTypeOK
  <2>a. clicks' \in 0..MaxClicks
    <3>1. clicks' = clicks \/ Click
      BY <1>6 DEF ManualRefresh, Poll
    <3> QED
      BY <1>0, <3>1, ClientAssumption DEF Click, PageTypeOK
  <2>3. /\ Sends /\ UNCHANGED <<date, grid, unseen>>
        /\ \A r \in Range(requests) : r \in Range(requests')
    BY <2>1, <2>2, RefreshStep
  <2>4. DatesPending => DatesPending'
    BY <2>3 DEF DatesPending, Range
  <2> QED
    BY <1>0, <2>1, <2>a, <2>3, <2>4 DEF PageMoves, PageTypeOK, Keeps
<1> QED
  BY <1>1, <1>2, <1>3, <1>4, <1>5, <1>6 DEF User

-----------------------------------------------------------------------------
(* The answers *)

LEMMA CamerasStep ==
  ASSUME TypeOK, RequestInv, NEW listed \in SUBSET Cameras, NEW rest \in Rests,
         Len(rest) < MaxPending, AfterCameras(listed, rest)
  PROVE  /\ Sends /\ (DatesPending' \/ cam' = 0)
         /\ boot' \in {"dates", "done"} /\ items' \subseteq Cameras /\ date' \in 0..Days
         /\ cam' \in Cameras \cup {0} /\ lastCam' \in Cameras \cup {0}
<1>0. date \in 0..Days /\ 0 \in 0..Days /\ lastCam \in Cameras \cup {0} /\ items' = listed
  BY ServiceAssumption DEF TypeOK, AfterCameras
<1>1. ASSUME NEW c \in listed, SelectCamera(c, TRUE, TRUE, rest) \/ SelectCamera(c, FALSE, TRUE, rest)
      PROVE  Sends /\ DatesPending' /\ cam' = c /\ lastCam' = c /\ c \in Cameras
  <2>1. CASE SelectCamera(c, TRUE, TRUE, rest)
    BY <2>1, SelectStep
  <2>2. CASE SelectCamera(c, FALSE, TRUE, rest)
    BY <2>2, SelectStep
  <2> QED
    BY <1>1, <2>1, <2>2
<1>2. CASE cam \in listed
  <2>1. boot' = "dates" /\ SelectCamera(cam, TRUE, TRUE, rest) /\ UNCHANGED date
    BY <1>2 DEF AfterCameras
  <2> QED
    BY <1>0, <1>1, <1>2, <2>1
<1>3. CASE cam \notin listed /\ listed # {}
  <2>1. boot' = "dates" /\ SelectCamera(Min(listed), FALSE, TRUE, rest) /\ date' \in {date, 0}
    BY <1>3 DEF AfterCameras
  <2>2. Min(listed) \in listed
    BY <1>3, FirstListed
  <2> QED
    BY <1>0, <1>1, <2>1, <2>2
<1>4. CASE listed = {}
  <2>1. boot' = "done" /\ cam' = 0 /\ requests' = rest /\ UNCHANGED lastCam /\ date' \in {date, 0}
    BY <1>4 DEF AfterCameras
  <2> QED
    BY <1>0, <2>1 DEF Sends
<1> QED
  BY <1>2, <1>3, <1>4

LEMMA AnswerMoves ==
  ASSUME TypeOK, RequestInv, NEW i \in DOMAIN requests, Arrive(i)
  PROVE  PageMoves
<1> DEFINE r == requests[i]
           rest == RemoveAt(requests, i)
<1>0. PageTypeOK /\ 0 \in 0..Days
  BY PageTyped, ServiceAssumption
<1>a. /\ r \in Requests /\ Truthful(r)
      /\ rest \in Rests /\ Len(rest) < MaxPending
      /\ \A q \in Range(requests) : q = r \/ q \in Range(rest)
  BY RestHasRoom
<1>b. r.awaited \in BOOLEAN
  BY <1>a DEF Requests
<1>c. ASSUME r.kind # "dates", requests' = rest PROVE DatesPending => DatesPending'
  BY <1>a, <1>c DEF DatesPending, Range
<1>d. ASSUME requests' = rest PROVE Sends
  BY <1>a, <1>d DEF Sends
<1> HIDE DEF r, rest
<1>1. CASE Unauthorized(i)
  <2>1. PICK name \in {"login", "viewer"} : Open(name)
    BY <1>1 DEF Unauthorized, Land
  <2>2. UNCHANGED <<lastCam, lastDate, clicks>>
    BY <1>1 DEF Unauthorized
  <2> QED
    BY <1>0, <2>1, <2>2, OpenStep DEF PageMoves, PageTypeOK
<1>2. CASE CamerasAnswered(i)
  <2>1. /\ r.kind = "cameras" /\ r.answer.status = 200
        /\ AfterCameras(r.answer.body, rest)
        /\ UNCHANGED <<page, options, grid, unseen, lastDate, clicks>>
    BY <1>2 DEF CamerasAnswered, Arrived, r, rest
  <2>2. r.answer.body \in SUBSET Cameras
    BY <1>a, <2>1 DEF Truthful
  <2>3. /\ Sends /\ (DatesPending' \/ cam' = 0)
        /\ boot' \in {"dates", "done"} /\ items' \subseteq Cameras /\ date' \in 0..Days
        /\ cam' \in Cameras \cup {0} /\ lastCam' \in Cameras \cup {0}
    BY <1>a, <2>1, <2>2, CamerasStep
  <2> QED
    BY <1>0, <2>1, <2>3 DEF PageMoves, PageTypeOK, Selects
<1>3. CASE DatesAnswered(i)
  <2> DEFINE chosen == ChosenDate(r.initial, r.answer.body)
  <2>1. /\ r.kind = "dates" /\ r.answer.status = 200
        /\ options' = r.answer.body
        /\ lastDate' \in {lastDate, chosen}
        /\ LoadImages(chosen, TRUE, rest)
        /\ boot' \in {"done", boot}
        /\ UNCHANGED <<page, cam, items, lastCam, clicks>>
    BY <1>3 DEF DatesAnswered, Arrived, AfterDates, r, rest
  <2>2. r.answer.body \in SUBSET (1..Days)
    BY <1>a, <2>1 DEF Truthful
  <2>3. chosen \in 0..Days
    <3>1. chosen \in r.answer.body \/ chosen = date
      BY <2>2, NewestListed DEF ChosenDate
    <3>2. \A d \in 1..Days : d \in 0..Days
      OBVIOUS
    <3> QED
      BY <1>0, <2>2, <3>1, <3>2 DEF PageTypeOK
  <2> HIDE DEF chosen
  <2>4. /\ Sends /\ date' = chosen /\ unseen' \in BOOLEAN
        /\ grid' = {} \/ (grid' = grid /\ (cam = 0 \/ chosen = 0))
    BY <1>a, <2>1, <2>3, SpinnerStep
  <2> QED
    BY <1>0, <2>1, <2>2, <2>3, <2>4 DEF PageMoves, PageTypeOK, Selects, Clears
<1>4. CASE ImagesAnswered(i)
  <2>1. /\ r.kind = "images" /\ r.answer.status = 200 /\ requests' = rest
        /\ UNCHANGED <<page, boot, cam, date, items, options, unseen, lastCam, lastDate, clicks>>
    BY <1>4 DEF ImagesAnswered, Arrived, r, rest
  <2>2. ASSUME NEW card \in grid'
        PROVE  \/ card \in grid
               \/ card.cam = cam /\ card.date = date /\ card.image \in r.answer.body
    BY <1>4 DEF ImagesAnswered, r
  <2>3. \A m \in r.answer.body : Exists(m)
    BY <1>a, <2>1 DEF Truthful
  <2>4. Fills
    BY <1>c, <2>1, <2>2, <2>3 DEF Fills
  <2>5. \A card \in grid' : card.cam \in Cameras \cup {0} /\ card.date \in 0..Days
    BY <1>0, <2>2 DEF PageTypeOK
  <2> QED
    BY <1>0, <1>d, <2>1, <2>4, <2>5 DEF PageMoves, PageTypeOK
<1>5. CASE RequestFails(i)
  <2>1. UNCHANGED <<page, options, grid, lastDate, clicks>>
    BY <1>5 DEF RequestFails
  <2>2. CASE r.kind = "cameras"
    <3>1. AfterCameras({}, rest) /\ UNCHANGED unseen
      BY <1>5, <2>2 DEF RequestFails, r, rest
    <3>2. /\ Sends /\ (DatesPending' \/ cam' = 0)
          /\ boot' \in {"dates", "done"} /\ items' \subseteq Cameras /\ date' \in 0..Days
          /\ cam' \in Cameras \cup {0} /\ lastCam' \in Cameras \cup {0}
      BY <1>a, <3>1, CamerasStep
    <3> QED
      BY <1>0, <2>1, <3>1, <3>2 DEF PageMoves, PageTypeOK, Selects
  <2>3. CASE r.kind # "cameras"
    <3>1. /\ boot' \in {"done", boot} /\ requests' = rest
          /\ unseen' = (unseen \/ r.kind = "dates")
          /\ UNCHANGED <<cam, date, items, lastCam>>
      BY <1>5, <2>3 DEF RequestFails, AfterDates, r, rest
    <3>2. unseen' \in BOOLEAN /\ (unseen => unseen') /\ (r.kind = "dates" => unseen')
      BY <3>1
    <3>3. Keeps
      BY <1>c, <2>1, <3>1, <3>2 DEF Keeps
    <3> QED
      BY <1>0, <1>d, <2>1, <3>1, <3>2, <3>3 DEF PageMoves, PageTypeOK
  <2> QED
    BY <2>2, <2>3
<1> QED
  BY <1>1, <1>2, <1>3, <1>4, <1>5 DEF Arrive

\* A listing holds pictures that exist.
LEMMA ImagesListed ==
  ASSUME TypeOK, NEW c, NEW d
  PROVE  get_images(c, d) \subseteq Pictures /\ \A m \in get_images(c, d) : Exists(m)
<1> SUFFICES ASSUME NEW m \in get_images(c, d) PROVE m \in Pictures /\ Exists(m)
  OBVIOUS
<1>1. PICK n \in IF d \in Dates(c) THEN 1..captures[<<c, d>>] ELSE {} :
        m = [cam |-> c, date |-> d, n |-> n]
  BY DEF get_images
<1>2. /\ d \in Dates(c) /\ <<c, d>> \in Folders /\ d \in 1..Days
      /\ n \in 1..captures[<<c, d>>] /\ captures[<<c, d>>] \in Int
  BY <1>1 DEF Dates, TypeOK, ServiceTypeOK, NoFolder
<1>3. c \in Cameras /\ n \in Nat
  BY <1>2 DEF Folders
<1>4. m \in Pictures
  BY <1>1, <1>2, <1>3 DEF Pictures
<1>5. m.cam = c /\ m.date = d
  BY <1>1
<1> QED
  BY <1>4, <1>5 DEF Exists, ImageExists

LEMMA AnswerTyped ==
  ASSUME TypeOK, NEW r \in Requests
  PROVE  Answer(r) \in Answers /\ Truthful([r EXCEPT !.answer = Answer(r)])
<1> DEFINE answered == [r EXCEPT !.answer = Answer(r)]
<1>1. answered.kind = r.kind /\ answered.answer = Answer(r) /\ r.kind \in Kinds
  BY DEF Requests
<1>2. CASE ~SessionUser
  <2>1. Answer(r) = [status |-> 401, body |-> {}]
    BY <1>2 DEF Answer
  <2> QED
    BY <1>1, <2>1 DEF Answers, Truthful
<1>3. CASE SessionUser /\ r.kind = "cameras"
  <2>1. Answer(r) = [status |-> 200, body |-> get_cameras]
    BY <1>3 DEF Answer
  <2>2. get_cameras \subseteq Cameras
    BY DEF get_cameras
  <2> QED
    BY <1>1, <1>3, <2>1, <2>2 DEF Answers, Truthful
<1>4. CASE SessionUser /\ r.kind = "dates"
  <2>1. Answer(r) = [status |-> 200, body |-> Dates(r.cam)]
    BY <1>4 DEF Answer
  <2>2. Dates(r.cam) \subseteq 1..Days
    BY DEF Dates
  <2> QED
    BY <1>1, <1>4, <2>1, <2>2 DEF Answers, Truthful
<1>5. CASE SessionUser /\ r.kind = "images"
  <2>1. Answer(r) = [status |-> 200, body |-> get_images(r.cam, r.date)]
    BY <1>5 DEF Answer
  <2>2. /\ get_images(r.cam, r.date) \subseteq Pictures
        /\ \A m \in get_images(r.cam, r.date) : Exists(m)
    BY ImagesListed
  <2> QED
    BY <1>1, <1>5, <2>1, <2>2 DEF Answers, Truthful
<1> QED
  BY <1>1, <1>2, <1>3, <1>4, <1>5 DEF Kinds

\* The server's answer changes no request but its own.
LEMMA ServeStep ==
  ASSUME TypeOK, RequestInv, NEW i \in DOMAIN requests, Serve(i)
  PROVE  /\ PageTypeOK' /\ Keeps
         /\ requests' \in Seq(Requests) /\ Len(requests') <= MaxPending
         /\ \A r \in Range(requests') : r \in Range(requests) \/ Truthful(r)
<1> DEFINE answered == [requests[i] EXCEPT !.answer = Answer(requests[i])]
<1>0. /\ PageTypeOK
      /\ UNCHANGED <<page, boot, cam, date, items, options, grid, unseen, lastCam, lastDate, clicks>>
  BY PageTyped DEF Serve
<1>1. requests \in Seq(Requests) /\ requests[i] \in Requests /\ i \in 1..Len(requests)
  BY DEF RequestInv
<1>2. answered \in Requests /\ Truthful(answered) /\ answered.kind = requests[i].kind
  BY <1>1, AnswerTyped DEF Requests
<1>3. requests' = [requests EXCEPT ![i] = answered]
  BY DEF Serve
<1> HIDE DEF answered
<1>4. /\ requests' \in Seq(Requests) /\ Len(requests') = Len(requests)
      /\ \A j \in 1..Len(requests) : requests'[j] = IF j = i THEN answered ELSE requests[j]
  BY <1>1, <1>2, <1>3, ExceptSeq
<1>5. DOMAIN requests = 1..Len(requests) /\ DOMAIN requests' = 1..Len(requests)
  BY <1>1, <1>4
<1>6. \A r \in Range(requests') : r \in Range(requests) \/ Truthful(r)
  BY <1>2, <1>4, <1>5 DEF Range
<1>7. DatesPending => DatesPending'
  BY <1>2, <1>4, <1>5 DEF DatesPending
<1>8. Len(requests') <= MaxPending
  BY <1>4 DEF TypeOK
<1>9. PageTypeOK'
  BY <1>0 DEF PageTypeOK
<1> QED
  BY <1>0, <1>4, <1>6, <1>7, <1>8, <1>9 DEF Keeps

-----------------------------------------------------------------------------
(* The invariant *)

LEMMA TruthStays ==
  ASSUME TypeOK, [Next]_vars, NEW r, Truthful(r) PROVE Truthful(r)'
BY ImagesStay DEF Truthful

LEMMA RequestStep ==
  ASSUME TypeOK, RequestInv, [Next]_vars
  PROVE  /\ PageTypeOK' /\ RequestInv' /\ Len(requests') <= MaxPending
         /\ Clears \/ Keeps \/ Selects \/ Fills
<1>0. PageTypeOK /\ requests \in Seq(Requests) /\ Len(requests) <= MaxPending
      /\ \A r \in Range(requests) : Truthful(r)'
  BY PageTyped, TruthStays DEF RequestInv, TypeOK
<1>1. CASE Sends /\ PageMoves
  <2>1. ASSUME NEW rest \in Rests
        PROVE  /\ rest \in Seq(Requests) /\ Len(rest) <= MaxPending /\ Len(rest) \in Nat
               /\ \A r \in Range(rest) : Truthful(r)'
    BY <1>0, RestTyped
  <2>2. CASE requests' \in Rests
    BY <1>1, <2>1, <2>2 DEF PageMoves, RequestInv
  <2>3. CASE \E rest \in Rests, q \in Requests :
               Len(rest) < MaxPending /\ q.answer = NoAnswer /\ requests' = Append(rest, q)
    <3>1. PICK rest \in Rests, q \in Requests :
            Len(rest) < MaxPending /\ q.answer = NoAnswer /\ requests' = Append(rest, q)
      BY <2>3
    <3>2. Truthful(q)'
      BY <3>1 DEF Truthful, NoAnswer
    <3>3. /\ requests' \in Seq(Requests) /\ Len(requests') = Len(rest) + 1
          /\ Range(requests') = Range(rest) \cup {q}
      BY <2>1, <3>1, Appended
    <3>4. Len(requests') <= MaxPending
      BY <2>1, <3>1, <3>3, ClientAssumption
    <3>5. RequestInv'
      BY <2>1, <3>2, <3>3 DEF RequestInv
    <3> QED
      BY <1>1, <3>4, <3>5 DEF PageMoves
  <2> QED
    BY <1>1, <2>2, <2>3 DEF Sends
<1>2. CASE User \/ Poll
  BY <1>1, <1>2, UserMoves DEF PageMoves
<1>3. ASSUME NEW i \in DOMAIN requests, Arrive(i)
      PROVE  /\ PageTypeOK' /\ RequestInv' /\ Len(requests') <= MaxPending
             /\ Clears \/ Keeps \/ Selects \/ Fills
  BY <1>1, <1>3, AnswerMoves DEF PageMoves
<1>4. ASSUME NEW i \in DOMAIN requests, Serve(i)
      PROVE  /\ PageTypeOK' /\ RequestInv' /\ Len(requests') <= MaxPending
             /\ Clears \/ Keeps \/ Selects \/ Fills
  <2>1. /\ PageTypeOK' /\ Keeps
        /\ requests' \in Seq(Requests) /\ Len(requests') <= MaxPending
        /\ \A r \in Range(requests') : r \in Range(requests) \/ Truthful(r)
    BY <1>4, ServeStep
  <2>2. [Next]_vars
    OBVIOUS
  <2>3. \A r \in Range(requests') : Truthful(r)'
    BY <1>0, <2>1, <2>2, TruthStays
  <2> QED
    BY <2>1, <2>3 DEF RequestInv
<1>5. CASE World \/ UNCHANGED vars
  <2>1. UNCHANGED <<page, boot, cam, date, items, options, grid, requests, unseen,
                    lastCam, lastDate, clicks>>
    BY <1>5 DEF World, vars, pageVars
  <2>2. Keeps
    BY <2>1 DEF Keeps, DatesPending
  <2> QED
    BY <1>0, <2>1, <2>2 DEF PageTypeOK, RequestInv
<1> QED
  BY <1>2, <1>3, <1>4, <1>5 DEF Next, Network

LEMMA CardStep == IInv /\ [Next]_vars => CardInv'
<1> SUFFICES ASSUME IInv, [Next]_vars PROVE CardInv'
  OBVIOUS
<1>1. /\ TypeOK /\ RequestInv /\ CardInv
      /\ \A m : Exists(m) => Exists(m)'
  BY ImagesStay DEF IInv
<1>2. Clears \/ Keeps \/ Selects \/ Fills
  BY <1>1, RequestStep
<1>3. CASE Clears
  BY <1>3 DEF Clears, CardInv
<1>4. CASE Keeps
  BY <1>1, <1>4 DEF Keeps, CardInv
<1>5. CASE Selects
  BY <1>1, <1>5 DEF Selects, CardInv
<1>6. CASE Fills
  BY <1>1, <1>6 DEF Fills, CardInv
<1> QED
  BY <1>2, <1>3, <1>4, <1>5, <1>6

LEMMA InvInit == Init => IInv
<1> SUFFICES ASSUME Init PROVE IInv
  OBVIOUS
<1>1. requests \in Seq(Requests) /\ Range(requests) = {} /\ Len(requests) = 0 /\ grid = {}
  BY DEF Init, Range
<1>2. PageTypeOK
  <2>1. 0 \in 0..Days /\ 0 \in 0..MaxClicks
    BY ServiceAssumption, ClientAssumption
  <2> QED
    BY <2>1 DEF Init, PageTypeOK
<1>3. ServiceTypeOK /\ SecretInv
  <2>1. captures \in [Folders -> {NoFolder} \cup Nat]
    BY DEF Init, ServiceInit
  <2>2. cookie \in [secret : 0..secret, expires : 0..(today + MaxAge)]
    BY ServiceAssumption DEF Init, ServiceInit, NoToken
  <2>3. /\ written \in 0..MaxCaptures /\ today \in 2..Days
        /\ secret \in 1..(MaxFaults + 1) /\ faults \in 0..MaxFaults
    BY ServiceAssumption DEF Init, ServiceInit
  <2> QED
    BY <2>1, <2>2, <2>3 DEF Init, ServiceInit, ServiceTypeOK, SecretInv
<1>4. RequestInv /\ CardInv
  BY <1>1 DEF RequestInv, CardInv
<1> QED
  BY <1>1, <1>2, <1>3, <1>4, ClientAssumption DEF IInv, TypeOK, PageTypeOK

LEMMA Invariant == Spec => []IInv
<1>1. IInv /\ [Next]_vars => IInv'
  <2> SUFFICES ASSUME IInv, [Next]_vars PROVE IInv'
    OBVIOUS
  <2>1. ServiceTypeOK' /\ SecretInv'
    BY ServiceStep DEF IInv
  <2>2. PageTypeOK' /\ RequestInv' /\ Len(requests') <= MaxPending
    BY RequestStep DEF IInv
  <2>3. CardInv'
    BY CardStep
  <2>4. \A i \in DOMAIN requests' :
          requests'[i].kind \in Kinds /\ requests'[i].answer.status \in {0, 200, 401}
    BY <2>2, KindsKnown DEF RequestInv
  <2>5. TypeOK'
    BY <2>1, <2>2, <2>4 DEF TypeOK, PageTypeOK
  <2> QED
    BY <2>1, <2>2, <2>3, <2>5 DEF IInv
<1> QED
  BY <1>1, InvInit, PTL DEF Spec

\* Of the card of a selected folder that nothing is on its way to replace.
LEMMA CardsFromInv == CardInv /\ TypeOK => CardsOpen
<1> SUFFICES ASSUME CardInv, TypeOK, NEW card \in grid,
                    card.image.cam = cam, card.image.date = date, ~DatesPending, ~unseen
             PROVE  ImageExists(card.cam, card.date, card.image)
  BY DEF CardsOpen
<1>1. ImageExists(cam, date, card.image)
  BY DEF CardInv, Exists
<1>2. cam \in Cameras /\ date \in 1..Days
  BY <1>1 DEF ImageExists, get_images, Dates, Folders
<1>3. cam # 0 /\ date # 0
  BY <1>2, ServiceAssumption
<1>4. card.cam = cam /\ card.date = date
  BY <1>3 DEF CardInv
<1> QED
  BY <1>1, <1>4

\* Requests, cards, selections and sessions keep within their types and bounds.
THEOREM TypeCorrect == Spec => []TypeOK
BY Invariant, PTL DEF IInv

\* A card of the selected folder opens its picture, whatever was selected, answered
\* late, failed or restarted since it was made.
THEOREM CardsAlwaysOpen == Spec => []CardsOpen
<1>1. IInv => CardsOpen
  BY CardsFromInv DEF IInv
<1> QED
  BY <1>1, Invariant, PTL

=============================================================================
