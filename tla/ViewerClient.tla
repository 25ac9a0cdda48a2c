---------------------------- MODULE ViewerClient ----------------------------
(***************************************************************************)
(* index.html, the page of the viewer, with its service.  The handlers of   *)
(* the page send requests and go on when the answers arrive, in any order   *)
(* and under another selection perhaps: init, selectCamera and loadImages   *)
(* read the globals currentCamera and currentDate after each await.  The    *)
(* polling timer, the user and the answers interleave.  The lightbox, the   *)
(* counters and the toasts are left out.                                    *)
(***************************************************************************)
EXTENDS ViewerService

CONSTANTS MaxPending,   \* bound on requests under way at once
          MaxClicks     \* bound on what the user does with a page

ASSUME ClientAssumption == MaxPending \in Nat \ {0} /\ MaxClicks \in Nat

VARIABLES
  page,       \* "login" or "viewer"
  boot,       \* init waits for the "cameras", for the "dates", or is "done" and polls
  cam, date,  \* currentCamera, currentDate; 0 for null or ''
  lastCam, lastDate,   \* localStorage
  items,      \* the cameras in the side bar
  options,    \* the dates in dateSelect
  grid,       \* the cards, each with the folder in its URL
  requests,   \* under way, in the order they were sent
  unseen,     \* a camera was selected, and its dates were never answered
  clicks

pageVars == <<page, boot, cam, date, items, options, grid, requests, unseen>>
vars == <<serviceVars, pageVars, lastCam, lastDate, clicks>>

NoAnswer == [status |-> 0, body |-> {}]

\* initial: isInitial of selectCamera; awaited: init waits for it.
Request(kind, c, d, initial, awaited) ==
  [kind |-> kind, cam |-> c, date |-> d, initial |-> initial, awaited |-> awaited, answer |-> NoAnswer]

ImagesOf(c, d) == Request("images", c, d, FALSE, FALSE)
DatesOf(c, initial, awaited) == Request("dates", c, 0, initial, awaited)

Kinds == {"cameras", "dates", "images"}
DatesPending == \E i \in DOMAIN requests : requests[i].kind = "dates"

TypeOK ==
  /\ ServiceTypeOK
  /\ page \in {"login", "viewer"}
  /\ boot \in {"cameras", "dates", "done"}
  /\ cam \in Cameras \cup {0} /\ lastCam \in Cameras \cup {0}
  /\ date \in 0..Days /\ lastDate \in 0..Days
  /\ items \subseteq Cameras
  /\ options \subseteq 1..Days
  /\ \A card \in grid : card.cam \in Cameras \cup {0} /\ card.date \in 0..Days
  /\ Len(requests) <= MaxPending
  /\ \A i \in DOMAIN requests : requests[i].kind \in Kinds /\ requests[i].answer.status \in {0, 200, 401}
  /\ unseen \in BOOLEAN
  /\ clicks \in 0..MaxClicks

Init == /\ ServiceInit
        /\ page = "login" /\ boot = "cameras"
        /\ cam = 0 /\ date = 0 /\ lastCam = 0 /\ lastDate = 0
        /\ items = {} /\ options = {} /\ grid = {} /\ unseen = FALSE
        /\ requests = <<>>
        /\ clicks = 0

\* A page begins: the viewer with loadCameras.
Open(name) ==
  /\ page' = name /\ boot' = "cameras"
  /\ cam' = IF name = "viewer" THEN lastCam ELSE 0
  /\ date' = IF name = "viewer" THEN lastDate ELSE 0
  /\ items' = {} /\ options' = {} /\ grid' = {} /\ unseen' = FALSE
  /\ requests' = IF name = "viewer" THEN <<Request("cameras", 0, 0, FALSE, FALSE)>> ELSE <<>>

\* GET / and GET /login: the one redirects to the other, as the session has it.
Land(loggedIn) == Open(IF loggedIn THEN "viewer" ELSE "login")

-----------------------------------------------------------------------------
(* loadImages, up to its await *)

Room == Len(requests) < MaxPending

\* d is the new currentDate, and rest are the other requests; the spinner replaces
\* the cards.
LoadImages(d, showSpinner, rest) ==
  /\ date' = d
  /\ IF cam = 0 \/ d = 0 THEN requests' = rest /\ UNCHANGED <<grid, unseen>>
     ELSE /\ requests' = Append(rest, ImagesOf(cam, d))
          /\ grid' = IF showSpinner THEN {} ELSE grid
          /\ unseen' = (unseen /\ ~showSpinner)

-----------------------------------------------------------------------------
(* The user, and the timer *)

Click == clicks < MaxClicks /\ clicks' = clicks + 1

\* POST /api/login, and on to /.
Login == /\ page = "login"
         /\ cookie' = create_session_token
         /\ Open("viewer")
         /\ UNCHANGED <<captures, written, today, secret, faults, lastCam, lastDate, clicks>>

\* handleLogout; a failing request is ignored, and /login then leads back.
Logout == /\ page = "viewer"
          /\ Click
          /\ \/ cookie' = NoToken /\ Land(FALSE) /\ UNCHANGED faults
             \/ Fault /\ Land(SessionUser) /\ UNCHANGED cookie
          /\ UNCHANGED <<captures, written, today, secret, lastCam, lastDate>>

\* Not bounded: a page can always be visited again.
Reload == /\ Land(SessionUser)
          /\ UNCHANGED <<serviceVars, lastCam, lastDate, clicks>>

\* selectCamera, up to its await.
SelectCamera(c, initial, awaited, rest) ==
  /\ cam' = c /\ lastCam' = c
  /\ requests' = Append(rest, DatesOf(c, initial, awaited))

ClickCamera == /\ page = "viewer"
               /\ Room
               /\ Click
               /\ \E c \in items : SelectCamera(c, FALSE, FALSE, requests)
               /\ UNCHANGED <<serviceVars, page, boot, date, items, options, grid, unseen, lastDate>>

\* The first option, "Select Date", has no value; "Today" needs its option.
SelectDate == /\ page = "viewer"
              /\ options # {}
              /\ Room
              /\ Click
              /\ \E d \in options \cup {0} : LoadImages(d, TRUE, requests) /\ lastDate' = d
              /\ UNCHANGED <<serviceVars, page, boot, cam, items, options, lastCam>>

ManualRefresh == /\ page = "viewer"
                 /\ Room
                 /\ Click
                 /\ LoadImages(date, FALSE, requests)
                 /\ UNCHANGED <<serviceVars, page, boot, cam, items, options, lastCam, lastDate>>

\* pollNewImages: only today's folder can grow.
Poll == /\ page = "viewer"
        /\ boot = "done"
        /\ cam # 0 /\ date = today
        /\ Room
        /\ LoadImages(date, FALSE, requests)
        /\ UNCHANGED <<serviceVars, page, boot, cam, items, options, lastCam, lastDate, clicks>>

-----------------------------------------------------------------------------
(* The answers *)

Serve(i) == /\ requests[i].answer = NoAnswer
            /\ requests' = [requests EXCEPT ![i].answer = Answer(requests[i])]
            /\ UNCHANGED <<serviceVars, page, boot, cam, date, items, options, grid, unseen,
                           lastCam, lastDate, clicks>>

Arrived(i, kind, status) == requests[i].kind = kind /\ requests[i].answer.status = status

\* Mutant: the page makes nothing of a 401.
UnauthorizedIgnored(i) ==
  /\ requests[i].answer.status = 401
  /\ requests' = RemoveAt(requests, i)
  /\ UNCHANGED <<serviceVars, page, boot, cam, date, items, options, grid, unseen, lastCam, lastDate, clicks>>

Unauthorized(i) ==
  /\ requests[i].answer.status = 401
  /\ Land(SessionUser)
  /\ UNCHANGED <<serviceVars, lastCam, lastDate, clicks>>

\* init goes on: the camera of localStorage if it is there, else the first.
AfterCameras(listed, rest) ==
  /\ items' = listed
  /\ IF cam \in listed
     THEN boot' = "dates" /\ SelectCamera(cam, TRUE, TRUE, rest) /\ UNCHANGED date
     ELSE /\ date' = IF cam = 0 THEN date ELSE 0
          /\ IF listed # {} THEN boot' = "dates" /\ SelectCamera(Min(listed), FALSE, TRUE, rest)
             ELSE boot' = "done" /\ cam' = 0 /\ requests' = rest /\ UNCHANGED lastCam

CamerasAnswered(i) ==
  /\ Arrived(i, "cameras", 200)
  /\ AfterCameras(requests[i].answer.body, RemoveAt(requests, i))
  /\ UNCHANGED <<serviceVars, page, options, grid, unseen, lastDate, clicks>>

\* The date that selectCamera leaves: the current one if it may stay, else today,
\* else the newest; and whether it is remembered.
ChosenDate(initial, dates) ==
  IF initial /\ date \in dates THEN date
  ELSE IF today \in dates THEN today
  ELSE IF dates # {} THEN Max(dates) ELSE date

AfterDates(awaited) == boot' = IF awaited THEN "done" ELSE boot

\* Mutant: the cards of the last camera stay until the new images arrive.
DatesAnsweredNoSpinner(i) ==
  LET r == requests[i]
      chosen == ChosenDate(r.initial, r.answer.body)
  IN  /\ Arrived(i, "dates", 200)
      /\ options' = r.answer.body
      /\ lastDate' = IF (r.initial /\ date = chosen) \/ r.answer.body = {} THEN lastDate ELSE chosen
      /\ LoadImages(chosen, FALSE, RemoveAt(requests, i))
      /\ AfterDates(r.awaited)
      /\ UNCHANGED <<serviceVars, page, cam, items, lastCam, clicks>>

\* Whichever camera is selected by now.
DatesAnswered(i) ==
  LET r == requests[i]
      chosen == ChosenDate(r.initial, r.answer.body)
  IN  /\ Arrived(i, "dates", 200)
      /\ options' = r.answer.body
      /\ lastDate' = IF (r.initial /\ date = chosen) \/ r.answer.body = {} THEN lastDate ELSE chosen
      /\ LoadImages(chosen, TRUE, RemoveAt(requests, i))
      /\ AfterDates(r.awaited)
      /\ UNCHANGED <<serviceVars, page, cam, items, lastCam, clicks>>

\* The cards of other images go, missing ones come, with the current selection in
\* their URL.  An empty listing leaves the cards there are.
ImagesAnswered(i) ==
  LET newImages == requests[i].answer.body
      kept == {card \in grid : card.image \in newImages}
      missing == newImages \ {card.image : card \in grid}
  IN  /\ Arrived(i, "images", 200)
      /\ grid' = IF newImages = {} THEN grid
                 ELSE kept \cup {[image |-> m, cam |-> cam, date |-> date] : m \in missing}
      /\ requests' = RemoveAt(requests, i)
      /\ UNCHANGED <<serviceVars, page, boot, cam, date, items, options, unseen, lastCam, lastDate, clicks>>

\* fetch or json raises, and is caught: init goes on.
RequestFails(i) ==
  LET r == requests[i]
      rest == RemoveAt(requests, i)
  IN  /\ Fault
      /\ IF r.kind = "cameras" THEN AfterCameras({}, rest) /\ UNCHANGED unseen
         ELSE /\ AfterDates(r.awaited)
              /\ requests' = rest
              /\ unseen' = (unseen \/ r.kind = "dates")
              /\ UNCHANGED <<cam, date, items, lastCam>>
      /\ UNCHANGED <<captures, written, today, secret, cookie, page, options, grid, lastDate, clicks>>

Arrive(i) == \/ Unauthorized(i) \/ CamerasAnswered(i) \/ DatesAnswered(i)
             \/ ImagesAnswered(i) \/ RequestFails(i)

-----------------------------------------------------------------------------
User == Login \/ Logout \/ Reload \/ ClickCamera \/ SelectDate \/ ManualRefresh

Network == \E i \in DOMAIN requests : Serve(i) \/ Arrive(i)

World == Surroundings /\ UNCHANGED <<pageVars, lastCam, lastDate, clicks>>

Next == User \/ Poll \/ Network \/ World

\* The oldest request gets on: every one does, for it becomes the oldest.
Oldest == requests # <<>> /\ (Serve(1) \/ Arrive(1))

\* The timer ticks every five seconds, and no request takes for ever.
Spec == Init /\ [][Next]_vars /\ WF_vars(Poll) /\ WF_vars(Oldest)

-----------------------------------------------------------------------------
(* Correctness *)

\* A card of the selected folder shows its picture: its URL was made under the same
\* selection, in whatever order selections and answers came since; unless the grid is
\* about to be rebuilt, or the dates of a selected camera could not be had.
CardsOpen ==
  \A card \in grid :
    (card.image.cam = cam /\ card.image.date = date /\ ~DatesPending /\ ~unseen)
      => ImageExists(card.cam, card.date, card.image)

Shown == {card.image : card \in grid}
Watching == page = "viewer" /\ boot = "done" /\ cam # 0 /\ date = today

\* A page that watches today's folder comes to show exactly its images, whatever stale
\* answers and failures came before; and leaves for the login when the session has ended.
LiveFeed ==
  /\ \A c \in Cameras :
       LET folder == get_images(c, today)
       IN  <>[](Watching /\ cam = c /\ folder # {}) => <>[](Shown = folder)
  /\ (Watching /\ ~SessionUser) ~> (page = "login" \/ ~Watching)

=============================================================================
