---------------------------- MODULE ViewerService ----------------------------
(***************************************************************************)
(* viewer_service.py: HTTP handlers over the directory of captures that the *)
(* detectors fill, behind a session cookie signed with the secret of the    *)
(* process.  A day is a number, a folder is a camera and a day, and an      *)
(* image is its folder and its number in it: file names hold a time stamp,  *)
(* a hash and the detector, so that no two folders share one.  Passwords,   *)
(* Basic Auth and the bypass token are left out: no page sends them.        *)
(***************************************************************************)
EXTENDS Integers, SequencesExt

CONSTANTS Cameras,       \* the cameras' numbers
          Days,          \* bound on the clock
          MaxAge,        \* SESSION_MAX_AGE in days
          MaxCaptures,   \* bound on files and folders written
          MaxFaults      \* bound on restarts and failing requests

ASSUME ServiceAssumption == /\ Cameras \subseteq Nat \ {0}
                            /\ Days \in Nat \ {0, 1}
                            /\ MaxAge \in Nat
                            /\ MaxCaptures \in Nat /\ MaxFaults \in Nat

VARIABLES
  captures,   \* /app/captures: how many images each folder has, NoFolder if there is none
  written,    \* how many files and folders were written
  today,      \* the date, of the server and of the browser
  secret,     \* SESSION_SECRET: which life of the process drew it
  cookie,     \* session_token in the browser, or NoToken
  faults

serviceVars == <<captures, written, today, secret, cookie, faults>>

NoFolder == -1
NoToken == [secret |-> 0, expires |-> 0]
Folders == Cameras \X (1..Days)

ServiceTypeOK ==
  /\ captures \in [Folders -> {NoFolder} \cup Nat]
  /\ written \in 0..MaxCaptures
  /\ today \in 2..Days
  /\ secret \in 1..(MaxFaults + 1)
  /\ cookie \in [secret : 0..secret, expires : 0..(today + MaxAge)]
  /\ faults \in 0..MaxFaults

\* The first day is over when the model begins: its folders hold one image or none.
ServiceInit ==
  /\ captures \in {f \in [Folders -> {NoFolder, 1}] : \A c \in Cameras, d \in 2..Days : f[<<c, d>>] = NoFolder}
  /\ written = 0
  /\ today = 2
  /\ secret = 1
  /\ cookie = NoToken
  /\ faults = 0

Fault == faults < MaxFaults /\ faults' = faults + 1

-----------------------------------------------------------------------------
(* The handlers *)

\* Mutant: a day more than SESSION_MAX_AGE.
create_session_token_late == [secret |-> secret, expires |-> today + MaxAge + 1]

create_session_token == [secret |-> secret, expires |-> today + MaxAge]

\* verify_session_token; no token comes from the process's future.
SessionUser == cookie # NoToken /\ today <= cookie.expires /\ cookie.secret = secret

Dates(c) == {d \in 1..Days : <<c, d>> \in Folders /\ captures[<<c, d>>] # NoFolder}

get_cameras == {c \in Cameras : Dates(c) # {}}

get_images(c, d) ==
  {[cam |-> c, date |-> d, n |-> n] : n \in IF d \in Dates(c) THEN 1..captures[<<c, d>>] ELSE {}}

\* require_auth, then the handler that the request names.
Answer(request) ==
  IF ~SessionUser THEN [status |-> 401, body |-> {}]
  ELSE [status |-> 200,
        body |-> CASE request.kind = "cameras" -> get_cameras
                   [] request.kind = "dates" -> Dates(request.cam)
                   [] request.kind = "images" -> get_images(request.cam, request.date)]

\* serve_image finds the image in the folder of its URL.
ImageExists(c, d, image) == image \in get_images(c, d)

-----------------------------------------------------------------------------
(* Detectors, clock and restarts *)

\* A detector saves an image, seen before midnight perhaps; or makes its folder only.
Capture ==
  /\ written < MaxCaptures /\ written' = written + 1
  /\ \E c \in Cameras, d \in {today - 1, today} :
       \/ captures' = [captures EXCEPT ![<<c, d>>] = IF @ = NoFolder THEN 1 ELSE @ + 1]
       \/ captures[<<c, d>>] = NoFolder /\ captures' = [captures EXCEPT ![<<c, d>>] = 0]
  /\ UNCHANGED <<today, secret, cookie, faults>>

Midnight == /\ today < Days /\ today' = today + 1
            /\ UNCHANGED <<captures, written, secret, cookie, faults>>

\* The new life of the process has SESSION_SECRET from its environment, as the last
\* one had, or draws a secret of its own.
Restart == /\ Fault
           /\ secret' \in {secret, secret + 1}
           /\ UNCHANGED <<captures, written, today, cookie>>

Surroundings == Capture \/ Midnight \/ Restart

=============================================================================
