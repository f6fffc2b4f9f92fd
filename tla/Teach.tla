------------------------------- MODULE Teach -------------------------------
(***************************************************************************)
(* A teach session seen from the browser: the page (TeachPage), the hook   *)
(* that talks to the Brain (useTeachSession) and the Brain's TeachService. *)
(* Every request is a record of net that goes through                      *)
(*    "sent"     on its way to the Brain                                   *)
(*    "await"    read the session, waiting (capture, save)                 *)
(*    "saving"   the session is changed in memory, its row is being saved  *)
(*    "answered" published and answered, the answer is on its way          *)
(* and requests overtake each other at every stage.  A waypoint is the     *)
(* number of the pose it sampled.                                          *)
(***************************************************************************)
EXTENDS Naturals, Sequences, FiniteSets, SequencesExt

CONSTANTS MaxRequests,   \* bound: requests one behaviour sends
          MaxInFlight,   \* bound: requests under way together
          MaxPoses       \* bound: poses one behaviour samples

VARIABLES
  brain,     \* the machine's session at the Brain
  sampled,   \* number of poses sampled so far
  sessions,  \* number of sessions started so far
  programs,  \* waypoint lists of the programs saved so far
  session,   \* the session the page shows
  error,     \* whether the page shows an error
  showSave,  \* whether the save dialog is open
  route,     \* the page shown: "teach" or "programs"
  ws,        \* the page's WebSocket
  net,       \* requests under way
  sent       \* number of requests sent so far

vars == <<brain, sampled, sessions, programs, session, error, showSave, route,
          ws, net, sent>>
brainVars == <<brain, sampled, sessions, programs>>
pageVars == <<session, error, showSave, route>>

Statuses == {"idle", "armed", "recording", "saved", "aborted"}
TEACH_TERMINAL == {"saved", "aborted"}
NoSession == [id |-> 0, status |-> "idle", waypoints |-> <<>>]
NoSocket == [id |-> 0, state |-> "closed", feed |-> <<>>]

-----------------------------------------------------------------------------
(* The page: which controls a session enables.                             *)

IsActive == session # NoSession /\ session.status \notin TEACH_TERMINAL
CanCapture == session.status \in {"recording", "armed"}
CanSave == IsActive /\ session.waypoints # <<>>

\* brainFetch: a request with the session and the argument the closure holds.
brainFetch(op, id, arg) ==
  /\ sent < MaxRequests /\ Cardinality(net) < MaxInFlight
  /\ sent' = sent + 1
  /\ net' = net \union
       {[n |-> sent + 1, op |-> op, id |-> id, arg |-> arg, stage |-> "sent",
         ok |-> TRUE, state |-> NoSession, mounted |-> TRUE]}

\* An action of the hook: nothing without a session, else it clears the error
\* and sends; the new state comes over the WebSocket.
Act(op, arg) ==
  /\ route = "teach" /\ session # NoSession
  /\ error' = FALSE
  /\ brainFetch(op, session.id, arg)
  /\ UNCHANGED <<brainVars, session, route, ws>>

startSession ==
  /\ route = "teach" /\ error' = FALSE
  /\ brainFetch("start", 0, 0)
  /\ UNCHANGED <<brainVars, session, showSave, route, ws>>

startRecording == Act("record", 0) /\ UNCHANGED showSave
capture == Act("capture", 0) /\ UNCHANGED showSave
deleteWaypoint(i) == Act("delete", i) /\ UNCHANGED showSave
save == Act("save", 0) /\ UNCHANGED showSave
abort == Act("abort", 0) /\ UNCHANGED showSave

\* Start a session, begin recording, or nothing while it records.
HandleRecord ==
  \/ ~IsActive /\ startSession
  \/ session.status = "armed" /\ startRecording

\* The save dialog covers the page: nothing under it can be clicked.
Clickable == route = "teach" /\ ~showSave
RecordButton == Clickable /\ HandleRecord
CaptureButton == Clickable /\ CanCapture /\ capture
DiscardButton == Clickable /\ IsActive /\ abort
\* The space bar captures also while the dialog is open; key repeat is not
\* filtered.
KeySpace == CanCapture /\ capture
\* A row of the list deletes the waypoint at its own index.
WaypointRow(i) == i \in DOMAIN session.waypoints /\ deleteWaypoint(i)
WaypointList == Clickable /\ \E i \in DOMAIN session.waypoints : WaypointRow(i)
SaveButton ==
  /\ Clickable /\ CanSave
  /\ showSave' = TRUE
  /\ UNCHANGED <<brainVars, session, error, route, ws, net, sent>>

\* The dialog stays open, and can be confirmed again, until an answer closes it.
SaveDialog ==
  /\ showSave
  /\ \/ save
     \/ showSave' = FALSE /\ UNCHANGED <<brainVars, session, error, route, ws, net, sent>>

\* "Go to Programs": the page is unmounted, its socket closed.
Leave ==
  /\ route' = "programs" /\ session' = NoSession /\ error' = FALSE
  /\ showSave' = FALSE /\ ws' = NoSocket
SavedLink ==
  /\ Clickable /\ session.status = "saved"
  /\ Leave
  /\ net' = {[r EXCEPT !.mounted = FALSE] : r \in net}
  /\ UNCHANGED <<brainVars, sent>>

\* Mounting the page asks for the machine's session.
Mount ==
  /\ route = "programs"
  /\ route' = "teach"
  /\ brainFetch("get", 0, 0)
  /\ UNCHANGED <<brainVars, session, error, showSave, ws>>

-----------------------------------------------------------------------------
(* The Brain.                                                              *)

Move(r, r2) == net' = (net \ {r}) \union {r2}
Refuse(r) ==
  Move(r, [r EXCEPT !.stage = "answered", !.ok = FALSE])
    /\ UNCHANGED <<brain, programs>>
Known(r) == r.id = brain.id /\ brain # NoSession
\* The service puts the changed session into memory and saves its row.
Write(r, s) ==
  brain' = s /\ Move(r, [r EXCEPT !.stage = "saving", !.state = s])

StartSession(r) ==
  IF brain # NoSession /\ brain.status \notin TEACH_TERMINAL
  THEN Refuse(r) /\ UNCHANGED sessions
  ELSE /\ sessions' = sessions + 1
       /\ Write(r, [id |-> sessions + 1, status |-> "armed", waypoints |-> <<>>])
       /\ UNCHANGED programs

\* A session nobody started is answered 404; the page ignores it.
GetSession(r) ==
  /\ Move(r, [r EXCEPT !.stage = "answered", !.ok = brain # NoSession, !.state = brain])
  /\ UNCHANGED <<brain, programs>>

StartRecording(r) ==
  IF Known(r) /\ brain.status = "armed"
  THEN Write(r, [brain EXCEPT !.status = "recording"]) /\ UNCHANGED programs
  ELSE Refuse(r)

\* capture samples the joints and the session, then waits for the machine's row.
CaptureRead(r) ==
  IF Known(r) /\ brain.status \in {"recording", "armed"}
  THEN /\ sampled < MaxPoses
       /\ sampled' = sampled + 1
       /\ Move(r, [r EXCEPT !.stage = "await", !.arg = sampled + 1, !.state = brain])
       /\ UNCHANGED <<brain, programs>>
  ELSE Refuse(r) /\ UNCHANGED sampled

\* Mutant of Captured: the new waypoint is put in front of the others.
CapturedFirst(s, p) == [s EXCEPT !.waypoints = <<p>> \o @]

\* [*session.waypoints, waypoint], from the session read before the wait.
Captured(s, p) == [s EXCEPT !.waypoints = Append(@, p)]

CaptureWrite(r) == Write(r, Captured(r.state, r.arg)) /\ UNCHANGED programs

DeleteWaypoint(r) ==
  IF Known(r) /\ brain.status \notin TEACH_TERMINAL /\ r.arg \in DOMAIN brain.waypoints
  THEN Write(r, [brain EXCEPT !.waypoints = RemoveAt(@, r.arg)]) /\ UNCHANGED programs
  ELSE Refuse(r)

Abort(r) ==
  IF Known(r) /\ brain.status \notin TEACH_TERMINAL
  THEN Write(r, [brain EXCEPT !.status = "aborted"]) /\ UNCHANGED programs
  ELSE Refuse(r)

\* save reads the session and waits for the program's row; an aborted session
\* may be saved too.
SaveRead(r) ==
  IF Known(r) /\ brain.status # "saved" /\ brain.waypoints # <<>>
  THEN /\ Move(r, [r EXCEPT !.stage = "await", !.state = brain])
       /\ UNCHANGED <<brain, programs>>
  ELSE Refuse(r)

SaveWrite(r) ==
  /\ Write(r, [r.state EXCEPT !.status = "saved"])
  /\ programs' = Append(programs, r.state.waypoints)

\* The row is saved: the state is published to the socket that is subscribed
\* to this session, and the request answered.
PersistAndPublish(r) ==
  /\ Move(r, [r EXCEPT !.stage = "answered"])
  /\ ws' = IF ws.state = "live" /\ ws.id = r.state.id
           THEN [ws EXCEPT !.feed = Append(@, r.state)] ELSE ws
  /\ UNCHANGED <<brainVars, pageVars, sent>>

Service(r) ==
  /\ \/ /\ r.stage = "sent"
        /\ \/ r.op = "start" /\ StartSession(r) /\ UNCHANGED sampled
           \/ r.op = "capture" /\ CaptureRead(r) /\ UNCHANGED sessions
           \/ /\ \/ r.op = "get" /\ GetSession(r)
                 \/ r.op = "record" /\ StartRecording(r)
                 \/ r.op = "delete" /\ DeleteWaypoint(r)
                 \/ r.op = "abort" /\ Abort(r)
                 \/ r.op = "save" /\ SaveRead(r)
              /\ UNCHANGED <<sampled, sessions>>
     \/ /\ r.stage = "await"
        /\ \/ r.op = "capture" /\ CaptureWrite(r)
           \/ r.op = "save" /\ SaveWrite(r)
        /\ UNCHANGED <<sampled, sessions>>
  /\ UNCHANGED <<pageVars, ws, sent>>

Serve ==
  \E r \in net :
    \/ Service(r)
    \/ r.stage = "saving" /\ PersistAndPublish(r)

\* The WebSocket handler sends a snapshot, waits, and only then subscribes; a
\* session the Brain has replaced is refused.
SessionWs ==
  /\ \/ /\ ws.state = "opening"
        /\ ws' = IF ws.id = brain.id
                 THEN [ws EXCEPT !.state = "snapshot", !.feed = <<brain>>]
                 ELSE [ws EXCEPT !.state = "closed"]
     \/ ws.state = "snapshot" /\ ws' = [ws EXCEPT !.state = "live"]
  /\ UNCHANGED <<brainVars, pageVars, net, sent>>

-----------------------------------------------------------------------------
(* Answers and messages reach the page.                                    *)

\* Mutant of OpenSocket: the socket of the earlier session is kept.
KeepSocket(s) == IF ws.id # 0 THEN ws ELSE [id |-> s.id, state |-> "opening", feed |-> <<>>]

\* Whenever the session's id changes the socket is reopened.
OpenSocket(s) ==
  IF ws.id = s.id THEN ws ELSE [id |-> s.id, state |-> "opening", feed |-> <<>>]

SetSession(s) == session' = s /\ ws' = OpenSocket(s)

\* The answer to the fetch on mount, however late it comes.
FetchAnswered(r) ==
  /\ r.op = "get"
  /\ IF r.ok THEN SetSession(r.state) ELSE UNCHANGED <<session, ws>>
  /\ UNCHANGED <<error, showSave, route>>
StartAnswered(r) ==
  /\ r.op = "start"
  /\ IF r.ok THEN SetSession(r.state) /\ UNCHANGED error
             ELSE error' = TRUE /\ UNCHANGED <<session, ws>>
  /\ UNCHANGED <<showSave, route>>
ActAnswered(r) ==
  /\ r.op \in {"record", "capture", "delete", "abort"}
  /\ error' = (error \/ ~r.ok)
  /\ UNCHANGED <<session, showSave, route, ws>>

\* handleSave closes the dialog in either case, and leaves on success.
HandleSave(r) ==
  /\ r.op = "save"
  /\ IF r.ok THEN Leave
             ELSE error' = TRUE /\ showSave' = FALSE /\ UNCHANGED <<session, route, ws>>

Answer ==
  \E r \in net :
    /\ r.stage = "answered"
    /\ \/ /\ r.mounted
          /\ FetchAnswered(r) \/ StartAnswered(r) \/ ActAnswered(r) \/ HandleSave(r)
       \/ ~r.mounted /\ UNCHANGED <<pageVars, ws>>
    /\ net' = {[q EXCEPT !.mounted = @ /\ route' = route] : q \in net \ {r}}
    /\ UNCHANGED <<brainVars, sent>>

OnMessage ==
  /\ ws.feed # <<>>
  /\ session' = Head(ws.feed)
  /\ ws' = [ws EXCEPT !.feed = Tail(@)]
  /\ UNCHANGED <<brainVars, error, showSave, route, net, sent>>

-----------------------------------------------------------------------------
Init ==
  /\ brain = NoSession /\ sampled = 0 /\ sessions = 0 /\ programs = <<>>
  /\ session = NoSession /\ error = FALSE /\ showSave = FALSE
  /\ route = "programs" /\ ws = NoSocket /\ net = {} /\ sent = 0

User ==
  \/ RecordButton \/ CaptureButton \/ KeySpace \/ DiscardButton \/ WaypointList
  \/ SaveButton \/ SaveDialog \/ SavedLink \/ Mount

Next == User \/ Serve \/ SessionWs \/ Answer \/ OnMessage

Spec == Init /\ [][Next]_vars

-----------------------------------------------------------------------------
Session == [id : 0..MaxRequests, status : Statuses, waypoints : Seq(1..MaxPoses)]
TypeOK ==
  /\ brain \in Session /\ session \in Session
  /\ sampled \in 0..MaxPoses /\ sessions \in 0..MaxRequests /\ sent \in 0..MaxRequests
  /\ error \in BOOLEAN /\ showSave \in BOOLEAN /\ route \in {"teach", "programs"}
  /\ ws.id \in 0..MaxRequests /\ ws.state \in {"closed", "opening", "snapshot", "live"}

Ascending(s) == \A i, j \in DOMAIN s : i < j => s[i] < s[j]

(* However captures, deletions and saves overtake each other, waypoints are *)
(* in the order their poses were taken, each at most once, at the Brain, on *)
(* the page and in every program.                                          *)
WaypointsInOrder ==
  /\ Ascending(brain.waypoints) /\ Ascending(session.waypoints)
  /\ \A i \in DOMAIN programs : Ascending(programs[i]) /\ programs[i] # <<>>

(* The socket the page listens on is that of the session it shows, also    *)
(* when a late answer brings back an earlier session.                      *)
SocketFollowsSession ==
  /\ session # NoSession => ws.id = session.id
  /\ \A i \in DOMAIN ws.feed : ws.feed[i].id = ws.id

(* "Snapshot the current joint state and append it as a Waypoint"          *)
(* (teach_service.py:159): the waypoints a session has when a capture is   *)
(* written are still there afterwards, in front of the new one.            *)
CaptureAppends ==
  [][\A r \in net : r.op = "capture" /\ r.stage = "await" /\ CaptureWrite(r)
       => brain'.waypoints = Append(brain.waypoints, r.arg)]_vars
=============================================================================
