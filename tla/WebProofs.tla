----------------------------- MODULE WebProofs ------------------------------
(***************************************************************************)
(* What is proved of the web interfaces, for all bounds: from the          *)
(* invariants of the parts (MachinePagesProofs, OtherPagesProofs and, for  *)
(* the public site, the first sections here) the properties of Web.  A     *)
(* behaviour is one of one part, so each part has a lemma that says what a *)
(* step of the whole is for it.                                            *)
(***************************************************************************)
EXTENDS Web, MachinePagesProofs, OtherPagesProofs, TLAPS

-----------------------------------------------------------------------------
(* The public site (PublicSite)                                            *)

\* What is assumed of its constants.
LEMMA PublicBounds ==
  ps_MaxMoves \in Nat /\ ps_MaxHistory \in Nat \ {0}
  BY PublicPagesAssumption

PublicPage == Public!Pages \union {"/other"}
PublicCall == PublicPage \union {"error"}

PublicInv ==
  /\ Public!TypeOK
  /\ ps_enabled \in BOOLEAN
  /\ ps_history \in Seq(PublicPage)
  /\ ps_told \in Seq(PublicCall) /\ ps_recorded \in Seq(PublicCall) /\ ps_pending \in Seq(PublicCall)
  /\ ps_told # <<>>
  /\ ps_enabled => ps_recorded \o ps_pending = ps_told
  /\ ~ps_enabled => ps_recorded = <<>> /\ ps_pending = <<>>
  /\ ps_bundle = "loaded" => ps_pending = <<>>
  /\ ~ps_failed => ps_path = ps_history[ps_at] /\ ps_told[Len(ps_told)] = ps_path

\* What telemetry keeps for one more call.
PublicTelemetry(told, recorded, pending) ==
  /\ told \in Seq(PublicCall) /\ recorded \in Seq(PublicCall) /\ pending \in Seq(PublicCall)
  /\ told # <<>>
  /\ ps_enabled => recorded \o pending = told
  /\ ~ps_enabled => recorded = <<>> /\ pending = <<>>
  /\ ps_bundle = "loaded" => pending = <<>>

\* To append to the second of two is to append to both.
LEMMA SeqConcatAppend ==
  ASSUME NEW S, NEW s \in Seq(S), NEW t \in Seq(S), NEW x \in S
  PROVE  s \o Append(t, x) = Append(s \o t, x) /\ s \o <<>> = s
<1>1. Append(t, x) \in Seq(S) /\ s \o t \in Seq(S)
  OBVIOUS
<1>2. s \o Append(t, x) \in Seq(S) /\ Append(s \o t, x) \in Seq(S)
  BY <1>1
<1>3. /\ Len(s \o Append(t, x)) = Len(s) + Len(t) + 1
      /\ Len(Append(s \o t, x)) = Len(s) + Len(t) + 1
  BY <1>1
<1>4. \A i \in 1..Len(s) + Len(t) + 1 : (s \o Append(t, x))[i] = Append(s \o t, x)[i]
  BY <1>1
<1>5. s \o <<>> = s
  OBVIOUS
<1> QED BY <1>2, <1>3, <1>4, <1>5

\* A call of telemetry is recorded or kept, after those before it.
LEMMA PublicRun ==
  ASSUME PublicInv, NEW c \in PublicCall, Public!run(c)
  PROVE  /\ PublicTelemetry(ps_told', ps_recorded', ps_pending') /\ ps_bundle' = ps_bundle
         /\ ps_told'[Len(ps_told')] = c
<1>1. /\ ps_told' = Append(ps_told, c)
      /\ ps_recorded' = IF ps_enabled /\ ps_bundle = "loaded" THEN Append(ps_recorded, c) ELSE ps_recorded
      /\ ps_pending' = IF ps_enabled /\ ps_bundle # "loaded" THEN Append(ps_pending, c) ELSE ps_pending
      /\ ps_bundle' = ps_bundle
  BY DEF Public!run
<1>2. ps_told' # <<>> /\ ps_told'[Len(ps_told')] = c /\ ps_told' \in Seq(PublicCall)
  BY <1>1, SeqLast DEF PublicInv
<1>3. ps_recorded' \in Seq(PublicCall) /\ ps_pending' \in Seq(PublicCall)
  BY <1>1 DEF PublicInv
<1>4. CASE ps_enabled /\ ps_bundle = "loaded"
  <2>1. ps_told = ps_recorded /\ ps_pending = <<>>
    BY <1>4, SeqConcatAppend DEF PublicInv
  <2>2. ps_recorded' = ps_told' /\ ps_pending' = <<>>
    BY <1>1, <1>4, <2>1
  <2>3. ps_recorded' \o ps_pending' = ps_told'
    BY <1>2, <2>2, SeqConcatAppend
  <2> QED BY <1>1, <1>2, <1>3, <1>4, <2>2, <2>3 DEF PublicTelemetry
<1>5. CASE ps_enabled /\ ps_bundle # "loaded"
  <2>1. ps_recorded' \o ps_pending' = ps_told'
    BY <1>1, <1>5, SeqConcatAppend DEF PublicInv
  <2> QED BY <1>1, <1>2, <1>3, <1>5, <2>1 DEF PublicTelemetry
<1>6. CASE ~ps_enabled
  BY <1>1, <1>2, <1>3, <1>6 DEF PublicInv, PublicTelemetry
<1> QED BY <1>4, <1>5, <1>6

\* A new path is told last.
LEMMA PublicPath ==
  ASSUME PublicInv, ~ps_failed, NEW p \in PublicPage, Public!setPath(p)
  PROVE  /\ ps_path' = p /\ ps_bundle' = ps_bundle
         /\ PublicTelemetry(ps_told', ps_recorded', ps_pending')
         /\ ps_told'[Len(ps_told')] = p
<1>1. CASE p # ps_path
  <2>1. ps_path' = p /\ Public!run(p)
    BY <1>1 DEF Public!setPath, Public!recordPage
  <2>2. p \in PublicCall
    BY DEF PublicCall
  <2> QED BY <2>1, <2>2, PublicRun
<1>2. CASE p = ps_path
  BY <1>2 DEF Public!setPath, Public!telemetry, PublicInv, PublicTelemetry
<1> QED BY <1>1, <1>2

\* It holds of the first state.
LEMMA PublicFirst ==
  ASSUME Public!Init
  PROVE  PublicInv
<1>1. ps_path \in PublicCall
  BY DEF Public!Init, PublicCall, PublicPage
<1>2. PICK s : s = <<ps_path>>
  OBVIOUS
<1>3. s \in Seq(PublicCall) /\ s # <<>> /\ Len(s) = 1 /\ s[1] = ps_path /\ <<>> \o s = s
  BY <1>1, <1>2
<1>4. ps_told = s /\ ps_recorded = <<>> /\ ps_pending = (IF ps_enabled THEN s ELSE <<>>)
  BY <1>2 DEF Public!Init
<1>5. ps_history \in Seq(PublicPage) /\ Len(ps_history) = 1 /\ ps_history[1] = ps_path
  BY DEF Public!Init, PublicPage
<1>6. Public!TypeOK
  <2>1. ps_failed \in BOOLEAN /\ ps_path \in Public!Pages \union {"/other"} /\ ps_bundle = "idle"
    BY DEF Public!Init
  <2>2. ps_at = 1 /\ 1 <= ps_MaxHistory
    BY PublicBounds DEF Public!Init
  <2> QED BY <1>5, <2>1, <2>2 DEF Public!TypeOK
<1>7. /\ ps_enabled => ps_recorded \o ps_pending = ps_told
      /\ ~ps_enabled => ps_recorded = <<>> /\ ps_pending = <<>>
      /\ ps_bundle # "loaded" /\ ps_enabled \in BOOLEAN /\ ps_at = 1
  BY <1>3, <1>4 DEF Public!Init
<1>8. ps_pending \in Seq(PublicCall) /\ ps_recorded \in Seq(PublicCall)
  BY <1>3, <1>4
<1> QED BY <1>3, <1>4, <1>5, <1>6, <1>7, <1>8 DEF PublicInv

\* A page of the site is gone to: the entries ahead are dropped.
LEMMA PublicGo ==
  ASSUME PublicInv, NEW p \in Public!Pages, Public!go(p)
  PROVE  PublicInv'
<1>1. /\ ~ps_failed /\ ps_at < ps_MaxHistory
      /\ ps_history' = Append(SubSeq(ps_history, 1, ps_at), p) /\ ps_at' = ps_at + 1
      /\ Public!setPath(p) /\ UNCHANGED <<ps_failed, ps_enabled>>
  BY DEF Public!go
<1>2. p \in PublicPage
  BY DEF PublicPage
<1>3. ps_at \in 1..Len(ps_history) /\ ps_history \in Seq(PublicPage)
  BY DEF PublicInv, Public!TypeOK
<1>4. PICK s : s = SubSeq(ps_history, 1, ps_at)
  OBVIOUS
<1>5. s \in Seq(PublicPage) /\ Len(s) = ps_at
  BY <1>3, <1>4
<1>6. /\ ps_history' \in Seq(PublicPage) /\ Len(ps_history') = ps_at + 1
      /\ ps_history'[ps_at + 1] = p
  BY <1>1, <1>2, <1>4, <1>5
<1>7. /\ ps_path' = p /\ ps_bundle' = ps_bundle
      /\ PublicTelemetry(ps_told', ps_recorded', ps_pending')
      /\ ps_told'[Len(ps_told')] = p
  BY <1>1, <1>2, PublicPath
<1>8. Public!TypeOK'
  <2>1. ps_failed' \in BOOLEAN
    BY <1>1 DEF PublicInv, Public!TypeOK
  <2>2. ps_path' \in Public!Pages \union {"/other"} /\ ps_bundle' \in {"idle", "importing", "loaded", "blocked"}
    BY <1>7 DEF PublicInv, Public!TypeOK
  <2>3. ps_at' \in 1..Len(ps_history') /\ Len(ps_history') <= ps_MaxHistory
    BY <1>1, <1>3, <1>6, PublicBounds
  <2> QED BY <2>1, <2>2, <2>3 DEF Public!TypeOK, Public!Pages
<1>9. ps_enabled' \in BOOLEAN
  BY <1>1 DEF PublicInv
<1>10. /\ ps_enabled' => ps_recorded' \o ps_pending' = ps_told'
       /\ ~ps_enabled' => ps_recorded' = <<>> /\ ps_pending' = <<>>
       /\ ps_bundle' = "loaded" => ps_pending' = <<>>
  BY <1>1, <1>7 DEF PublicTelemetry
<1> QED BY <1>1, <1>6, <1>7, <1>8, <1>9, <1>10 DEF PublicInv, PublicTelemetry

\* Telemetry starts, its bundle comes, an error is caught.
LEMMA PublicSteps ==
  ASSUME PublicInv,
         Public!start \/ Public!Imported \/ Public!componentDidCatch \/ UNCHANGED Public!vars
  PROVE  PublicInv'
<1>1. CASE Public!start
  BY <1>1 DEF Public!start, Public!browser, PublicInv, Public!TypeOK, Public!Pages
<1>2. CASE Public!Imported
  <2>1. UNCHANGED <<ps_path, ps_history, ps_at, ps_failed, ps_enabled, ps_told, ps_moves>>
    BY <1>2 DEF Public!Imported, Public!browser
  <2>2. CASE ps_bundle' = "loaded" /\ ps_pending' = <<>> /\ ps_recorded' = ps_recorded \o ps_pending
    <3>1. ps_recorded' \in Seq(PublicCall)
      BY <2>2 DEF PublicInv
    <3>2. PICK r \in Seq(PublicCall) : r = ps_recorded'
      BY <3>1
    <3>3. r \o <<>> = r
      OBVIOUS
    <3>4. ps_enabled => ps_recorded' \o ps_pending' = ps_told'
      BY <2>1, <2>2, <3>2, <3>3 DEF PublicInv
    <3>5. ~ps_enabled => ps_recorded' = <<>>
      BY <2>2 DEF PublicInv
    <3> QED BY <2>1, <2>2, <3>1, <3>4, <3>5 DEF PublicInv, Public!TypeOK
  <2>3. CASE ps_bundle' = "blocked" /\ UNCHANGED <<ps_pending, ps_recorded>>
    BY <2>1, <2>3 DEF PublicInv, Public!TypeOK
  <2> QED BY <1>2, <2>2, <2>3 DEF Public!Imported
<1>3. CASE Public!componentDidCatch
  <2>1. "error" \in PublicCall
    BY DEF PublicCall
  <2>2. /\ ps_failed' = TRUE /\ Public!run("error")
        /\ UNCHANGED <<ps_path, ps_history, ps_at, ps_enabled, ps_moves>>
    BY <1>3 DEF Public!componentDidCatch, Public!captureError, Public!browser
  <2>3. PublicTelemetry(ps_told', ps_recorded', ps_pending') /\ ps_bundle' = ps_bundle
    BY <2>1, <2>2, PublicRun
  <2>4. Public!TypeOK'
    BY <2>2, <2>3 DEF PublicInv, Public!TypeOK
  <2> QED BY <2>2, <2>3, <2>4 DEF PublicInv, PublicTelemetry
<1>4. CASE UNCHANGED Public!vars
  BY <1>4 DEF Public!vars, Public!browser, Public!telemetry, PublicInv, Public!TypeOK
<1> QED BY <1>1, <1>2, <1>3, <1>4

\* Back and forth, and a reload.
LEMMA PublicMoves ==
  ASSUME PublicInv, Public!onPopState \/ Public!Reload
  PROVE  PublicInv'
<1>1. ps_history \in Seq(PublicPage)
  BY DEF PublicInv
<1>2. CASE Public!onPopState
  <2>1. PICK k \in 1..Len(ps_history) : k = ps_at'
    BY <1>2 DEF Public!onPopState
  <2>2. UNCHANGED <<ps_history, ps_failed, ps_enabled>>
    BY <1>2 DEF Public!onPopState
  <2>3. PICK p \in PublicPage : p = ps_history[k]
    BY <1>1
  <2>4. CASE ps_failed
    <3>1. UNCHANGED <<ps_path, ps_bundle, ps_pending, ps_recorded, ps_told>>
      BY <1>2, <2>4 DEF Public!onPopState, Public!telemetry
    <3>2. Public!TypeOK'
      BY <2>1, <2>2, <3>1 DEF PublicInv, Public!TypeOK
    <3> QED BY <2>2, <2>4, <3>1, <3>2 DEF PublicInv
  <2>5. CASE ~ps_failed
    <3>1. Public!setPath(p)
      BY <1>2, <2>1, <2>3, <2>5 DEF Public!onPopState
    <3>2. /\ ps_path' = p /\ ps_bundle' = ps_bundle
          /\ PublicTelemetry(ps_told', ps_recorded', ps_pending')
          /\ ps_told'[Len(ps_told')] = p
      BY <2>5, <3>1, PublicPath
    <3>3. Public!TypeOK'
      BY <2>1, <2>2, <3>2 DEF PublicInv, Public!TypeOK, PublicPage
    <3>4. ~ps_failed' => ps_path' = ps_history'[ps_at'] /\ ps_told'[Len(ps_told')] = ps_path'
      BY <2>1, <2>2, <2>3, <3>2
    <3> QED BY <2>2, <3>2, <3>3, <3>4 DEF PublicInv, PublicTelemetry
  <2> QED BY <2>4, <2>5
<1>3. CASE Public!Reload
  <2>1. PICK p \in PublicPage : p = ps_history[ps_at]
    BY <1>1 DEF PublicInv, Public!TypeOK
  <2>2. PICK s : s = <<p>>
    OBVIOUS
  <2>3. s \in Seq(PublicCall) /\ s # <<>> /\ Len(s) = 1 /\ s[1] = p /\ <<>> \o s = s
    BY <2>2 DEF PublicCall
  <2>4. /\ UNCHANGED <<ps_history, ps_at, ps_enabled>>
        /\ ps_path' = p /\ ps_failed' = FALSE /\ ps_bundle' = "idle"
        /\ ps_told' = s /\ ps_recorded' = <<>> /\ ps_pending' = IF ps_enabled' THEN s ELSE <<>>
    BY <1>3, <2>1, <2>2 DEF Public!Reload, Public!Document, Public!browser
  <2>5. Public!TypeOK'
    BY <2>4 DEF PublicInv, Public!TypeOK, PublicPage
  <2>6. /\ ps_enabled' => ps_recorded' \o ps_pending' = ps_told'
        /\ ~ps_enabled' => ps_recorded' = <<>> /\ ps_pending' = <<>>
        /\ ps_pending' \in Seq(PublicCall) /\ ps_recorded' \in Seq(PublicCall)
    BY <2>3, <2>4
  <2>7. ps_enabled' \in BOOLEAN
    BY <2>4 DEF PublicInv
  <2> QED BY <2>1, <2>3, <2>4, <2>5, <2>6, <2>7 DEF PublicInv
<1> QED BY <1>2, <1>3

\* Every step keeps it.
LEMMA PublicNext ==
  ASSUME PublicInv, [Public!Next]_(Public!vars)
  PROVE  PublicInv'
<1>1. ASSUME Public!HeaderLinks \/ Public!FooterLinks \/ Public!StartBuilding
      PROVE  \E p \in Public!Pages : Public!go(p)
  BY <1>1 DEF Public!HeaderLinks, Public!FooterLinks, Public!StartBuilding, Public!Pages
<1> QED BY <1>1, PublicGo, PublicSteps, PublicMoves DEF Public!Next

\* It holds what the runs check.
LEMMA PublicShows ==
  ASSUME PublicInv
  PROVE  Public!TypeOK /\ Public!EventsInOrder
<1>1. ps_recorded \o ps_pending = IF ps_enabled THEN ps_told ELSE <<>>
  BY DEF PublicInv
<1>2. Public!Last(ps_told) = ps_told[Len(ps_told)]
  BY DEF Public!Last
<1> QED BY <1>1, <1>2 DEF Public!EventsInOrder, PublicInv

-----------------------------------------------------------------------------
(* The demo (Demo)                                                         *)

\* What is assumed of its constants.
LEMMA DemoBounds ==
  /\ de_Depth \in Nat /\ de_MaxValue \in Nat
  /\ de_MaxFrames \in Nat /\ de_MaxCommands \in Nat
  BY PublicPagesAssumption

DemoSetPoint == [mode : Site!Mode, value : Site!Values]
\* What the page posts: of a user's command, and of the worker's life.
DemoSent(live) ==
  [type : {"SET"}, arg : DemoSetPoint, live : {live}]
  \union [type : {"SET_CONTROL_MODE"}, arg : Site!Mode, live : {live}]
  \union [type : {"UPDATE_GAINS"}, arg : Site!Values, live : {live}]
  \union [type : {"INJECT_FAULT"}, arg : {"OverTemperature", "OverCurrent"}, live : {live}]
  \union [type : {"EXECUTE_TRAJECTORY", "PAUSE_TRAJECTORY", "ABORT_TRAJECTORY", "CLEAR_FAULT",
                  "SET_PLANT_STATE", "APPLY_EXTERNAL_TORQUE"}, arg : {0}, live : {live}]
DemoLife == [type : {"INIT", "START_LOOP"}, arg : {0}, live : BOOLEAN]
DemoCommand == DemoSent(TRUE) \union DemoSent(FALSE) \union DemoLife
DemoMessage == [type : {"READY", "STATE"}, fault : Site!Faults, frame : 0..de_MaxFrames]

DemoTypes ==
  /\ Site!TypeOK
  /\ de_core \in [mode : Site!Mode \union {"None"}, setpoint : DemoSetPoint \union {Site!Hold},
                  exec : {"Idle", "Running", "Paused", "Aborted"}, latched : BOOLEAN]
  /\ de_toWorker \in Seq(DemoCommand) /\ de_toPage \in Seq(DemoMessage)
  /\ de_frames \in 0..de_MaxFrames

\* Before READY arrives nothing is live, and the loop is not asked for; READY
\* is posted once, when the actuator is there.
DemoReady ==
  /\ ~de_ready =>
       /\ ~de_running
       /\ \A i \in DOMAIN de_toWorker : de_toWorker[i].type # "START_LOOP" /\ ~de_toWorker[i].live
       /\ IF de_wasm = "built"
          THEN Len(de_toPage) = 1 /\ de_toPage[1].type = "READY"
          ELSE Len(de_toPage) = 0
  /\ de_ready => de_wasm = "built" /\ \A i \in DOMAIN de_toPage : de_toPage[i].type = "STATE"
  /\ \A i \in DOMAIN de_toWorker : de_toWorker[i].type = "INIT" => i = 1 /\ de_wasm = "idle"

\* The frames posted and not seen are the latest ones, in order, and what is
\* shown ends where they begin.
DemoFrames ==
  /\ ~de_running => de_frames = 0 /\ Len(de_history) = 0 /\ (de_ready => Len(de_toPage) = 0)
  /\ de_running =>
       /\ Len(de_toPage) <= de_frames
       /\ \A i \in DOMAIN de_toPage : de_toPage[i].frame = de_frames - Len(de_toPage) + i
       /\ Len(de_history) # 0 => de_history[Len(de_history)] = de_frames - Len(de_toPage)
  /\ Site!HistoryIsTail

DemoInv == DemoTypes /\ DemoReady /\ DemoFrames

\* It holds of the first state.
LEMMA DemoFirst ==
  ASSUME Site!Init
  PROVE  DemoInv
<1>1. de_wasm = "idle" /\ de_frames = 0 /\ ~de_ready /\ ~de_running
  BY DEF Site!Init
<1>11. de_ready \in BOOLEAN /\ de_running \in BOOLEAN /\ de_shown = "" /\ de_fault = ""
  BY DEF Site!Init
<1>10. /\ de_history \in Seq(1..de_MaxFrames) /\ Len(de_history) = 0
       /\ de_toPage \in Seq(DemoMessage) /\ Len(de_toPage) = 0
  <2>1. de_history = <<>> /\ de_toPage = <<>>
    BY DEF Site!Init
  <2> QED BY <2>1
<1>2. Site!TypeOK
  <2>1. de_panel \in [mode : Site!Mode, target : [Site!Mode -> Site!Values], gains : Site!Values]
    <3>1. de_panel = [mode |-> "Position", target |-> [m \in Site!Mode |-> 0], gains |-> 0]
      BY DEF Site!Init
    <3>2. 0 \in Site!Values
      BY DemoBounds DEF Site!Values
    <3> QED BY <3>1, <3>2 DEF Site!Mode
  <2>2. de_plant \in [temp : {Site!Ambient, Site!Hot}, gains : Site!Values]
    <3>1. de_plant = [temp |-> Site!Ambient, gains |-> 0]
      BY DEF Site!Init
    <3>2. 0 \in Site!Values
      BY DemoBounds DEF Site!Values
    <3> QED BY <3>1, <3>2
  <2>3. de_core.mode = "None" /\ de_core.exec = "Idle"
    BY DEF Site!Init
  <2> QED BY <1>1, <1>10, <1>11, <2>1, <2>2, <2>3 DEF Site!TypeOK, Site!Faults
<1>3. PICK c : c = [type |-> "INIT", arg |-> 0, live |-> FALSE]
  OBVIOUS
<1>4. c \in DemoCommand /\ c.type = "INIT" /\ ~c.live
  BY <1>3 DEF DemoCommand, DemoLife
<1>5. de_toWorker \in Seq(DemoCommand) /\ Len(de_toWorker) = 1 /\ de_toWorker[1] = c
  <2>1. de_toWorker = <<c>>
    BY <1>3 DEF Site!Init
  <2> QED BY <1>4, <2>1
<1>6. DemoTypes
  <2>1. de_core \in [mode : Site!Mode \union {"None"}, setpoint : DemoSetPoint \union {Site!Hold},
                     exec : {"Idle", "Running", "Paused", "Aborted"}, latched : BOOLEAN]
    BY DEF Site!Init
  <2> QED BY <1>1, <1>2, <1>10, <1>5, <2>1, DemoBounds DEF DemoTypes
<1>7. DemoReady
  BY <1>1, <1>10, <1>4, <1>5 DEF DemoReady
<1>8. DemoFrames
  BY <1>1, <1>10, DemoBounds DEF DemoFrames, Site!HistoryIsTail
<1> QED BY <1>6, <1>7, <1>8 DEF DemoInv

\* What the user does: commands at the end of the queue, live as the panel is.
LEMMA DemoSends ==
  ASSUME DemoInv, NEW cs \in Seq(DemoSent(de_ready)), Site!send(cs),
         de_panel' \in [mode : Site!Mode, target : [Site!Mode -> Site!Values], gains : Site!Values]
  PROVE  DemoInv'
<1>1. /\ de_toWorker' = de_toWorker \o cs
      /\ UNCHANGED <<de_ready, de_shown, de_history, de_toPage, de_wasm, de_running, de_core,
                     de_fault, de_plant, de_frames>>
  BY DEF Site!send, Site!worker
<1>2. de_ready \in BOOLEAN
  BY DEF DemoInv, DemoTypes, Site!TypeOK
<1>3. \A c \in DemoSent(de_ready) : /\ c \in DemoCommand /\ c.type \notin {"INIT", "START_LOOP"}
                                    /\ c.live = de_ready
  BY <1>2 DEF DemoSent, DemoCommand
<1>4. cs \in Seq(DemoCommand)
  BY <1>3
<1>5. de_toWorker \in Seq(DemoCommand)
  BY DEF DemoInv, DemoTypes
<1>6. de_toWorker' \in Seq(DemoCommand)
  BY <1>1, <1>4, <1>5
<1>7. ASSUME NEW i \in DOMAIN de_toWorker'
      PROVE  \/ i \in DOMAIN de_toWorker /\ de_toWorker'[i] = de_toWorker[i]
             \/ /\ de_toWorker'[i].type \notin {"INIT", "START_LOOP"}
                /\ de_toWorker'[i].live = de_ready
  <2>1. CASE i \in 1..Len(de_toWorker)
    BY <1>1, <1>4, <1>5, <2>1
  <2>2. CASE i \notin 1..Len(de_toWorker)
    <3>1. \E k \in DOMAIN cs : de_toWorker'[i] = cs[k]
      <4>1. i \in 1..Len(de_toWorker) + Len(cs)
        BY <1>1, <1>4, <1>5
      <4>2. i - Len(de_toWorker) \in 1..Len(cs)
        BY <1>4, <1>5, <2>2, <4>1
      <4>3. de_toWorker'[i] = cs[i - Len(de_toWorker)]
        BY <1>1, <1>4, <1>5, <2>2, <4>1
      <4> QED BY <4>2, <4>3
    <3> QED BY <1>3, <3>1
  <2> QED BY <2>1, <2>2
<1>8. Site!TypeOK'
  BY <1>1 DEF DemoInv, DemoTypes, Site!TypeOK
<1>9. DemoTypes'
  BY <1>1, <1>6, <1>8 DEF DemoInv, DemoTypes
<1>10. DemoReady'
  BY <1>1, <1>7 DEF DemoInv, DemoReady
<1>11. DemoFrames'
  BY <1>1 DEF DemoInv, DemoFrames, Site!HistoryIsTail
<1> QED BY <1>9, <1>10, <1>11 DEF DemoInv

\* The commands the panel makes are of the kinds the worker knows.
LEMMA DemoCommands ==
  ASSUME NEW live
  PROVE  /\ \A m \in Site!Mode, v \in Site!Values :
              [type |-> "SET", arg |-> [mode |-> m, value |-> v], live |-> live] \in DemoSent(live)
         /\ \A m \in Site!Mode :
              [type |-> "SET_CONTROL_MODE", arg |-> m, live |-> live] \in DemoSent(live)
         /\ \A v \in Site!Values :
              [type |-> "UPDATE_GAINS", arg |-> v, live |-> live] \in DemoSent(live)
         /\ \A k \in {"OverTemperature", "OverCurrent"} :
              [type |-> "INJECT_FAULT", arg |-> k, live |-> live] \in DemoSent(live)
         /\ \A t \in {"EXECUTE_TRAJECTORY", "PAUSE_TRAJECTORY", "ABORT_TRAJECTORY", "CLEAR_FAULT",
                      "SET_PLANT_STATE", "APPLY_EXTERNAL_TORQUE"} :
              [type |-> t, arg |-> 0, live |-> live] \in DemoSent(live)
BY DEF DemoSent, DemoSetPoint

\* A changed panel is one.
LEMMA DemoPanel ==
  ASSUME DemoInv, NEW m \in Site!Mode, NEW v \in Site!Values, NEW p,
         \/ p = [de_panel EXCEPT !.mode = m, !.target[m] = v]
         \/ p = [de_panel EXCEPT !.target[m] = v]
         \/ p = [de_panel EXCEPT !.gains = v]
         \/ p = de_panel
  PROVE  p \in [mode : Site!Mode, target : [Site!Mode -> Site!Values], gains : Site!Values]
<1>1. de_panel \in [mode : Site!Mode, target : [Site!Mode -> Site!Values], gains : Site!Values]
  BY DEF DemoInv, DemoTypes, Site!TypeOK
<1> QED BY <1>1

\* What the panel's user does.
LEMMA DemoUser ==
  ASSUME DemoInv,
         \/ Site!ModeButton \/ Site!TrajectoryButtons \/ Site!DisturbanceButtons
         \/ \E v \in Site!Values : \/ Site!PositionSlider(v) \/ Site!SpeedOrTorqueSlider(v)
                                   \/ Site!GainSlider(v) \/ Site!DragMotor(v)
  PROVE  DemoInv'
<1>0. /\ "Position" \in Site!Mode /\ 0 \in Site!Values
      /\ de_panel.mode \in Site!Mode /\ \A m \in Site!Mode : de_panel.target[m] \in Site!Values
  BY DemoBounds DEF Site!Mode, Site!Values, DemoInv, DemoTypes, Site!TypeOK
<1> DEFINE Panels == [mode : Site!Mode, target : [Site!Mode -> Site!Values], gains : Site!Values]
<1>1. ASSUME NEW c \in DemoSent(de_ready), Site!send(<<c>>), de_panel' \in Panels
      PROVE  DemoInv'
  <2>1. PICK cs : cs = <<c>>
    OBVIOUS
  <2>2. cs \in Seq(DemoSent(de_ready))
    BY <1>1, <2>1
  <2> QED BY <1>1, <2>1, <2>2, DemoSends
<1>2. CASE Site!ModeButton
  <2>1. PICK m \in Site!Mode : Site!handleModeChange(m)
    BY <1>2 DEF Site!ModeButton
  <2>2. PICK v \in Site!Values :
          /\ de_panel' = [de_panel EXCEPT !.mode = m, !.target[m] = v]
          /\ Site!send(<<Site!Command("SET_CONTROL_MODE", m), Site!SetPoint(m, v)>>)
    BY <1>0, <2>1 DEF Site!handleModeChange
  <2>3. de_panel' \in Panels
    BY <2>2, DemoPanel
  <2>4. PICK c \in DemoSent(de_ready) : c = Site!Command("SET_CONTROL_MODE", m)
    BY DemoCommands DEF Site!Command
  <2>5. PICK d \in DemoSent(de_ready) : d = Site!SetPoint(m, v)
    BY DemoCommands DEF Site!Command, Site!SetPoint
  <2>6. PICK cs : cs = <<c, d>>
    OBVIOUS
  <2>7. cs \in Seq(DemoSent(de_ready)) /\ Site!send(cs)
    BY <2>2, <2>4, <2>5, <2>6
  <2> QED BY <2>3, <2>7, DemoSends
<1>3. ASSUME NEW m \in Site!Mode, NEW v \in Site!Values,
             de_panel' = [de_panel EXCEPT !.target[m] = v], Site!send(<<Site!SetPoint(m, v)>>)
      PROVE  DemoInv'
  <2>1. PICK d \in DemoSent(de_ready) : d = Site!SetPoint(m, v)
    BY DemoCommands DEF Site!Command, Site!SetPoint
  <2>2. de_panel' \in Panels
    BY <1>3, DemoPanel
  <2> QED BY <1>1, <1>3, <2>1, <2>2
<1>4. ASSUME NEW v \in Site!Values,
             \/ Site!PositionSlider(v) \/ Site!SpeedOrTorqueSlider(v)
             \/ Site!GainSlider(v) \/ Site!DragMotor(v)
      PROVE  DemoInv'
  <2>1. CASE Site!PositionSlider(v)
    <3>1. de_panel' = [de_panel EXCEPT !.target["Position"] = v] /\ Site!send(<<Site!SetPoint("Position", v)>>)
      BY <2>1 DEF Site!PositionSlider
    <3> QED BY <1>0, <1>3, <3>1
  <2>2. CASE Site!SpeedOrTorqueSlider(v)
    <3>1. PICK m \in Site!Mode : m = de_panel.mode
      BY <1>0
    <3>2. de_panel' = [de_panel EXCEPT !.target[m] = v] /\ Site!send(<<Site!SetPoint(m, v)>>)
      BY <2>2, <3>1 DEF Site!SpeedOrTorqueSlider
    <3> QED BY <1>3, <3>2
  <2>3. CASE Site!GainSlider(v)
    <3>1. de_panel' = [de_panel EXCEPT !.gains = v] /\ Site!send(<<Site!Command("UPDATE_GAINS", v)>>)
      BY <2>3 DEF Site!GainSlider
    <3>2. PICK d \in DemoSent(de_ready) : d = Site!Command("UPDATE_GAINS", v)
      BY DemoCommands DEF Site!Command
    <3>3. de_panel' \in Panels
      BY <1>0, <3>1, DemoPanel
    <3> QED BY <1>1, <3>1, <3>2, <3>3
  <2>4. CASE Site!DragMotor(v)
    <3>1. de_panel' = [de_panel EXCEPT !.target["Position"] = v] /\ Site!send(<<Site!SetPoint("Position", v)>>)
      BY <2>4 DEF Site!DragMotor, Site!handleJog
    <3> QED BY <1>0, <1>3, <3>1
  <2> QED BY <1>4, <2>1, <2>2, <2>3, <2>4
<1>5. CASE Site!TrajectoryButtons \/ Site!DisturbanceButtons
  <2>1. de_panel' = de_panel
    BY <1>5 DEF Site!TrajectoryButtons, Site!DisturbanceButtons
  <2>2. de_panel' \in Panels
    BY <1>0, <2>1, DemoPanel
  <2>3. \E c \in DemoSent(de_ready) : Site!send(<<c>>)
    <3>1. CASE Site!TrajectoryButtons
      <4>1. PICK t \in {"EXECUTE_TRAJECTORY", "PAUSE_TRAJECTORY", "ABORT_TRAJECTORY"} :
              Site!send(<<Site!Command(t, 0)>>)
        BY <3>1 DEF Site!TrajectoryButtons
      <4>2. PICK d \in DemoSent(de_ready) : d = Site!Command(t, 0)
        BY DemoCommands DEF Site!Command
      <4> QED BY <4>1, <4>2
    <3>2. CASE \E k \in {"OverTemperature", "OverCurrent"} : Site!send(<<Site!Command("INJECT_FAULT", k)>>)
      <4>1. PICK k \in {"OverTemperature", "OverCurrent"} : Site!send(<<Site!Command("INJECT_FAULT", k)>>)
        BY <3>2
      <4>2. PICK d \in DemoSent(de_ready) : d = Site!Command("INJECT_FAULT", k)
        BY DemoCommands DEF Site!Command
      <4> QED BY <4>1, <4>2
    <3>3. CASE \E t \in {"APPLY_EXTERNAL_TORQUE", "CLEAR_FAULT", "SET_PLANT_STATE"} :
                 Site!send(<<Site!Command(t, 0)>>)
      <4>1. PICK t \in {"APPLY_EXTERNAL_TORQUE", "CLEAR_FAULT", "SET_PLANT_STATE"} :
              Site!send(<<Site!Command(t, 0)>>)
        BY <3>3
      <4>2. PICK d \in DemoSent(de_ready) : d = Site!Command(t, 0)
        BY DemoCommands DEF Site!Command
      <4> QED BY <4>1, <4>2
    <3> QED BY <1>5, <3>1, <3>2, <3>3 DEF Site!DisturbanceButtons
  <2> QED BY <1>1, <2>2, <2>3
<1> QED BY <1>2, <1>4, <1>5

\* Samples are pushed one by one: the oldest goes.
LEMMA DemoPush ==
  ASSUME Site!HistoryIsTail, de_history \in Seq(1..de_MaxFrames), NEW n \in 1..de_MaxFrames,
         Len(de_history) # 0 => de_history[Len(de_history)] = n - 1, NEW h,
         h = Site!push(de_history, n)
  PROVE  /\ h \in Seq(1..de_MaxFrames) /\ Len(h) <= de_Depth
         /\ \A i \in 2..Len(h) : h[i] = h[i - 1] + 1
         /\ Len(h) # 0 => h[Len(h)] = n
<1>1. PICK k \in Nat : k = Len(de_history)
  OBVIOUS
<1>2. PICK g : g = Append(de_history, n)
  OBVIOUS
<1>3. /\ g \in Seq(1..de_MaxFrames) /\ Len(g) = k + 1 /\ g[k + 1] = n
      /\ \A i \in 1..k : g[i] = de_history[i]
  BY <1>1, <1>2
<1>4. \A i \in 2..k + 1 : g[i] = g[i - 1] + 1
  <2> TAKE i \in 2..k + 1
  <2>1. CASE i = k + 1
    BY <1>1, <1>3, <2>1
  <2>2. CASE i \in 2..k
    BY <1>1, <1>3, <2>2 DEF Site!HistoryIsTail
  <2> QED BY <2>1, <2>2
<1>5. k <= de_Depth
  BY <1>1 DEF Site!HistoryIsTail
<1>6. CASE k + 1 > de_Depth
  <2>1. h = Tail(g)
    BY <1>2, <1>3, <1>6 DEF Site!push
  <2>2. h \in Seq(1..de_MaxFrames) /\ Len(h) = k /\ \A i \in 1..k : h[i] = g[i + 1]
    BY <1>3, <2>1
  <2>3. ASSUME NEW i \in 2..k
        PROVE  h[i] = h[i - 1] + 1
    <3>1. i \in 1..k /\ i - 1 \in 1..k /\ i + 1 \in 2..k + 1 /\ (i - 1) + 1 = i /\ (i + 1) - 1 = i
      OBVIOUS
    <3>2. h[i] = g[i + 1] /\ h[i - 1] = g[i] /\ g[i + 1] = g[i] + 1
      BY <1>4, <2>2, <3>1
    <3> QED BY <3>2
  <2> QED BY <1>3, <1>5, <2>2, <2>3
<1>7. CASE ~(k + 1 > de_Depth)
  <2>1. h = g
    BY <1>2, <1>3, <1>7 DEF Site!push
  <2> QED BY <1>3, <1>4, <1>7, <2>1, DemoBounds
<1> QED BY <1>6, <1>7

\* A sequence without its first.
LEMMA SeqFirst ==
  ASSUME NEW S, NEW s \in Seq(S), s # <<>>
  PROVE  /\ Len(s) \in Nat \ {0} /\ Head(s) \in S /\ Head(s) = s[1]
         /\ Tail(s) \in Seq(S) /\ Len(Tail(s)) = Len(s) - 1
         /\ \A i \in 1..Len(s) - 1 : Tail(s)[i] = s[i + 1]
OBVIOUS

\* The page takes the oldest message: READY starts the loop, STATE is shown.
LEMMA DemoHears ==
  ASSUME DemoInv, Site!OnMessage
  PROVE  DemoInv'
<1>1. PICK k \in Nat : k = Len(de_toPage)
  BY DEF DemoInv, DemoTypes
<1>2. PICK m : m = Head(de_toPage)
  OBVIOUS
<1>3. de_toPage \in Seq(DemoMessage) /\ de_toPage # <<>>
  BY DEF DemoInv, DemoTypes, Site!OnMessage
<1>4. /\ k # 0 /\ m \in DemoMessage /\ m = de_toPage[1]
      /\ de_toPage' \in Seq(DemoMessage) /\ Len(de_toPage') = k - 1
      /\ \A i \in 1..k - 1 : de_toPage'[i] = de_toPage[i + 1]
  <2>1. de_toPage' = Tail(de_toPage)
    BY DEF Site!OnMessage
  <2> QED BY <1>1, <1>2, <1>3, <2>1, SeqFirst
<1>5. UNCHANGED <<de_panel, de_wasm, de_running, de_core, de_fault, de_plant, de_frames>>
  BY DEF Site!OnMessage, Site!worker
<1>6. de_toWorker \in Seq(DemoCommand)
  BY DEF DemoInv, DemoTypes
<1>7. CASE /\ m.type = "READY" /\ de_ready' = TRUE
           /\ de_toWorker' = Append(de_toWorker, [type |-> "START_LOOP", arg |-> 0, live |-> TRUE])
           /\ UNCHANGED <<de_shown, de_history>>
  <2>1. PICK c : c = [type |-> "START_LOOP", arg |-> 0, live |-> TRUE]
    OBVIOUS
  <2>2. c \in DemoCommand /\ c.type = "START_LOOP"
    BY <2>1 DEF DemoCommand, DemoLife
  <2>3. /\ de_toWorker' \in Seq(DemoCommand)
        /\ \A i \in DOMAIN de_toWorker' :
             (i \in DOMAIN de_toWorker /\ de_toWorker'[i] = de_toWorker[i]) \/ de_toWorker'[i] = c
    BY <1>6, <1>7, <2>1, <2>2
  <2>4. ~de_ready
    <3>1. de_ready => de_toPage[1].type = "STATE"
      BY <1>1, <1>3, <1>4 DEF DemoInv, DemoReady
    <3> QED BY <1>4, <1>7, <3>1
  <2>5. de_wasm = "built" /\ k = 1 /\ ~de_running
    BY <1>1, <1>4, <2>4 DEF DemoInv, DemoReady
  <2>6. de_ready' \in BOOLEAN
    BY <1>7
  <2>7. Site!TypeOK'
    BY <1>5, <1>7, <2>6 DEF DemoInv, DemoTypes, Site!TypeOK
  <2>8. DemoTypes'
    BY <1>4, <1>5, <2>3, <2>7 DEF DemoInv, DemoTypes
  <2>9. DemoReady'
    <3>1. de_wasm' = "built" /\ \A i \in DOMAIN de_toPage' : de_toPage'[i].type = "STATE"
      BY <1>4, <1>5, <2>5
    <3>2. \A i \in DOMAIN de_toWorker' : de_toWorker'[i].type = "INIT" => i = 1 /\ de_wasm' = "idle"
      BY <1>5, <2>2, <2>3 DEF DemoInv, DemoReady
    <3> QED BY <1>7, <3>1, <3>2 DEF DemoReady
  <2>10. DemoFrames'
    <3>1. ~de_running' /\ de_frames' = 0 /\ Len(de_history') = 0 /\ Len(de_toPage') = 0
      BY <1>4, <1>5, <1>7, <2>5 DEF DemoInv, DemoFrames
    <3>2. Site!HistoryIsTail'
      BY <1>7 DEF DemoInv, DemoFrames, Site!HistoryIsTail
    <3> QED BY <3>1, <3>2 DEF DemoFrames
  <2> QED BY <2>8, <2>9, <2>10 DEF DemoInv
<1>8. CASE /\ m.type = "STATE" /\ de_shown' = m.fault
           /\ de_history' = Site!push(de_history, m.frame)
           /\ UNCHANGED <<de_ready, de_toWorker>>
  <2>1. de_ready /\ de_wasm = "built"
    <3>1. ~de_ready => de_toPage[1].type = "READY" \/ k = 0
      BY <1>1 DEF DemoInv, DemoReady
    <3> QED BY <1>4, <1>8, <3>1 DEF DemoInv, DemoReady
  <2>2. de_running
    BY <1>1, <1>4, <2>1 DEF DemoInv, DemoFrames
  <2>3. PICK f \in Nat : f = de_frames
    BY DEF DemoInv, DemoTypes
  <2>4. /\ k <= f /\ f <= de_MaxFrames
        /\ \A i \in 1..k : de_toPage[i].frame = f - k + i
        /\ Len(de_history) # 0 => de_history[Len(de_history)] = f - k
    <3>1. f <= de_MaxFrames
      BY <2>3, DemoBounds DEF DemoInv, DemoTypes
    <3>2. DOMAIN de_toPage = 1..k
      BY <1>1, <1>3
    <3> QED BY <1>1, <2>2, <2>3, <3>1, <3>2 DEF DemoInv, DemoFrames
  <2>5. PICK n : n = m.frame
    OBVIOUS
  <2>6. n = f - k + 1 /\ n \in 1..de_MaxFrames /\ n - 1 = f - k
    BY <1>4, <2>4, <2>5, DemoBounds
  <2>7. PICK h : h = Site!push(de_history, n)
    OBVIOUS
  <2>8. de_history \in Seq(1..de_MaxFrames) /\ Site!HistoryIsTail
    BY DEF DemoInv, DemoTypes, Site!TypeOK, DemoFrames
  <2>9. /\ h \in Seq(1..de_MaxFrames) /\ Len(h) <= de_Depth
        /\ \A i \in 2..Len(h) : h[i] = h[i - 1] + 1
        /\ Len(h) # 0 => h[Len(h)] = n
    BY <2>4, <2>6, <2>7, <2>8, DemoPush
  <2>10. de_history' = h
    BY <1>8, <2>5, <2>7
  <2>11. de_shown' \in Site!Faults
    BY <1>4, <1>8 DEF DemoMessage
  <2>12. Site!TypeOK'
    BY <1>5, <1>8, <2>9, <2>10, <2>11 DEF DemoInv, DemoTypes, Site!TypeOK
  <2>13. DemoTypes'
    BY <1>4, <1>5, <1>8, <2>12 DEF DemoInv, DemoTypes
  <2>14. DemoReady'
    <3>1. \A i \in DOMAIN de_toPage' : de_toPage'[i].type = "STATE"
      BY <1>1, <1>3, <1>4, <2>1 DEF DemoInv, DemoReady
    <3> QED BY <1>5, <1>8, <2>1, <3>1 DEF DemoInv, DemoReady
  <2>15. Site!HistoryIsTail'
    BY <2>9, <2>10 DEF Site!HistoryIsTail
  <2>16. DemoFrames'
    <3>1. ASSUME NEW i \in 1..k - 1
          PROVE  de_toPage'[i].frame = f - (k - 1) + i
      <4>1. i + 1 \in 1..k /\ f - k + (i + 1) = f - (k - 1) + i
        OBVIOUS
      <4>2. de_toPage'[i].frame = de_toPage[i + 1].frame
        BY <1>4
      <4> QED BY <2>4, <4>1, <4>2
    <3>2. f - (k - 1) = n /\ k - 1 <= f
      BY <2>4, <2>6
    <3>3. DOMAIN de_toPage' = 1..k - 1 /\ de_running' /\ de_frames' = f
      BY <1>4, <1>5, <2>2, <2>3
    <3> QED BY <1>4, <2>9, <2>10, <2>15, <3>1, <3>2, <3>3 DEF DemoFrames
  <2> QED BY <2>13, <2>14, <2>16 DEF DemoInv
<1> QED BY <1>2, <1>7, <1>8 DEF Site!OnMessage

\* READY is posted when there is an actuator, and only then.
LEMMA DemoCompiles ==
  ASSUME DemoInv, Site!Compiled
  PROVE  DemoInv'
<1>1. /\ de_wasm = "compiling"
      /\ UNCHANGED <<de_ready, de_shown, de_history, de_panel, de_toWorker, de_running, de_core,
                     de_fault, de_plant, de_sent, de_frames>>
  BY DEF Site!Compiled, Site!page
<1>2. ~de_ready /\ ~de_running /\ Len(de_toPage) = 0 /\ de_toPage \in Seq(DemoMessage)
  BY <1>1 DEF DemoInv, DemoTypes, DemoReady
<1>3. CASE de_wasm' = "failed" /\ UNCHANGED de_toPage
  <2>1. DemoTypes'
    BY <1>1, <1>3 DEF DemoInv, DemoTypes, Site!TypeOK
  <2>2. DemoReady'
    BY <1>1, <1>2, <1>3 DEF DemoInv, DemoReady
  <2>3. DemoFrames'
    BY <1>1, <1>3 DEF DemoInv, DemoFrames, Site!HistoryIsTail
  <2> QED BY <2>1, <2>2, <2>3 DEF DemoInv
<1>4. CASE /\ de_wasm' = "built"
           /\ de_toPage' = Append(de_toPage, [type |-> "READY", fault |-> "", frame |-> 0])
  <2>0. PICK none \in Site!Faults : none = ""
    BY DEF Site!Faults
  <2>1. PICK m : m = [type |-> "READY", fault |-> none, frame |-> 0]
    OBVIOUS
  <2>2. m \in DemoMessage /\ m.type = "READY"
    BY <2>1, DemoBounds DEF DemoMessage
  <2>11. de_toPage' = Append(de_toPage, m)
    BY <1>4, <2>0, <2>1
  <2>3. de_toPage' \in Seq(DemoMessage) /\ Len(de_toPage') = 1 /\ de_toPage'[1] = m
    BY <1>2, <2>2, <2>11
  <2>4. DemoTypes'
    BY <1>1, <1>4, <2>3 DEF DemoInv, DemoTypes, Site!TypeOK
  <2>5. DemoReady'
    BY <1>1, <1>2, <1>4, <2>2, <2>3 DEF DemoInv, DemoReady
  <2>6. DemoFrames'
    BY <1>1, <1>2 DEF DemoInv, DemoFrames, Site!HistoryIsTail
  <2> QED BY <2>4, <2>5, <2>6 DEF DemoInv
<1> QED BY <1>1, <1>3, <1>4 DEF Site!Compiled

\* A batch of steps and its STATE.
LEMMA DemoFrame ==
  ASSUME DemoInv, Site!frame
  PROVE  DemoInv'
<1>1. /\ de_running /\ de_frames < de_MaxFrames /\ de_frames' = de_frames + 1
      /\ de_toPage' = Append(de_toPage, [type |-> "STATE", fault |-> de_fault, frame |-> de_frames'])
      /\ UNCHANGED <<de_ready, de_shown, de_history, de_panel, de_toWorker, de_wasm, de_running,
                     de_fault, de_sent>>
  BY DEF Site!frame, Site!page
<1>2. PICK f \in Nat : f = de_frames
  BY DEF DemoInv, DemoTypes
<1>3. PICK k \in Nat : k = Len(de_toPage)
  BY DEF DemoInv, DemoTypes
<1>4. PICK m : m = [type |-> "STATE", fault |-> de_fault, frame |-> f + 1]
  OBVIOUS
<1>5. m \in DemoMessage /\ m.type = "STATE" /\ m.frame = f + 1
  <2>1. f + 1 \in 0..de_MaxFrames /\ de_fault \in Site!Faults
    BY <1>1, <1>2, DemoBounds DEF DemoInv, DemoTypes, Site!TypeOK
  <2> QED BY <1>4, <2>1 DEF DemoMessage
<1>6. de_toPage' = Append(de_toPage, m)
  BY <1>1, <1>2, <1>4
<1>7. /\ de_toPage' \in Seq(DemoMessage) /\ Len(de_toPage') = k + 1 /\ de_toPage'[k + 1] = m
      /\ \A i \in 1..k : de_toPage'[i] = de_toPage[i]
  BY <1>3, <1>5, <1>6 DEF DemoInv, DemoTypes
<1>8. de_core' \in [mode : Site!Mode \union {"None"}, setpoint : DemoSetPoint \union {Site!Hold},
                    exec : {"Idle", "Running", "Paused", "Aborted"}, latched : BOOLEAN]
  <2>1. PICK exec \in {de_core.exec} \cup (IF de_core.exec = "Running" THEN {"Idle"} ELSE {}) :
          de_core' = [de_core EXCEPT !.exec = exec,
                        !.latched = de_core.latched \/ de_plant.temp > Site!TemperatureLimit]
    BY DEF Site!frame
  <2>2. exec \in {"Idle", "Running", "Paused", "Aborted"}
    BY <2>1 DEF DemoInv, DemoTypes
  <2>3. PICK l \in BOOLEAN : l = (de_core.latched \/ de_plant.temp > Site!TemperatureLimit)
    OBVIOUS
  <2>4. de_core' = [de_core EXCEPT !.exec = exec, !.latched = l]
    BY <2>1, <2>3
  <2> QED BY <2>2, <2>4 DEF DemoInv, DemoTypes
<1>9. de_plant' \in [temp : {Site!Ambient, Site!Hot}, gains : Site!Values]
  <2>1. PICK t \in {de_plant.temp, Site!Ambient} : de_plant' = [de_plant EXCEPT !.temp = t]
    BY DEF Site!frame
  <2> QED BY <2>1 DEF DemoInv, DemoTypes, Site!TypeOK
<1>10. de_core'.mode \in Site!Mode \cup {"None"} /\ de_core'.exec \in {"Idle", "Running", "Paused", "Aborted"}
  BY <1>8
<1>11. Site!TypeOK'
  BY <1>1, <1>9, <1>10 DEF DemoInv, DemoTypes, Site!TypeOK
<1>12. DemoTypes'
  <2>1. de_frames' \in 0..de_MaxFrames
    BY <1>1, <1>2, DemoBounds
  <2> QED BY <1>1, <1>7, <1>8, <1>11, <2>1 DEF DemoInv, DemoTypes
<1>13. DemoReady'
  <2>1. de_ready
    BY <1>1 DEF DemoInv, DemoReady
  <2>2. \A i \in DOMAIN de_toPage' : de_toPage'[i].type = "STATE"
    BY <1>3, <1>5, <1>7, <2>1 DEF DemoInv, DemoTypes, DemoReady
  <2> QED BY <1>1, <2>1, <2>2 DEF DemoInv, DemoReady
<1>14. DemoFrames'
  <2>1. /\ k <= f /\ \A i \in 1..k : de_toPage[i].frame = f - k + i
        /\ Len(de_history) # 0 => de_history[Len(de_history)] = f - k
    <3>1. /\ Len(de_toPage) <= de_frames
          /\ \A i \in DOMAIN de_toPage : de_toPage[i].frame = de_frames - Len(de_toPage) + i
          /\ Len(de_history) # 0 => de_history[Len(de_history)] = de_frames - Len(de_toPage)
      BY <1>1 DEF DemoInv, DemoFrames
    <3>2. DOMAIN de_toPage = 1..k
      BY <1>3 DEF DemoInv, DemoTypes
    <3> QED BY <1>2, <1>3, <3>1, <3>2
  <2>2. \A i \in 1..k + 1 : de_toPage'[i].frame = (f + 1) - (k + 1) + i
    <3> TAKE i \in 1..k + 1
    <3>1. CASE i = k + 1
      BY <1>5, <1>7, <3>1
    <3>2. CASE i \in 1..k
      BY <1>7, <2>1, <3>2
    <3> QED BY <3>1, <3>2
  <2>3. Site!HistoryIsTail'
    BY <1>1 DEF DemoInv, DemoFrames, Site!HistoryIsTail
  <2>4. (f + 1) - (k + 1) = f - k /\ k + 1 <= f + 1
    BY <2>1
  <2>5. DOMAIN de_toPage' = 1..k + 1
    BY <1>7
  <2> QED BY <1>1, <1>2, <1>7, <2>1, <2>2, <2>3, <2>4, <2>5 DEF DemoFrames
<1> QED BY <1>12, <1>13, <1>14 DEF DemoInv

\* A command carries what its kind takes.
LEMMA DemoArguments ==
  ASSUME NEW c \in DemoCommand
  PROVE  /\ c.type = "SET" => c.arg \in DemoSetPoint
         /\ c.type = "SET_CONTROL_MODE" => c.arg \in Site!Mode
         /\ c.type = "UPDATE_GAINS" => c.arg \in Site!Values
         /\ c.type = "INJECT_FAULT" => c.arg \in {"OverTemperature", "OverCurrent"}
         /\ c.live \in BOOLEAN
BY DEF DemoCommand, DemoSent, DemoLife

\* The worker's command leaves a core, a plant and a fault.
LEMMA DemoDispatch ==
  ASSUME DemoTypes, NEW c \in DemoCommand, Site!Dispatch(c)
  PROVE  /\ de_core' \in [mode : Site!Mode \union {"None"}, setpoint : DemoSetPoint \union {Site!Hold},
                          exec : {"Idle", "Running", "Paused", "Aborted"}, latched : BOOLEAN]
         /\ de_plant' \in [temp : {Site!Ambient, Site!Hot}, gains : Site!Values]
         /\ de_fault' \in Site!Faults
<1> DEFINE Cores == [mode : Site!Mode \union {"None"}, setpoint : DemoSetPoint \union {Site!Hold},
                     exec : {"Idle", "Running", "Paused", "Aborted"}, latched : BOOLEAN]
           Plants == [temp : {Site!Ambient, Site!Hot}, gains : Site!Values]
<1>1. de_core \in Cores /\ de_plant \in Plants /\ de_fault \in Site!Faults
  BY DEF DemoTypes, Site!TypeOK
<1>2. "" \in Site!Faults /\ "refused" \in Site!Faults
      /\ "OverTemperature" \in Site!Faults /\ "OverCurrent" \in Site!Faults
  BY DEF Site!Faults
<1>3. CASE c.type = "SET" /\ Site!Set(c.arg)
  <2>1. PICK sp \in DemoSetPoint : sp = c.arg
    BY <1>3, DemoArguments
  <2>2. /\ \/ de_core' = [de_core EXCEPT !.setpoint = sp] /\ de_fault' = ""
           \/ de_fault' = "refused" /\ de_core' = de_core
        /\ de_plant' = de_plant
    BY <1>3, <2>1 DEF Site!Set
  <2>3. de_core' \in Cores
    BY <1>1, <2>2
  <2>4. de_fault' \in Site!Faults /\ de_plant' \in Plants
    BY <1>1, <1>2, <2>2
  <2> QED BY <2>3, <2>4
<1>4. CASE c.type = "SET_CONTROL_MODE" /\ Site!set_control_mode(c.arg)
  <2>1. PICK m \in Site!Mode : m = c.arg
    BY <1>4, DemoArguments
  <2>2. /\ de_core' = IF de_core.exec = "Running" THEN de_core
                      ELSE [de_core EXCEPT !.mode = m, !.setpoint = Site!Hold]
        /\ UNCHANGED <<de_fault, de_plant>>
    BY <1>4, <2>1 DEF Site!set_control_mode
  <2>3. de_core' \in Cores
    BY <1>1, <2>2
  <2> QED BY <1>1, <2>2, <2>3
<1>5. CASE c.type = "CLEAR_FAULT" /\ Site!clear_fault
  <2>1. de_core' \in Cores
    BY <1>1, <1>5 DEF Site!clear_fault
  <2> QED BY <1>1, <1>2, <1>5, <2>1 DEF Site!clear_fault
<1>6. CASE c.type = "INJECT_FAULT" /\ Site!inject_fault(c.arg)
  <2>1. de_fault' = c.arg /\ de_core' = de_core
    BY <1>6 DEF Site!inject_fault
  <2>2. de_plant' \in Plants
    BY <1>1, <1>6 DEF Site!inject_fault
  <2>3. c.arg \in {"OverTemperature", "OverCurrent"}
    BY <1>6, DemoArguments
  <2> QED BY <1>1, <1>2, <2>1, <2>2, <2>3
<1>7. CASE Site!Trajectory(c.type)
  <2>1. UNCHANGED <<de_fault, de_plant>>
    BY <1>7 DEF Site!Trajectory
  <2>2. \/ de_core' = [de_core EXCEPT !.exec = "Running"]
        \/ de_core' = [de_core EXCEPT !.exec = "Paused"]
        \/ de_core' = [de_core EXCEPT !.exec = "Aborted", !.setpoint = Site!Hold]
        \/ de_core' = de_core
    BY <1>7 DEF Site!Trajectory
  <2>3. de_core' \in Cores
    BY <1>1, <2>2
  <2> QED BY <1>1, <2>1, <2>3
<1>8. CASE c.type = "UPDATE_GAINS" /\ de_plant' = [de_plant EXCEPT !.gains = c.arg]
           /\ UNCHANGED <<de_core, de_fault>>
  <2>1. PICK v \in Site!Values : v = c.arg
    BY <1>8, DemoArguments
  <2>2. de_plant' \in Plants
    BY <1>1, <1>8, <2>1
  <2> QED BY <1>1, <1>8, <2>2
<1>9. CASE de_plant' = [de_plant EXCEPT !.temp = Site!Ambient] /\ UNCHANGED <<de_core, de_fault>>
  <2>1. de_plant' \in Plants
    BY <1>1, <1>9
  <2> QED BY <1>1, <1>9, <2>1
<1>10. CASE UNCHANGED <<de_core, de_fault, de_plant>>
  BY <1>1, <1>10
<1> QED BY <1>3, <1>4, <1>5, <1>6, <1>7, <1>8, <1>9, <1>10 DEF Site!Dispatch

\* The worker takes the oldest message: INIT starts the compilation, all else
\* is dropped while there is no actuator.
LEMMA DemoWorks ==
  ASSUME DemoInv, Site!WorkerMessage
  PROVE  DemoInv'
<1>1. PICK c : c = Head(de_toWorker)
  OBVIOUS
<1>2. /\ de_toWorker # <<>> /\ de_toWorker' = Tail(de_toWorker)
      /\ UNCHANGED <<de_ready, de_shown, de_history, de_panel, de_sent, de_frames>>
  BY DEF Site!WorkerMessage, Site!page
<1>3. de_toWorker \in Seq(DemoCommand)
  BY DEF DemoInv, DemoTypes
<1>4. /\ c \in DemoCommand /\ c = de_toWorker[1]
      /\ de_toWorker' \in Seq(DemoCommand)
      /\ 1 \in DOMAIN de_toWorker
      /\ \A i \in DOMAIN de_toWorker' : /\ i + 1 \in DOMAIN de_toWorker /\ i + 1 # 1
                                        /\ de_toWorker'[i] = de_toWorker[i + 1]
  BY <1>1, <1>2, <1>3, SeqFirst
<1>5. \A i \in DOMAIN de_toWorker' : de_toWorker'[i].type # "INIT"
  BY <1>4 DEF DemoInv, DemoReady
<1>6. CASE c.type = "INIT" /\ Site!init /\ UNCHANGED <<de_running, de_core, de_fault, de_plant>>
  <2>1. de_wasm = "idle" /\ de_wasm' = "compiling" /\ de_toPage' = de_toPage
    BY <1>6 DEF Site!init
  <2>2. ~de_ready
    BY <2>1 DEF DemoInv, DemoReady
  <2>3. DemoTypes'
    BY <1>2, <1>4, <1>6, <2>1 DEF DemoInv, DemoTypes, Site!TypeOK
  <2>4. DemoReady'
    BY <1>2, <1>4, <1>5, <1>6, <2>1, <2>2 DEF DemoInv, DemoReady
  <2>5. DemoFrames'
    BY <1>2, <1>6, <2>1 DEF DemoInv, DemoFrames, Site!HistoryIsTail
  <2> QED BY <2>3, <2>4, <2>5 DEF DemoInv
<1>7. CASE UNCHANGED <<de_toPage, de_wasm, de_running, de_core, de_fault, de_plant>>
  <2>1. DemoTypes'
    BY <1>2, <1>4, <1>7 DEF DemoInv, DemoTypes, Site!TypeOK
  <2>2. DemoReady'
    BY <1>2, <1>4, <1>5, <1>7 DEF DemoInv, DemoReady
  <2>3. DemoFrames'
    BY <1>2, <1>7 DEF DemoInv, DemoFrames, Site!HistoryIsTail
  <2> QED BY <2>1, <2>2, <2>3 DEF DemoInv
<1>8. CASE /\ c.type = "START_LOOP" /\ de_wasm = "built" /\ Site!startLoop(c)
           /\ UNCHANGED <<de_toPage, de_wasm, de_core, de_fault, de_plant>>
  <2>1. de_running' = TRUE
    BY <1>8 DEF Site!startLoop
  <2>2. de_ready
    BY <1>4, <1>8 DEF DemoInv, DemoReady
  <2>3. Site!TypeOK'
    <3>1. de_running' \in BOOLEAN
      BY <2>1
    <3> QED BY <1>2, <1>8, <3>1 DEF DemoInv, DemoTypes, Site!TypeOK
  <2>4. DemoTypes'
    BY <1>2, <1>4, <1>8, <2>3 DEF DemoInv, DemoTypes
  <2>5. DemoReady'
    BY <1>2, <1>5, <1>8, <2>2 DEF DemoInv, DemoReady
  <2>6. DemoFrames'
    <3>1. Site!HistoryIsTail'
      BY <1>2 DEF DemoInv, DemoFrames, Site!HistoryIsTail
    <3>2. CASE de_running
      BY <1>2, <1>8, <2>1, <3>1, <3>2 DEF DemoInv, DemoFrames
    <3>3. CASE ~de_running
      <4>1. de_frames' = 0 /\ Len(de_history') = 0 /\ Len(de_toPage') = 0 /\ de_toPage' \in Seq(DemoMessage)
        BY <1>2, <1>8, <2>2, <3>3 DEF DemoInv, DemoTypes, DemoFrames
      <4>2. Len(de_toPage') <= de_frames' /\ DOMAIN de_toPage' = {}
        BY <4>1
      <4> QED BY <2>1, <3>1, <4>1, <4>2 DEF DemoFrames
    <3> QED BY <3>2, <3>3
  <2> QED BY <2>4, <2>5, <2>6 DEF DemoInv
<1>9. CASE /\ de_wasm = "built" /\ Site!Dispatch(c)
           /\ UNCHANGED <<de_toPage, de_wasm, de_running>>
  <2>1. /\ de_core' \in [mode : Site!Mode \union {"None"}, setpoint : DemoSetPoint \union {Site!Hold},
                         exec : {"Idle", "Running", "Paused", "Aborted"}, latched : BOOLEAN]
        /\ de_plant' \in [temp : {Site!Ambient, Site!Hot}, gains : Site!Values]
        /\ de_fault' \in Site!Faults
    BY <1>4, <1>9, DemoDispatch DEF DemoInv
  <2>2. de_core'.mode \in Site!Mode \cup {"None"} /\ de_core'.exec \in {"Idle", "Running", "Paused", "Aborted"}
    BY <2>1
  <2>3. Site!TypeOK'
    BY <1>2, <1>9, <2>1, <2>2 DEF DemoInv, DemoTypes, Site!TypeOK
  <2>4. DemoTypes'
    BY <1>2, <1>4, <1>9, <2>1, <2>3 DEF DemoInv, DemoTypes
  <2>5. DemoReady'
    BY <1>2, <1>4, <1>5, <1>9 DEF DemoInv, DemoReady
  <2>6. DemoFrames'
    BY <1>2, <1>9 DEF DemoInv, DemoFrames, Site!HistoryIsTail
  <2> QED BY <2>4, <2>5, <2>6 DEF DemoInv
<1> QED BY <1>1, <1>6, <1>7, <1>8, <1>9 DEF Site!WorkerMessage

\* Every step keeps it.
LEMMA DemoNext ==
  ASSUME DemoInv, [Site!Next]_(Site!vars)
  PROVE  DemoInv'
<1>1. CASE UNCHANGED Site!vars
  <2>1. DemoTypes'
    BY <1>1 DEF Site!vars, DemoInv, DemoTypes, Site!TypeOK
  <2>2. DemoReady'
    BY <1>1 DEF Site!vars, DemoInv, DemoReady
  <2>3. DemoFrames'
    BY <1>1 DEF Site!vars, DemoInv, DemoFrames, Site!HistoryIsTail
  <2> QED BY <2>1, <2>2, <2>3 DEF DemoInv
<1> QED BY <1>1, DemoUser, DemoHears, DemoCompiles, DemoWorks, DemoFrame DEF Site!Next

\* It holds what the runs check.
LEMMA DemoShows ==
  ASSUME DemoInv
  PROVE  Site!TypeOK /\ Site!HistoryIsTail /\ Site!LiveCommandsReach
BY DEF DemoInv, DemoTypes, DemoReady, DemoFrames, Site!LiveCommandsReach

-----------------------------------------------------------------------------
(* What a step of the whole is for each part. *)

\* A step is one of the drag, or the drag stays.
LEMMA DragPart ==
  ASSUME [WebNext]_webVars
  PROVE  [Next]_vars
BY DEF WebNext, webVars, drag

\* A step while the part is "shell" is one of Shell.
LEMMA ShellPart ==
  ASSUME [WebNext]_webVars
  PROVE  /\ part' = part
         /\ part = "shell" => [Shell!Next]_(Shell!vars)
BY DEF WebNext, webVars, shell, Shell!vars

\* A step while the part is "onboarding" is one of Wizard.
LEMMA WizardPart ==
  ASSUME [WebNext]_webVars
  PROVE  /\ part' = part
         /\ part = "onboarding" => [Wizard!Next]_(Wizard!vars)
BY DEF WebNext, webVars, onboarding, Wizard!vars

\* A step while the part is "control" is one of Control.
LEMMA ControlPart ==
  ASSUME [WebNext]_webVars
  PROVE  /\ part' = part
         /\ part = "control" => [Control!Next]_(Control!vars)
BY DEF WebNext, webVars, control, Control!vars

\* A step while the part is "jog" is one of Jog.
LEMMA JogPart ==
  ASSUME [WebNext]_webVars
  PROVE  /\ part' = part
         /\ part = "jog" => [Jog!Next]_(Jog!vars)
BY DEF WebNext, webVars, jog, Jog!vars

\* A step while the part is "workspace" is one of Overlay.
LEMMA OverlayPart ==
  ASSUME [WebNext]_webVars
  PROVE  /\ part' = part
         /\ part = "workspace" => [Overlay!Next]_(Overlay!vars)
BY DEF WebNext, webVars, workspace, Overlay!vars

\* A step while the part is "views" is one of Views.
LEMMA ViewsPart ==
  ASSUME [WebNext]_webVars
  PROVE  /\ part' = part
         /\ part = "views" => [Views!Next]_(Views!vars)
BY DEF WebNext, webVars, views, Views!vars, Views!feed, Views!views, Views!picked

\* A step while the part is "calibration" is one of Calib.
LEMMA CalibPart ==
  ASSUME [WebNext]_webVars
  PROVE  /\ part' = part
         /\ part = "calibration" => [Calib!Next]_(Calib!vars)
         /\ part # "calibration" => UNCHANGED Calib!vars
BY DEF WebNext, webVars, calibration, Calib!vars

\* A step while the part is "kinematics" is one of IkTab.
LEMMA KinePart ==
  ASSUME [WebNext]_webVars
  PROVE  /\ part' = part
         /\ part = "kinematics" => [IkTab!Next]_(IkTab!vars)
BY DEF WebNext, webVars, kinematics, IkTab!vars

\* A step while the part is "parameters" is one of Sliders.
LEMMA SlidersPart ==
  ASSUME [WebNext]_webVars
  PROVE  /\ part' = part
         /\ part = "parameters" => [Sliders!Next]_(Sliders!vars)
BY DEF WebNext, webVars, parameters, Sliders!vars

\* A step while the part is "teach" is one of Teaching.
LEMMA TeachPart ==
  ASSUME [WebNext]_webVars
  PROVE  /\ part' = part
         /\ part = "teach" => [Teaching!Next]_(Teaching!vars)
BY DEF WebNext, webVars, teach, Teaching!vars

\* A step while the part is "programs" is one of Editor.
LEMMA EditorPart ==
  ASSUME [WebNext]_webVars
  PROVE  /\ part' = part
         /\ part = "programs" => [Editor!Next]_(Editor!vars)
         /\ part # "programs" => UNCHANGED Editor!vars
BY DEF WebNext, webVars, programs, Editor!vars

\* A step while the part is "list" is one of Compact.
LEMMA CompactPart ==
  ASSUME [WebNext]_webVars
  PROVE  /\ part' = part
         /\ part = "list" => [Compact!Next]_(Compact!vars)
         /\ part # "list" => UNCHANGED Compact!vars
BY DEF WebNext, webVars, list, Compact!vars

\* A step while the part is "gcode" is one of Gcode.
LEMMA GcodePart ==
  ASSUME [WebNext]_webVars
  PROVE  /\ part' = part
         /\ part = "gcode" => [Gcode!Next]_(Gcode!vars)
BY DEF WebNext, webVars, gcode, Gcode!vars

\* A step while the part is "preview" is one of Preview.
LEMMA PreviewPart ==
  ASSUME [WebNext]_webVars
  PROVE  /\ part' = part
         /\ part = "preview" => [Preview!Next]_(Preview!vars)
BY DEF WebNext, webVars, preview, Preview!vars

\* A step while the part is "run" is one of Run.
LEMMA RunPart ==
  ASSUME [WebNext]_webVars
  PROVE  /\ part' = part
         /\ part = "run" => [Run!Next]_(Run!vars)
BY DEF WebNext, webVars, run, Run!vars

\* A step while the part is "frames" is one of Frames.
LEMMA FramesPart ==
  ASSUME [WebNext]_webVars
  PROVE  /\ part' = part
         /\ part = "frames" => [Frames!Next]_(Frames!vars)
BY DEF WebNext, webVars, frames, Frames!vars

\* A step while the part is "turns" is one of Quats.
LEMMA QuatsPart ==
  ASSUME [WebNext]_webVars
  PROVE  /\ part' = part
         /\ part = "turns" => [Quats!Next]_(Quats!vars)
BY DEF WebNext, webVars, turns, Quats!vars

\* A step while the part is "site" is one of Public.
LEMMA PublicPart ==
  ASSUME [WebNext]_webVars
  PROVE  /\ part' = part
         /\ part = "site" => [Public!Next]_(Public!vars)
BY DEF WebNext, webVars, site, Public!vars,
       Public!browser, Public!telemetry

\* A step while the part is "demo" is one of Site.
LEMMA DemoPart ==
  ASSUME [WebNext]_webVars
  PROVE  /\ part' = part
         /\ part = "demo" => [Site!Next]_(Site!vars)
BY DEF WebNext, webVars, demo, Site!vars

-----------------------------------------------------------------------------
(* The invariant of the whole: that of the part whose behaviour it is. *)

WebInv ==
  /\ DragLoopSound
  /\ part = "shell" => ShellInv
  /\ part = "onboarding" => WizardInv
  /\ part = "control" => ControlInv
  /\ part = "jog" => JogInv
  /\ part = "workspace" => OverlayInv
  /\ part = "views" => ViewsInv
  /\ part = "calibration" => CalibInv
  /\ part = "kinematics" => KineInv
  /\ part = "parameters" => SlidersInv
  /\ part = "teach" => TeachInv
  /\ part = "programs" => EditorInv
  /\ part = "list" => CompactInv
  /\ part = "gcode" => GcodeInv
  /\ part = "preview" => PreviewInv
  /\ part = "run" => RunInv
  /\ part = "frames" => FramesInv
  /\ part = "turns" => QuatsInv
  /\ part = "site" => PublicInv
  /\ part = "demo" => DemoInv

\* The first states have it.
LEMMA WebFirst == WebInit => WebInv
<1> SUFFICES ASSUME WebInit PROVE WebInv
  OBVIOUS
<1>1. DragLoopSound
  BY DEF WebInit, Init, DragLoopSound
<1>2. ShellInv
  BY ShellFirst DEF WebInit
<1>3. WizardInv
  BY WizardFirst DEF WebInit
<1>4. ControlInv
  BY ControlFirst DEF WebInit
<1>5. JogInv
  BY JogFirst DEF WebInit
<1>6. OverlayInv
  BY OverlayFirst DEF WebInit
<1>7. ViewsInv
  BY ViewsFirst DEF WebInit
<1>8. CalibInv
  BY CalibFirst DEF WebInit
<1>9. KineInv
  BY KineFirst DEF WebInit
<1>10. SlidersInv
  BY SlidersFirst DEF WebInit
<1>11. TeachInv
  BY TeachFirst DEF WebInit
<1>12. EditorInv
  BY EditorFirst DEF WebInit
<1>13. CompactInv
  BY CompactFirst DEF WebInit
<1>14. GcodeInv
  BY GcodeFirst DEF WebInit
<1>15. PreviewInv
  BY PreviewFirst DEF WebInit
<1>16. RunInv
  BY RunFirst DEF WebInit
<1>17. FramesInv
  BY FramesFirst DEF WebInit
<1>18. QuatsInv
  BY QuatsFirst DEF WebInit
<1>19. PublicInv
  BY PublicFirst DEF WebInit
<1>20. DemoInv
  BY DemoFirst DEF WebInit
<1> QED BY <1>1, <1>2, <1>3, <1>4, <1>5, <1>6, <1>7, <1>8, <1>9, <1>10, <1>11, <1>12, <1>13, <1>14, <1>15, <1>16, <1>17, <1>18, <1>19, <1>20 DEF WebInv

\* Every step keeps it.
LEMMA WebStep == WebInv /\ [WebNext]_webVars => WebInv'
<1> SUFFICES ASSUME WebInv, [WebNext]_webVars PROVE WebInv'
  OBVIOUS
<1>1. DragLoopSound'
  BY DragPart, NextDragLoopSound DEF WebInv
<1>2. part' = "shell" => ShellInv'
  BY ShellPart, ShellNext DEF WebInv
<1>3. part' = "onboarding" => WizardInv'
  BY WizardPart, WizardNext DEF WebInv
<1>4. part' = "control" => ControlInv'
  BY ControlPart, ControlNext DEF WebInv
<1>5. part' = "jog" => JogInv'
  BY JogPart, JogNext DEF WebInv
<1>6. part' = "workspace" => OverlayInv'
  BY OverlayPart, OverlayNext DEF WebInv
<1>7. part' = "views" => ViewsInv'
  BY ViewsPart, ViewsNext DEF WebInv
<1>8. part' = "calibration" => CalibInv'
  BY CalibPart, CalibNext DEF WebInv
<1>9. part' = "kinematics" => KineInv'
  BY KinePart, KineNext DEF WebInv
<1>10. part' = "parameters" => SlidersInv'
  BY SlidersPart, SlidersNext DEF WebInv
<1>11. part' = "teach" => TeachInv'
  BY TeachPart, TeachNext DEF WebInv
<1>12. part' = "programs" => EditorInv'
  BY EditorPart, EditorNext DEF WebInv
<1>13. part' = "list" => CompactInv'
  BY CompactPart, CompactNext DEF WebInv
<1>14. part' = "gcode" => GcodeInv'
  BY GcodePart, GcodeNext DEF WebInv
<1>15. part' = "preview" => PreviewInv'
  BY PreviewPart, PreviewNext DEF WebInv
<1>16. part' = "run" => RunInv'
  BY RunPart, RunNext DEF WebInv
<1>17. part' = "frames" => FramesInv'
  BY FramesPart, FramesNext DEF WebInv
<1>18. part' = "turns" => QuatsInv'
  BY QuatsPart, QuatsNext DEF WebInv
<1>19. part' = "site" => PublicInv'
  BY PublicPart, PublicNext DEF WebInv
<1>20. part' = "demo" => DemoInv'
  BY DemoPart, DemoNext DEF WebInv
<1> QED BY <1>1, <1>2, <1>3, <1>4, <1>5, <1>6, <1>7, <1>8, <1>9, <1>10, <1>11, <1>12, <1>13, <1>14, <1>15, <1>16, <1>17, <1>18, <1>19, <1>20 DEF WebInv

\* Whatever the bounds, the part in use has its invariant.
THEOREM WebInvariant == WebSpec => []WebInv
BY WebFirst, WebStep, PTL DEF WebSpec

-----------------------------------------------------------------------------
(* The properties of Web. *)

\* Every variable of every part keeps its type.
THEOREM PagesTypeTheorem == WebSpec => []PagesTypeOK
<1>1. WebInv => PagesTypeOK
  BY ShellShows, WizardShows, ControlShows, JogShows, OverlayShows, ViewsShows, CalibShows, KineShows, TeachShows, EditorShows, CompactShows, GcodeShows, RunShows, PublicShows, DemoShows DEF WebInv, PagesTypeOK
<1> QED BY <1>1, WebInvariant, PTL

\* At any time at most one loop of the drag runs, the flag tells whether one
\* does, and no delta waits when none does.
THEOREM DragLoopTheorem == WebSpec => []DragLoopSound
<1>1. WebInv => DragLoopSound
  BY DEF WebInv
<1> QED BY <1>1, WebInvariant, PTL

\* A recording keeps its order, and the page listens to the session it shows.
THEOREM RecordingSoundTheorem == WebSpec => []RecordingSound
<1>1. WebInv => RecordingSound
  BY TeachShows DEF WebInv, RecordingSound
<1> QED BY <1>1, WebInvariant, PTL

\* There is a state socket or a scheduled reconnection, the palette waits for
\* one request of its own, flags of motion go out, the newest message shows.
THEOREM WorkspaceSoundTheorem == WebSpec => []WorkspaceSound
<1>1. WebInv => WorkspaceSound
  BY ControlShows, ViewsShows DEF WebInv, WorkspaceSound
<1> QED BY <1>1, WebInvariant, PTL

\* Late answers leave a page behind only in the ways its part names, and no
\* joint has two jobs that are not over.
THEOREM LateAnswersHarmlessTheorem == WebSpec => []LateAnswersHarmless
<1>1. WebInv => LateAnswersHarmless
  BY OverlayShows, ShellShows, RunShows, GcodeShows, CalibShows DEF WebInv, LateAnswersHarmless
<1> QED BY <1>1, WebInvariant, PTL

\* Editors that rest show what the Brain or the machine has, unless a whole
\* description was written back over another's change, or written late.
THEOREM EditsMatchStoreTheorem == WebSpec => []EditsMatchStore
<1>1. WebInv => EditsMatchStore
  BY SlidersShow, KineShows, WizardShows, JogShows DEF WebInv, EditsMatchStore
<1> QED BY <1>1, WebInvariant, PTL

\* The demo misses no frame and drops nothing sent while LIVE; telemetry gets
\* pages and errors in order.
THEOREM SiteSoundTheorem == WebSpec => []SiteSound
<1>1. WebInv => SiteSound
  BY DemoShows, PublicShows DEF WebInv, SiteSound
<1> QED BY <1>1, WebInvariant, PTL

\* For every chain of joints the pages' frames are the Brain's of the chain
\* without the offsets along z of carriages along x or y, a quaternion follows
\* every turn asked for, and every move of a path is drawn once.
THEOREM GeometryAgreesTheorem == WebSpec => []GeometryAgrees
<1>1. WebInv => GeometryAgrees
  BY FramesShows, QuatsShows, PreviewShows DEF WebInv, GeometryAgrees
<1> QED BY <1>1, WebInvariant, PTL

\* A stored program that is loaded and saved again keeps its nodes' kinds and
\* values in order, under the attribute the editor writes; an empty one gets a
\* move.
THEOREM LoadThenSaveKeepsTheorem == WebSpec => []LoadThenSaveKeeps
<1>1. WebInv => LoadThenSaveKeeps
  BY EditorShows DEF WebInv, LoadThenSaveKeeps
<1> QED BY <1>1, WebInvariant, PTL

\* A calibration job that is over stays as it is.
THEOREM CalibrationJobsTheorem == WebSpec => CalibrationJobs
<1> DEFINE Final == \A i \in DOMAIN ca_jobs :
                      ca_jobs[i].status \in Calib!TERMINAL => ca_jobs'[i] = ca_jobs[i]
<1>1. WebInv /\ [WebNext]_webVars => [Final]_(Calib!vars)
  BY CalibPart, CalibNext DEF WebInv, CalibGrow
<1> QED BY <1>1, WebInvariant, PTL DEF WebSpec, CalibrationJobs, Calib!JobsFinal

\* "Save & Run" runs what it saved; the compact editor's "Run" does, or says
\* that the save failed.
THEOREM RunsWhatItSavedTheorem == WebSpec => RunsWhatItSaved
<1> DEFINE Saved == \A c \in pr_calls' \ pr_calls :
                      c.op = "run" /\ c.stage = "sent" /\ c.id \in DOMAIN pr_store
                        => pr_store[c.id] = Editor!programPayload(c.steps)
           SavedOrSays == \A c \in pl_calls' \ pl_calls :
                      c.op = "run" /\ c.stage = "sent" =>
                        pl_saveError' \/ (c.id \in DOMAIN pl_store
                          /\ pl_store[c.id] = Compact!programPayload(c.steps))
<1>1. WebInv /\ [WebNext]_webVars => [Saved]_(Editor!vars)
  BY EditorPart, EditorRuns DEF WebInv
<1>2. WebInv /\ [WebNext]_webVars => [SavedOrSays]_(Compact!vars)
  BY CompactPart, CompactRuns DEF WebInv
<1>3. WebSpec => Editor!RunsWhatItSaved
  BY <1>1, WebInvariant, PTL DEF WebSpec, Editor!RunsWhatItSaved
<1>4. WebSpec => Compact!RunsSavedOrSaysSo
  BY <1>2, WebInvariant, PTL DEF WebSpec, Compact!RunsSavedOrSaysSo
<1> QED BY <1>3, <1>4 DEF RunsWhatItSaved
=============================================================================
