----------------------------- MODULE PublicSite -----------------------------
(***************************************************************************)
(* The public site around its demo: the pages of App and the browser's     *)
(* session history, the error boundary, and lib/telemetry.ts, which queues *)
(* what it is told until its bundle is loaded, when the page is idle.      *)
(***************************************************************************)
EXTENDS Integers, Sequences, SequencesExt

CONSTANTS MaxMoves,   \* bound: navigations and reloads
          MaxHistory  \* bound: entries of the session history

VARIABLES
  path,      \* App's path
  history,   \* addresses of the session history
  at,        \* the entry the browser is at
  failed,    \* the boundary shows its fallback: App is unmounted
  enabled,   \* telemetryConfig is not null
  bundle,    \* "idle", "importing", "loaded" or "blocked"
  pending,   \* calls queued
  recorded,  \* calls the bundle got in this document
  told,      \* every recordPage and captureError of this document
  moves

browser == <<history, at>>
telemetry == <<bundle, pending, recorded, told>>
vars == <<path, browser, failed, enabled, telemetry, moves>>

Pages == {"/", "/get-started", "/docs"}
isHome == path \notin {"/get-started", "/docs"}

-----------------------------------------------------------------------------
(* telemetry.ts *)

\* Mutant of run: a call before the bundle came is not queued.
DropsQueued(call) ==
  /\ told' = Append(told, call)
  /\ recorded' = IF enabled /\ bundle = "loaded" THEN Append(recorded, call) ELSE recorded
  /\ UNCHANGED <<bundle, pending>>

run(call) ==
  /\ told' = Append(told, call)
  /\ recorded' = IF enabled /\ bundle = "loaded" THEN Append(recorded, call) ELSE recorded
  /\ pending' = IF enabled /\ bundle # "loaded" THEN Append(pending, call) ELSE pending
  /\ UNCHANGED bundle

recordPage(p) == run(p)
captureError == run("error")

\* The idle callback of initTelemetry.
start ==
  /\ enabled /\ bundle = "idle" /\ bundle' = "importing"
  /\ UNCHANGED <<path, browser, failed, enabled, pending, recorded, told, moves>>

\* The import resolves and the queue is emptied in order, or it is blocked.
Imported ==
  /\ bundle = "importing"
  /\ \/ /\ bundle' = "loaded" /\ pending' = <<>>
        /\ recorded' = recorded \o pending
     \/ bundle' = "blocked" /\ UNCHANGED <<pending, recorded>>
  /\ UNCHANGED <<path, browser, failed, enabled, told, moves>>

-----------------------------------------------------------------------------
(* App *)

\* setPath: the effect records a path that changed.
setPath(p) ==
  /\ path' = p
  /\ IF p # path THEN recordPage(p) ELSE UNCHANGED telemetry

\* pushState drops the entries ahead.
go(p) ==
  /\ ~failed /\ moves < MaxMoves /\ moves' = moves + 1 /\ at < MaxHistory
  /\ history' = Append(SubSeq(history, 1, at), p) /\ at' = at + 1
  /\ setPath(p)
  /\ UNCHANGED <<failed, enabled>>

HeaderLinks == \E p \in Pages : go(p)
FooterLinks == \E p \in {"/get-started", "/docs"} : go(p)
StartBuilding == isHome /\ go("/get-started")

\* Back and forward; without App nobody listens.
onPopState ==
  /\ moves < MaxMoves /\ moves' = moves + 1
  /\ at' \in {at - 1, at + 1} \intersect 1..Len(history)
  /\ IF failed THEN UNCHANGED <<path, telemetry>> ELSE setPath(history[at'])
  /\ UNCHANGED <<history, failed, enabled>>

-----------------------------------------------------------------------------
(* ErrorBoundary and main.tsx *)

componentDidCatch ==
  /\ ~failed /\ failed' = TRUE
  /\ captureError
  /\ UNCHANGED <<path, browser, enabled, moves>>

\* A document: telemetry is initialised before App mounts and records its page.
Document(p) ==
  /\ path' = p /\ failed' = FALSE /\ bundle' = "idle"
  /\ told' = <<p>> /\ recorded' = <<>>
  /\ pending' = IF enabled' THEN <<p>> ELSE <<>>

\* The fallback's button, or the browser's own.
Reload ==
  /\ moves < MaxMoves /\ moves' = moves + 1
  /\ UNCHANGED <<browser, enabled>>
  /\ Document(history[at])

\* A build with a backend configured, or without; "/other" is the home page too.
Init ==
  /\ enabled \in BOOLEAN
  /\ path \in Pages \union {"/other"} /\ history = <<path>> /\ at = 1 /\ failed = FALSE
  /\ bundle = "idle" /\ told = <<path>> /\ recorded = <<>>
  /\ pending = IF enabled THEN <<path>> ELSE <<>>
  /\ moves = 0

Next ==
  \/ start \/ Imported \/ HeaderLinks \/ FooterLinks \/ StartBuilding \/ onPopState
  \/ componentDidCatch \/ Reload

Spec == Init /\ [][Next]_vars

-----------------------------------------------------------------------------
TypeOK ==
  /\ path \in Pages \union {"/other"} /\ at \in 1..Len(history) /\ Len(history) <= MaxHistory
  /\ failed \in BOOLEAN /\ bundle \in {"idle", "importing", "loaded", "blocked"}

(* Telemetry loses and reorders nothing that happened before its bundle    *)
(* came, sends nothing unless the build asks for it, and the last page it  *)
(* was told is the one of the address bar while App is there (App.tsx:20,  *)
(* telemetry.ts:53).                                                       *)
EventsInOrder ==
  /\ recorded \o pending = IF enabled THEN told ELSE <<>>
  /\ ~failed => path = history[at] /\ Last(told) = path
=============================================================================
