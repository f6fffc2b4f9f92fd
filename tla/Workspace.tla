------------------------------ MODULE Workspace ------------------------------
(***************************************************************************)
(* The workspace page around the arm (App.tsx): the reachability overlay   *)
(* fetched by useWorkspace, the machine editor opened and applied in       *)
(* place.  Requests overtake each other.  Geometry, that of the chain, is  *)
(* the number of the edit that made it.                                    *)
(***************************************************************************)
EXTENDS Naturals, FiniteSets

CONSTANTS MaxFetches, \* bound: overlay requests of one behaviour
          MaxEdits    \* bound: editor openings and applications, each

VARIABLES
  dh,           \* the machine's geometry at the Brain
  cached,       \* the geometry of the workspace kept there
  shownDh,      \* the geometry the page draws
  overlay,      \* showReachabilityHull and showWorkspaceSamples
  data,         \* the overlay's data: request and geometry, NoData for null
  loading, fetchError, fetchCounter,   \* useWorkspace
  editor,       \* editing, and the geometry the editor was filled with
  editLoading, editError,
  reqs, opened, applied, \* requests under way; editors opened, edits applied
  missed        \* history: the geometries the overlay was not fetched anew for

vars == <<dh, cached, shownDh, overlay, data, loading, fetchError, fetchCounter,
          editor, editLoading, editError, reqs, opened, applied, missed>>
brain == <<dh, cached>>
hook == <<data, loading, fetchError, fetchCounter>>
edit == <<shownDh, editor, editLoading, editError, opened, applied>>

NoData == [n |-> 0, dh |-> 0]
enabled == overlay.hull \/ overlay.samples
Request(op, arg, on) == [op |-> op, arg |-> arg, on |-> on, stage |-> "sent", ok |-> TRUE, dh |-> 0]

-----------------------------------------------------------------------------
(* useWorkspace *)

\* doFetch: on is the value of enabled the closure holds.
doFetch(on, rest) ==
  IF on
  THEN /\ fetchCounter < MaxFetches
       /\ fetchCounter' = fetchCounter + 1
       /\ loading' = TRUE /\ fetchError' = FALSE
       /\ reqs' = rest \union {Request("hull", fetchCounter + 1, TRUE)}
       /\ UNCHANGED data
  ELSE reqs' = rest /\ UNCHANGED hook

\* The effect, after enabled has changed.
EnabledEffect ==
  LET now == overlay'.hull \/ overlay'.samples IN
  CASE now = enabled -> UNCHANGED <<hook, reqs>>
    [] now /\ ~enabled -> doFetch(TRUE, reqs)
    [] OTHER -> /\ data' = NoData /\ loading' = FALSE /\ fetchError' = FALSE
                /\ UNCHANGED <<fetchCounter, reqs>>

\* Mutant of FetchAnswered: an overtaken answer is not dropped.
TakeAnyAnswer(r) ==
  /\ loading' = FALSE
  /\ IF r.ok THEN data' = [n |-> r.arg, dh |-> r.dh] /\ UNCHANGED fetchError
             ELSE data' = NoData /\ fetchError' = TRUE
  /\ reqs' = reqs \ {r} /\ UNCHANGED fetchCounter

\* An answer that a later request has overtaken is dropped.
FetchAnswered(r) ==
  /\ IF r.arg # fetchCounter
     THEN UNCHANGED <<data, fetchError, loading>>
     ELSE /\ loading' = FALSE
          /\ IF r.ok THEN data' = [n |-> r.arg, dh |-> r.dh] /\ UNCHANGED fetchError
                     ELSE data' = NoData /\ fetchError' = TRUE
  /\ reqs' = reqs \ {r} /\ UNCHANGED fetchCounter

-----------------------------------------------------------------------------
(* The page; the editor covers all of it. *)

onToggleReachability ==
  overlay' = [hull |-> ~overlay.hull, samples |-> overlay.samples /\ ~overlay.hull]
onToggleWorkspaceSamples ==
  overlay.hull /\ overlay' = [overlay EXCEPT !.samples = ~@]
ToggleOverlay ==
  /\ ~editor.on
  /\ onToggleReachability \/ onToggleWorkspaceSamples
  /\ EnabledEffect
  /\ UNCHANGED <<brain, edit, missed>>

\* Opening the editor reads the machine, then its template.
handleOpenEdit ==
  /\ ~editor.on /\ opened < MaxEdits
  /\ opened' = opened + 1
  /\ editError' = FALSE /\ editLoading' = TRUE
  /\ reqs' = reqs \union {Request("open", opened + 1, FALSE)}
  /\ UNCHANGED <<brain, shownDh, overlay, hook, editor, applied, missed>>

OpenAnswered(r) ==
  /\ editLoading' = FALSE
  /\ IF r.ok THEN editor' = [on |-> TRUE, dh |-> r.dh] /\ UNCHANGED editError
             ELSE editError' = TRUE /\ UNCHANGED editor
  /\ reqs' = reqs \ {r}
  /\ UNCHANGED <<shownDh, hook, opened, applied, missed>>

\* Nothing keeps the editor from applying twice.
handleApplyEdit ==
  /\ editor.on /\ applied < MaxEdits
  /\ applied' = applied + 1 /\ editError' = FALSE
  /\ reqs' = reqs \union {Request("apply", applied + 1, enabled)}
  /\ UNCHANGED <<brain, shownDh, overlay, hook, editor, editLoading, opened, missed>>

\* The refetch is that of the render in which "Apply" was clicked: with the
\* overlay off at that time it does nothing.
ApplyAnswered(r) ==
  /\ IF r.ok
     THEN /\ shownDh' = r.arg /\ editor' = [editor EXCEPT !.on = FALSE]
          /\ doFetch(r.on, reqs \ {r})
          /\ UNCHANGED editError
     ELSE editError' = TRUE /\ reqs' = reqs \ {r} /\ UNCHANGED <<shownDh, editor, hook>>
  /\ missed' = IF r.ok /\ r.on THEN missed ELSE missed \union {r.arg}
  /\ UNCHANGED <<editLoading, opened, applied>>

Cancel ==
  /\ editor.on /\ editor' = [editor EXCEPT !.on = FALSE]
  /\ UNCHANGED <<brain, shownDh, overlay, hook, editLoading, editError, reqs, opened, applied, missed>>

-----------------------------------------------------------------------------
(* The Brain serves a request, or it fails; the answer arrives later.      *)

\* What the answer of r carries once the Brain is done with it.
Replied(r, ok, geometry) ==
  reqs' = (reqs \ {r}) \union {[r EXCEPT !.stage = "answered", !.ok = ok, !.dh = geometry]}

ServeOpen(r, ok) == r.op = "open" /\ Replied(r, ok, dh) /\ UNCHANGED <<brain, missed>>

\* An edit is refused, or stored, with the workspace computed anew, unless that fails;
\* its answer may be lost.
ServeApply(r, ok) ==
  /\ r.op = "apply" /\ Replied(r, ok, dh)
  /\ \/ ~ok /\ UNCHANGED brain
     \/ dh' = r.arg /\ cached' \in {r.arg, cached}
  /\ UNCHANGED missed

\* A workspace of an older geometry is computed anew; where that fails it is
\* answered as it is.
ServeHull(r, ok) ==
  /\ r.op = "hull"
  /\ \/ cached' = dh /\ UNCHANGED missed
     \/ cached # dh /\ cached' = cached /\ missed' = missed \union {dh}
  /\ Replied(r, ok, cached')
  /\ UNCHANGED dh

Serve ==
  /\ \E r \in reqs, ok \in BOOLEAN :
       /\ r.stage = "sent"
       /\ ServeOpen(r, ok) \/ ServeApply(r, ok) \/ ServeHull(r, ok)
  /\ UNCHANGED <<overlay, hook, edit>>

Answer ==
  /\ \E r \in reqs :
       /\ r.stage = "answered"
       /\ \/ r.op = "hull" /\ FetchAnswered(r) /\ UNCHANGED <<edit, missed>>
          \/ r.op = "open" /\ OpenAnswered(r)
          \/ r.op = "apply" /\ ApplyAnswered(r)
  /\ UNCHANGED <<brain, overlay>>

Init ==
  /\ dh = 0 /\ cached = 0 /\ shownDh = 0 /\ overlay = [hull |-> FALSE, samples |-> FALSE]
  /\ data = NoData /\ loading = FALSE /\ fetchError = FALSE /\ fetchCounter = 0
  /\ editor = [on |-> FALSE, dh |-> 0] /\ editLoading = FALSE /\ editError = FALSE
  /\ reqs = {} /\ opened = 0 /\ applied = 0 /\ missed = {}

Next ==
  \/ ToggleOverlay \/ handleOpenEdit \/ handleApplyEdit \/ Cancel \/ Serve \/ Answer

Spec == Init /\ [][Next]_vars

-----------------------------------------------------------------------------
TypeOK ==
  /\ dh \in 0..MaxEdits /\ cached \in 0..MaxEdits /\ missed \subseteq 0..MaxEdits
  /\ shownDh \in 0..MaxEdits
  /\ overlay \in [hull : BOOLEAN, samples : BOOLEAN] /\ (overlay.samples => overlay.hull)
  /\ data \in [n : 0..MaxFetches, dh : 0..MaxEdits] /\ fetchCounter \in 0..MaxFetches
  /\ loading \in BOOLEAN /\ fetchError \in BOOLEAN /\ editLoading \in BOOLEAN /\ editError \in BOOLEAN

(* Once the overlay no longer loads it shows what its last request brought, *)
(* or that request's error; and when the edit that made the Brain's        *)
(* geometry is answered, that geometry - unless the edit was sent while the *)
(* overlay was off, its answer was lost, or the Brain could not compute the *)
(* workspace anew (useWorkspace.ts, App.tsx:157-169).                      *)
OverlaySettles ==
  /\ enabled /\ ~loading => fetchError \/ data.n = fetchCounter
  /\ enabled /\ ~loading /\ ~fetchError /\ dh \notin missed
       /\ (\A r \in reqs : r.op = "apply" => r.arg # dh)
     => data.dh = dh

(* App.tsx:163-164: "DH changed -> reachable workspace will have been      *)
(* recomputed server-side.  Refetch so the overlay reflects the new hull   *)
(* immediately."  Once nothing is under way and the page draws the         *)
(* geometry whose workspace the Brain has, the overlay is of that geometry. *)
OverlayReflectsEdit ==
  enabled /\ ~loading /\ ~fetchError /\ reqs = {} /\ shownDh = dh /\ cached = dh
    => data.dh = dh
=============================================================================
