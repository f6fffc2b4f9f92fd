--------------------------- MODULE MachineControl ---------------------------
(***************************************************************************)
(* Watching and driving the machine from the workspace page: the state     *)
(* socket of useJointState with its reconnection, the REST actions of      *)
(* useMachineControl, the palette of WorkspaceMenu and the space bar.  The *)
(* machine has one joint; positions are integers, a jog is one step.       *)
(***************************************************************************)
EXTENDS Integers, FiniteSets, FiniteSetsExt

CONSTANTS MaxPos,      \* bound: joint positions are -MaxPos..MaxPos
          MaxRequests, \* bound: requests of one behaviour
          MaxDelay     \* WS_RECONNECT_MAX_MS, in doublings of the minimum

VARIABLES
  mode,      \* the machine's mode at the Brain: "idle" or "estopped"
  pos,       \* the joint's measured position
  socket,    \* the state socket: "opening", "open" or "closed"
  timer,     \* whether a reconnection is scheduled
  delay,     \* reconnectDelay, in doublings
  connected, \* what the palette shows as live or offline
  state,     \* the last message, NoState before the first
  busy,      \* a request of the palette is under way
  popovers,  \* open popovers, a subset of {"jog", "cartesian"}
  net,       \* requests under way
  sent       \* requests sent so far

vars == <<mode, pos, socket, timer, delay, connected, state, busy, popovers, net, sent>>
machine == <<mode, pos>>
feed == <<socket, timer, delay, connected, state>>

NoState == [mode |-> "offline", pos |-> 0]
Positions == -MaxPos..MaxPos

-----------------------------------------------------------------------------
(* useJointState *)

ws_onopen ==
  /\ socket = "opening"
  /\ socket' = "open" /\ connected' = TRUE /\ delay' = 0
  /\ UNCHANGED <<machine, timer, state, busy, popovers, net, sent>>

ws_onmessage ==
  /\ socket = "open"
  /\ state' = [mode |-> mode, pos |-> pos]
  /\ UNCHANGED <<machine, socket, timer, delay, connected, busy, popovers, net, sent>>

\* Mutant of ws_onclose: no reconnection after a refused connection.
CloseOnlyOpen ==
  /\ socket \in {"opening", "open"}
  /\ socket' = "closed" /\ connected' = FALSE
  /\ timer' = (socket = "open")
  /\ delay' = Min({delay + 1, MaxDelay})
  /\ UNCHANGED <<machine, state, busy, popovers, net, sent>>

\* Mutant of ws_onclose: the delay is not capped.
KeepsDoubling ==
  /\ socket \in {"opening", "open"}
  /\ socket' = "closed" /\ connected' = FALSE
  /\ timer' = TRUE
  /\ delay' = delay + 1
  /\ UNCHANGED <<machine, state, busy, popovers, net, sent>>

\* The connection is lost or refused; the last state stays on the screen.
ws_onclose ==
  /\ socket \in {"opening", "open"}
  /\ socket' = "closed" /\ connected' = FALSE
  /\ timer' = TRUE
  /\ delay' = Min({delay + 1, MaxDelay})
  /\ UNCHANGED <<machine, state, busy, popovers, net, sent>>

connect ==
  /\ timer /\ timer' = FALSE
  /\ socket' = "opening"
  /\ UNCHANGED <<machine, delay, connected, state, busy, popovers, net, sent>>

-----------------------------------------------------------------------------
(* WorkspaceMenu *)

isEstopped == state.mode = "estopped"
isDisabled == state.mode = "offline" \/ isEstopped \/ busy

\* brainPost.  menu tells whether the palette waits for the answer.
brainPost(op, arg, menu) ==
  /\ sent < MaxRequests /\ sent' = sent + 1
  /\ net' = net \union {[n |-> sent + 1, op |-> op, arg |-> arg, menu |-> menu, done |-> FALSE]}
  /\ UNCHANGED <<machine, feed, popovers>>

estop(menu) == brainPost("estop", 0, menu)
resume == brainPost("resume", 0, TRUE)
jog(target) == brainPost("move", target, TRUE)

handleEstop == ~isEstopped /\ ~busy /\ busy' = TRUE /\ estop(TRUE)
handleResume == isEstopped /\ ~busy /\ busy' = TRUE /\ resume
\* onJog adds the step to the position of the last message.
handleJog(step) == ~isDisabled /\ busy' = TRUE /\ jog(state.pos + step)

EStopButton == popovers = {} /\ handleEstop
ResumeButton == popovers = {} /\ handleResume
JogButton == popovers = {} /\ popovers' = {"jog"} /\ UNCHANGED <<machine, feed, busy, net, sent>>
CartesianButton ==
  /\ popovers = {} /\ ~isDisabled
  /\ popovers' = {"cartesian"}
  /\ UNCHANGED <<machine, feed, busy, net, sent>>
JogPopover ==
  /\ "jog" \in popovers
  /\ \/ \E step \in {-1, 1} : handleJog(step)
     \/ popovers' = {} /\ UNCHANGED <<machine, feed, busy, net, sent>>
CartesianPopover ==
  /\ "cartesian" \in popovers
  /\ popovers' = {}
  /\ UNCHANGED <<machine, feed, busy, net, sent>>

\* The space bar stops the machine whatever the palette shows or waits for.
SpaceBar == estop(FALSE) /\ UNCHANGED busy

-----------------------------------------------------------------------------
(* The Brain executes a request, or fails; later the answer ends the wait. *)

Serve ==
  \E r \in net :
    /\ ~r.done
    /\ net' = (net \ {r}) \union {[r EXCEPT !.done = TRUE]}
    /\ \/ r.op = "estop" /\ mode' = "estopped" /\ UNCHANGED pos
       \/ r.op = "resume" /\ mode' = "idle" /\ UNCHANGED pos
       \/ r.op = "move" /\ r.arg \in Positions /\ pos' = r.arg /\ UNCHANGED mode
       \/ UNCHANGED machine
    /\ UNCHANGED <<feed, busy, popovers, sent>>

\* Mutant of Answer: busy is reset for an answer without an error only.
AnswerWithoutFinally ==
  \E r \in net :
    /\ r.done
    /\ net' = net \ {r}
    /\ busy' \in (IF r.menu THEN {busy, FALSE} ELSE {busy})
    /\ UNCHANGED <<machine, feed, popovers, sent>>

\* finally { setBusy(false) }: also when the request failed.
Answer ==
  \E r \in net :
    /\ r.done
    /\ net' = net \ {r}
    /\ busy' = (busy /\ ~r.menu)
    /\ UNCHANGED <<machine, feed, popovers, sent>>

\* Another operator stops the machine or resumes it.
Others ==
  /\ mode' \in {"idle", "estopped"} \ {mode}
  /\ UNCHANGED <<pos, feed, busy, popovers, net, sent>>

Init ==
  /\ mode \in {"idle", "estopped"} /\ pos = 0
  /\ socket = "opening" /\ timer = FALSE /\ delay = 0 /\ connected = FALSE
  /\ state = NoState /\ busy = FALSE /\ popovers = {} /\ net = {} /\ sent = 0

Hook == ws_onopen \/ ws_onmessage \/ ws_onclose \/ connect
Palette ==
  \/ EStopButton \/ ResumeButton \/ JogButton \/ CartesianButton
  \/ JogPopover \/ CartesianPopover \/ SpaceBar

Next == Hook \/ Palette \/ Serve \/ Answer \/ Others

Spec == Init /\ [][Next]_vars

-----------------------------------------------------------------------------
TypeOK ==
  /\ mode \in {"idle", "estopped"} /\ pos \in Positions
  /\ socket \in {"opening", "open", "closed"} /\ timer \in BOOLEAN
  /\ delay \in 0..MaxDelay /\ connected \in BOOLEAN /\ busy \in BOOLEAN
  /\ state.mode \in {"offline", "idle", "estopped"} /\ state.pos \in Positions
  /\ popovers \subseteq {"jog", "cartesian"} /\ sent \in 0..MaxRequests

(* The page never stops trying to see the machine: in every state there is *)
(* a socket or a scheduled reconnection, never both, and "live" is shown   *)
(* exactly while the socket is open.                                       *)
AlwaysReconnecting ==
  /\ (socket = "closed") = timer
  /\ connected = (socket = "open")

(* The palette is disabled exactly while one of its own requests is under  *)
(* way, whether it succeeds or fails, and never two are under way; the     *)
(* space bar's requests neither take nor release it.                       *)
BusyIsOneRequest ==
  Cardinality({r \in net : r.menu}) = IF busy THEN 1 ELSE 0
=============================================================================
