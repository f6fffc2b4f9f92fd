---------------------------- MODULE EditKinematics ----------------------------
(***************************************************************************)
(* The editor's Kinematics tab (KinematicsTab) over useMachineIK: the      *)
(* machine is read once when the editor opens, the numeric override and    *)
(* the end effector are put one at a time, poses are tried, and "Apply"    *)
(* patches the geometry whatever the tab does.  The Brain reads a machine's *)
(* whole description, awaits and writes it back.  An end effector is a     *)
(* number; 0 is the one the tab drafts for a machine it has not got.  A    *)
(* geometry is the number of the edit that made it.                        *)
(***************************************************************************)
EXTENDS Naturals

CONSTANTS MaxPuts,    \* bound: overrides and end effectors put
          MaxApplies, \* bound: geometries applied
          MaxMounts,  \* bound: times the tab is opened
          MaxOpens    \* bound: times the editor is opened

EE == 0..1
NoMachine == [dh |-> 0, force |-> FALSE, numeric |-> FALSE, ee |-> 3]  \* null

VARIABLES
  stored,          \* the machine at the Brain
  open, opening,   \* whether the editor shows, and the number of its opening
  machine,         \* useMachineIK: the machine read last, or NoMachine
  loading, error,
  tab,             \* the number of the tab's mount, 0 while another tab shows
  mounts,
  draftEE, eeEditing,
  try,             \* "idle", "loading", "result" or "error"
  reqs, puts, applies,
  behind           \* history: since this opening read the machine, a stale copy or a
                   \* setting of an earlier opening was written

vars == <<stored, open, opening, machine, loading, error, tab, mounts, draftEE, eeEditing,
          try, reqs, puts, applies, behind>>
editor == <<open, opening>>
hook == <<machine, loading, error>>
local == <<tab, mounts, draftEE, eeEditing, try>>
count == <<puts, applies>>

Request(op, n, body) ==
  [op |-> op, n |-> n, body |-> body, mount |-> tab, opening |-> opening, stage |-> "sent",
   ok |-> TRUE, copy |-> NoMachine]

-----------------------------------------------------------------------------
(* useMachineIK *)

put(op, body) ==
  /\ puts < MaxPuts /\ puts' = puts + 1
  /\ loading' = TRUE /\ error' = FALSE
  /\ reqs' = reqs \union {Request(op, puts + 1, body)}
  /\ UNCHANGED <<machine, applies>>

setForceNumeric(enabled, numeric) ==
  put("overrides", [dh |-> 0, force |-> enabled, numeric |-> numeric, ee |-> 0])
setEndEffector(spec) == put("ee", [dh |-> 0, force |-> FALSE, numeric |-> FALSE, ee |-> spec])

\* The answer of the GET (doFetch) or of a PUT.
Answered(r) ==
  /\ loading' = FALSE
  /\ IF r.ok THEN machine' = r.copy /\ UNCHANGED error
             ELSE error' = TRUE /\ UNCHANGED machine

-----------------------------------------------------------------------------
(* The editor: each opening mounts the hook anew, which reads the machine. *)

OpenEditor ==
  /\ ~open /\ opening < MaxOpens
  /\ open' = TRUE /\ opening' = opening + 1
  /\ machine' = NoMachine /\ loading' = TRUE /\ error' = FALSE
  /\ reqs' = reqs \union {[Request("get", 1, NoMachine) EXCEPT !.opening = opening + 1]}
  /\ UNCHANGED <<stored, local, count, behind>>

\* Nothing of the editor is left once it is closed.
Unmounted ==
  /\ open' = FALSE
  /\ machine' = NoMachine /\ loading' = FALSE /\ error' = FALSE
  /\ tab' = 0 /\ draftEE' = 0 /\ eeEditing' = FALSE /\ try' = "idle"

Cancel == open /\ Unmounted /\ UNCHANGED <<stored, opening, mounts, reqs, count, behind>>

\* The button is there on every tab, also while the hook loads.
handleApplyEdit ==
  /\ open /\ applies < MaxApplies /\ applies' = applies + 1
  /\ reqs' = reqs \union {Request("apply", applies + 1, [NoMachine EXCEPT !.dh = applies + 1])}
  /\ UNCHANGED <<stored, editor, hook, local, puts, behind>>

\* setEditing(false) closes whichever opening there is.
ApplyAnswered(r) ==
  IF r.ok THEN Unmounted ELSE UNCHANGED <<open, hook, tab, draftEE, eeEditing, try>>

-----------------------------------------------------------------------------
(* The tab is mounted anew each time it is chosen; its draft is then the   *)
(* end effector known at that moment.                                      *)
OpenTab ==
  /\ open /\ tab = 0 /\ mounts < MaxMounts
  /\ mounts' = mounts + 1 /\ tab' = mounts + 1
  /\ draftEE' = IF machine = NoMachine THEN 0 ELSE machine.ee
  /\ eeEditing' = FALSE /\ try' = "idle"
  /\ UNCHANGED <<stored, editor, hook, reqs, count, behind>>

CloseTab ==
  /\ tab # 0 /\ tab' = 0
  /\ draftEE' = 0 /\ eeEditing' = FALSE /\ try' = "idle"
  /\ UNCHANGED <<stored, editor, hook, mounts, reqs, count, behind>>

handleForceNumericToggle == setForceNumeric(~machine.force, machine.numeric)

\* Mutant of SolverSection: the box can be ticked while a request is under way.
SolverAnyTime ==
  tab # 0 /\ handleForceNumericToggle /\ UNCHANGED <<stored, editor, local, behind>>

\* The box is disabled while a request is under way.
SolverSection ==
  tab # 0 /\ ~loading /\ handleForceNumericToggle /\ UNCHANGED <<stored, editor, local, behind>>

EditButton ==
  /\ tab # 0 /\ ~eeEditing /\ eeEditing' = TRUE
  /\ UNCHANGED <<stored, editor, hook, tab, mounts, draftEE, try, reqs, count, behind>>

EEEditor ==
  /\ eeEditing /\ draftEE' \in EE \ {draftEE}
  /\ UNCHANGED <<stored, editor, hook, tab, mounts, eeEditing, try, reqs, count, behind>>

CancelButton ==
  /\ eeEditing /\ eeEditing' = FALSE
  /\ draftEE' = IF machine = NoMachine THEN draftEE ELSE machine.ee
  /\ UNCHANGED <<stored, editor, hook, tab, mounts, try, reqs, count, behind>>

handleEEApply ==
  /\ eeEditing /\ ~loading
  /\ setEndEffector(draftEE)
  /\ UNCHANGED <<stored, editor, local, behind>>

\* setEndEffector swallows an error, so the editor closes either way, when the mount that
\* applied is still there.
EEApplied(r) == eeEditing' = (eeEditing /\ r.mount # tab)

\* One pose at a time; the answer that a mount no longer waits for changes nothing.
TryPosePanel ==
  /\ tab # 0 /\ try # "loading" /\ try' = "loading"
  /\ UNCHANGED <<stored, editor, hook, tab, mounts, draftEE, eeEditing, reqs, count, behind>>

handleTryPose ==
  /\ try = "loading" /\ try' \in {"result", "error"}
  /\ UNCHANGED <<stored, editor, hook, tab, mounts, draftEE, eeEditing, reqs, count, behind>>

-----------------------------------------------------------------------------
(* The Brain *)

Replied(r, ok, copy) ==
  reqs' = (reqs \ {r}) \union {[r EXCEPT !.stage = "answered", !.ok = ok, !.copy = copy]}

\* The description m with the part that r is about set to what r says.
Written(r, m) ==
  CASE r.op = "overrides" -> [m EXCEPT !.force = r.body.force, !.numeric = r.body.numeric]
    [] r.op = "ee"        -> [m EXCEPT !.ee = r.body.ee]
    [] OTHER              -> [m EXCEPT !.dh = r.body.dh]

\* Of an opening that is over.
Earlier(r) == r.opening # opening

\* A request is refused, or answered once the machine is read, or goes on to write.
get_machine(r) ==
  /\ r.stage = "sent"
  /\ \/ Replied(r, FALSE, NoMachine) /\ UNCHANGED behind
     \/ r.op = "get" /\ Replied(r, TRUE, stored) /\ behind' = (behind /\ Earlier(r))
     \/ /\ r.op \in {"overrides", "ee", "apply"}
        /\ reqs' = (reqs \ {r}) \union {[r EXCEPT !.stage = "read", !.copy = stored]}
        /\ UNCHANGED behind
  /\ UNCHANGED stored

\* The copy that was read is written, whatever was written since; the answer may be lost.
_persist(r) ==
  /\ r.stage = "read"
  /\ \/ Replied(r, FALSE, NoMachine) /\ UNCHANGED <<stored, behind>>
     \/ /\ stored' = Written(r, r.copy)
        /\ \E ok \in BOOLEAN : Replied(r, ok, stored')
        /\ behind' = (behind \/ r.copy # stored \/ (Earlier(r) /\ r.op # "apply"))

Serve ==
  /\ \E r \in reqs : get_machine(r) \/ _persist(r)
  /\ UNCHANGED <<editor, hook, local, count>>

\* What an answer does to the opening that asked.
Shown(r) ==
  /\ Answered(r)
  /\ IF r.op = "ee" THEN EEApplied(r) ELSE UNCHANGED eeEditing
  /\ UNCHANGED <<open, tab, draftEE, try>>

Answer ==
  /\ \E r \in reqs :
       /\ r.stage = "answered" /\ reqs' = reqs \ {r}
       /\ \/ r.op = "apply" /\ ApplyAnswered(r)
          \/ r.op # "apply" /\ open /\ ~Earlier(r) /\ Shown(r)
          \/ /\ r.op # "apply" /\ (~open \/ Earlier(r))
             /\ UNCHANGED <<open, hook, tab, draftEE, eeEditing, try>>
  /\ UNCHANGED <<stored, opening, mounts, count, behind>>

Init ==
  /\ stored \in [dh : {0}, force : {FALSE}, numeric : BOOLEAN, ee : {1}]
  /\ open = TRUE /\ opening = 1
  /\ machine = NoMachine /\ loading = TRUE /\ error = FALSE
  /\ tab = 0 /\ mounts = 0 /\ draftEE = 0 /\ eeEditing = FALSE /\ try = "idle"
  /\ puts = 0 /\ applies = 0 /\ behind = FALSE
  /\ reqs = {Request("get", 1, NoMachine)}

Next ==
  \/ OpenEditor \/ Cancel \/ handleApplyEdit \/ OpenTab \/ CloseTab \/ SolverSection
  \/ EditButton \/ EEEditor \/ CancelButton \/ handleEEApply \/ TryPosePanel
  \/ handleTryPose \/ Serve \/ Answer

Spec == Init /\ [][Next]_vars

-----------------------------------------------------------------------------
Description == [dh : 0..MaxApplies, force : BOOLEAN, numeric : BOOLEAN, ee : EE]
TypeOK ==
  /\ stored \in Description
  /\ open \in BOOLEAN /\ opening \in 0..MaxOpens
  /\ machine \in Description \union {NoMachine}
  /\ loading \in BOOLEAN /\ error \in BOOLEAN /\ eeEditing \in BOOLEAN /\ behind \in BOOLEAN
  /\ tab \in 0..MaxMounts /\ mounts \in 0..MaxMounts /\ draftEE \in EE
  /\ try \in {"idle", "loading", "result", "error"}

Settings(m) == <<m.force, m.numeric, m.ee>>

(* With no request under way and no error shown, the tab shows the settings *)
(* the Brain has: no answer of the one loading flag's requests can overtake *)
(* another, and an "Apply" beside them does not change them, unless one     *)
(* wrote back a copy read before another's write, or a setting put before   *)
(* the editor was closed came through after it was opened again             *)
(* (useMachineIK.ts:73, 94, machine_service.py:357-383).                    *)
ShownIsStored == open /\ ~loading /\ ~error /\ ~behind => Settings(machine) = Settings(stored)
=============================================================================
