----------------------------- MODULE Onboarding -----------------------------
(***************************************************************************)
(* The onboarding wizard (OnboardingWizard.tsx, TemplateCard.tsx): a       *)
(* template is picked, the machine built and its joint slots bound, one    *)
(* after the other.  Template t has t joints; a machine is the number it   *)
(* was built with.  Geometry is the editor's; texts of errors are left     *)
(* out.  The Brain reads a machine, spawns or connects the actuator and    *)
(* writes the bindings back.                                               *)
(***************************************************************************)
EXTENDS Integers, Sequences

CONSTANTS MaxTemplates, \* bound: templates; the last has the most joints
          MaxLoads,     \* bound: attempts to load them
          MaxPicks,     \* bound: picks
          MaxBuilds,    \* bound: machines asked for
          MaxBinds      \* bound: bindings asked for

VARIABLES
  attempts, loading, templates, pickErr,  \* TemplatePicker; templates: those whose schema came
  fetches,       \* schemas asked for by a pick
  step, template, machineId,              \* OnboardingWizard
  builds,        \* builds under way
  results, binding, \* BindingStep: the result of a slot; the slot being bound
  binds,         \* bindings under way
  machines,      \* the Brain: template and bindings of each machine
  picks, asked, bound, \* counters of the bounds
  strayed        \* history: what came between the step's results and the machine:
                 \* "build", "bind"

vars == <<attempts, loading, templates, pickErr, fetches, step, template, machineId,
          builds, results, binding, binds, machines, picks, asked, bound,
          strayed>>
list == <<loading, templates, pickErr>>
picker == <<attempts, list, picks>>
wizard == <<step, template, machineId>>
binder == <<results, binding>>

Template == 1..MaxTemplates
Slot == 1..MaxTemplates
Unbound == [machine |-> 0, kind |-> "none"]
NoSlots == [s \in Slot |-> "none"]
joints == 1..template

-----------------------------------------------------------------------------
(* TemplatePicker *)

load ==
  /\ attempts < MaxLoads
  /\ attempts' = attempts + 1 /\ loading' = TRUE /\ pickErr' = FALSE /\ templates' = {}
  /\ UNCHANGED picks

Retry ==
  /\ step = "pick" /\ ~loading /\ pickErr
  /\ load
  /\ UNCHANGED <<fetches, wizard, builds, binder, binds, machines, asked, bound, strayed>>

\* The list came with whichever schemas came, or failed or timed out.
Loaded ==
  /\ loading /\ loading' = FALSE
  /\ \/ templates' \in SUBSET Template /\ UNCHANGED pickErr
     \/ pickErr' = TRUE /\ UNCHANGED templates
  /\ UNCHANGED <<attempts, fetches, wizard, builds, binder, binds, machines, picks, asked, bound,
                 strayed>>

\* What the picker showed is gone with it.
PickerGone == loading' = FALSE /\ templates' = {} /\ pickErr' = FALSE

\* The wizard takes a template; a binding step that was shown is gone, its
\* bindings under way go on.
onPick(t) ==
  /\ template' = t /\ step' = "params" /\ PickerGone
  /\ results' = [s \in Slot |-> Unbound] /\ binding' = 0
  /\ binds' = {[b EXCEPT !.shown = FALSE] : b \in binds} /\ strayed' = {}
  /\ UNCHANGED machineId

\* A card whose schema has not come fetches it first.
Select(t) ==
  /\ picks < MaxPicks /\ picks' = picks + 1
  /\ IF t \in templates
     THEN onPick(t) /\ UNCHANGED fetches
     ELSE fetches' = fetches \union {t} /\ UNCHANGED <<list, wizard, binder, binds, strayed>>

TemplateCard ==
  /\ step = "pick" /\ ~loading /\ ~pickErr
  /\ \E t \in Template : Select(t)
  /\ UNCHANGED <<attempts, builds, machines, asked, bound>>

\* It is picked when the schema comes, wherever the wizard is by then.
SchemaFetched ==
  /\ step # "done"
  /\ \E t \in fetches :
       /\ fetches' = fetches \ {t}
       /\ \/ onPick(t)
          \/ /\ pickErr' = (pickErr \/ step = "pick")
             /\ UNCHANGED <<loading, templates, wizard, binder, binds, strayed>>
  /\ UNCHANGED <<attempts, picks, builds, machines, asked, bound>>

-----------------------------------------------------------------------------
(* OnboardingWizard *)

\* "Build machine" stays enabled while a build is under way.
onCommit ==
  /\ step = "params" /\ asked < MaxBuilds
  /\ asked' = asked + 1
  /\ builds' = builds \union {[n |-> asked + 1, template |-> template, machine |-> 0]}
  /\ UNCHANGED <<picker, fetches, step, template, machineId, binder, binds, machines, bound,
                 strayed>>

\* Back unmounts the editor; the picker is mounted anew and loads.
Back ==
  /\ step = "params" /\ step' = "pick"
  /\ load
  /\ UNCHANGED <<fetches, template, machineId, builds, binder, binds, machines, asked,
                 bound, strayed>>

\* The machine answered is the one to bind, whatever is on the screen by now:
\* a binding step that shows goes on with its results.  Or the build is
\* refused, or its answer lost.
Built ==
  /\ step # "done"
  /\ \E b \in builds :
       /\ builds' = builds \ {b}
       /\ \/ /\ b.machine # 0 /\ machineId' = b.machine /\ step' = "bind"
             /\ PickerGone
             /\ strayed' = IF step = "bind" THEN {"build"} ELSE {}
          \/ UNCHANGED <<list, machineId, step, strayed>>
  /\ UNCHANGED <<attempts, picks, fetches, template, binder, binds, machines, asked, bound>>

-----------------------------------------------------------------------------
(* BindingStep *)

\* bind for the slots of queue in turn, the lowest first.  The kind of a slot
\* and its address are whatever was entered before the click; a hardware slot
\* without an address is passed over, with an error, at once.
bind(machine, queue, rest, shown) ==
  \/ /\ binds' = rest /\ UNCHANGED bound
     /\ binding' = IF shown THEN 0 ELSE binding
  \/ \E first \in queue, kind \in {"sim", "hardware"} :
       /\ bound < MaxBinds /\ bound' = bound + 1
       /\ binds' = rest \union {[machine |-> machine, slot |-> first, kind |-> kind,
                                 queue |-> {k \in queue : k > first}, stage |-> "sent", ok |-> FALSE,
                                 shown |-> shown, heard |-> TRUE, copy |-> NoSlots]}
       /\ binding' = IF shown THEN first ELSE binding

allBound == \A s \in joints : results[s] # Unbound

\* Mutant of BindButton: a slot being bound disables nothing.
BindAnyTime ==
  /\ step = "bind"
  /\ \E s \in joints : results[s] = Unbound /\ bind(machineId, {s}, binds, TRUE)
  /\ UNCHANGED <<picker, fetches, wizard, builds, results, machines, asked, strayed>>

BindButton ==
  /\ step = "bind" /\ binding = 0
  /\ \E s \in joints : results[s] = Unbound /\ bind(machineId, {s}, binds, TRUE)
  /\ UNCHANGED <<picker, fetches, wizard, builds, results, machines, asked, strayed>>

bindAll == bind(machineId, {s \in joints : results[s] = Unbound}, binds, TRUE)

BindAllButton ==
  /\ step = "bind" /\ binding = 0 /\ ~allBound
  /\ bindAll
  /\ UNCHANGED <<picker, fetches, wizard, builds, results, machines, asked, strayed>>

\* The wizard is left for the workspace; its late answers reach nobody.
OpenWorkspace ==
  /\ step = "bind" /\ allBound /\ step' = "done"
  /\ UNCHANGED <<picker, fetches, template, machineId, builds, binder, binds, machines,
                 asked, bound, strayed>>

\* The answer is noted and the next slot of bindAll follows.
BindAnswered ==
  /\ step # "done"
  /\ \E b \in binds :
       /\ b.stage = "answered"
       /\ results' = IF b.shown /\ b.ok
                     THEN [results EXCEPT ![b.slot] = [machine |-> b.machine, kind |-> b.kind]]
                     ELSE results
       /\ bind(b.machine, b.queue, binds \ {b}, b.shown)
  /\ UNCHANGED <<picker, fetches, wizard, builds, machines, asked, strayed>>

\* The connection fails: an error to the page, while the Brain goes on.
ConnectionLost ==
  /\ step # "done"
  /\ \E b \in binds :
       /\ b.heard /\ b.stage \in {"sent", "read"}
       /\ bind(b.machine, b.queue,
               (binds \ {b}) \union {[b EXCEPT !.heard = FALSE, !.shown = FALSE, !.queue = {}]},
               b.shown)
  /\ UNCHANGED <<picker, fetches, wizard, builds, results, machines, asked, strayed>>

-----------------------------------------------------------------------------
(* The Brain: builds a machine, binds a slot, or refuses. *)
BrainBuilds ==
  /\ \E b \in builds :
       /\ b.machine = 0
       /\ machines' = Append(machines, [template |-> b.template, slots |-> [s \in Slot |-> "none"]])
       /\ builds' = (builds \ {b}) \union {[b EXCEPT !.machine = Len(machines) + 1]}
  /\ UNCHANGED <<picker, fetches, wizard, binder, binds, asked, bound, strayed>>

\* The Brain is done with b: an answer, if anybody listens.
Replied(b, ok) ==
  binds' = (binds \ {b}) \union
           (IF b.heard THEN {[b EXCEPT !.stage = "answered", !.ok = ok, !.copy = NoSlots]} ELSE {})

\* Refused, for a slot the machine has not got or an actuator it cannot get, or read.
get_machine(b) ==
  /\ b.stage = "sent"
  /\ \/ Replied(b, FALSE)
     \/ /\ b.slot <= machines[b.machine].template
        /\ binds' = (binds \ {b}) \union {[b EXCEPT !.stage = "read", !.copy = machines[b.machine].slots]}
  /\ UNCHANGED <<machines, strayed>>

\* The bindings read are written with this one in its slot; the answer may be lost.
_persist(b) ==
  /\ b.stage = "read"
  /\ machines' = [machines EXCEPT ![b.machine].slots = [b.copy EXCEPT ![b.slot] = b.kind]]
  /\ \E ok \in BOOLEAN : Replied(b, ok)
  /\ strayed' = IF b.heard \/ b.machine # machineId THEN strayed ELSE strayed \union {"bind"}

bind_slot ==
  /\ \E b \in binds : get_machine(b) \/ _persist(b)
  /\ UNCHANGED <<picker, fetches, wizard, builds, binder, asked, bound>>

Init ==
  /\ attempts = 1 /\ loading = TRUE /\ templates = {} /\ pickErr = FALSE /\ picks = 0
  /\ step = "pick" /\ template = 0 /\ machineId = 0
  /\ results = [s \in Slot |-> Unbound] /\ binding = 0
  /\ fetches = {} /\ builds = {} /\ binds = {} /\ machines = <<>> /\ asked = 0 /\ bound = 0
  /\ strayed = {}

Next ==
  \/ Retry \/ Loaded \/ TemplateCard \/ SchemaFetched \/ onCommit \/ Back \/ Built
  \/ BindButton \/ BindAllButton \/ OpenWorkspace \/ BindAnswered
  \/ ConnectionLost \/ BrainBuilds \/ bind_slot

Spec == Init /\ [][Next]_vars

-----------------------------------------------------------------------------
TypeOK ==
  /\ attempts \in 0..MaxLoads /\ templates \subseteq Template /\ fetches \subseteq Template
  /\ {loading, pickErr} \subseteq BOOLEAN
  /\ step \in {"pick", "params", "bind", "done"} /\ template \in 0..MaxTemplates
  /\ machineId \in 0..Len(machines) /\ binding \in 0..MaxTemplates
  /\ strayed \subseteq {"build", "bind"}

(* What the step shows as bound is bound so, at the Brain, on the machine  *)
(* the step is about, and one slot at a time is asked for, however "Bind    *)
(* slot", "Bind all", refusals, lost connections and answers interleave    *)
(* (BindingStep).  Two things come between: a second "Build machine"       *)
(* answered while the step shows makes it about another machine and keeps  *)
(* its results (OnboardingWizard.tsx:404-428, 473-478), and a binding whose *)
(* connection was lost may still be written, with the bindings it read      *)
(* (machine_service.py:233-262).                                            *)
ResultsAreBindings ==
  /\ \A s \in Slot : results[s] # Unbound /\ strayed = {} =>
       /\ results[s].machine = machineId
       /\ machines[machineId].slots[s] = results[s].kind
  /\ {b.slot : b \in {c \in binds : c.shown}} = {binding} \ {0}
=============================================================================
