-------------------------------- MODULE DhEdit --------------------------------
(***************************************************************************)
(* The geometry editor (MachineEditor with lib/dh.ts): one set of DH       *)
(* values edited by the Easy tab's sliders, through the template's         *)
(* aliases, and by the Advanced tab's table, then applied to the Brain,    *)
(* which keeps its own reading of every alias (models/machine.py).         *)
(***************************************************************************)
EXTENDS Integers

CONSTANTS Joints,    \* the arm's joints
          Easy,      \* the targets of the template's aliases
          ReadOnly,  \* the targets its schema does not let the table edit
          MaxValue,  \* bound: magnitude of a value
          MaxEdits   \* bound: edits of one behaviour

NumberFields == {"a", "d", "limit_lower", "limit_upper"}
Target == {[joint |-> 0, field |-> "link_radius"]}
          \union [joint : Joints, field : NumberFields \union {"limit_symmetric"}]

VARIABLES
  dhValues,   \* the page's draft: link_radius, and the fields of each joint
  stored,     \* the machine's dh_chain at the Brain
  parameters, \* the Brain's legacy parameters, one per alias
  tab,        \* activeTab
  aimed,      \* the targets edited since the draft was last the Brain's
  edits

vars == <<dhValues, stored, parameters, tab, aimed, edits>>

abs(v) == IF v < 0 THEN -v ELSE v

-----------------------------------------------------------------------------
(* lib/dh.ts *)

readDhTarget(values, t) ==
  CASE t.field = "link_radius" -> values.link_radius
    [] t.field = "limit_symmetric" -> values.joints[t.joint].limit_upper
    [] OTHER -> values.joints[t.joint][t.field]

\* Mutant of writeDhTarget: every joint gets the value.
WriteAllJoints(values, t, v) ==
  CASE t.field = "link_radius" -> [values EXCEPT !.link_radius = v]
    [] t.field = "limit_symmetric" ->
         [values EXCEPT !.joints[t.joint].limit_lower = -abs(v), !.joints[t.joint].limit_upper = abs(v)]
    [] OTHER -> [values EXCEPT !.joints = [j \in Joints |-> [@[j] EXCEPT ![t.field] = v]]]

writeDhTarget(values, t, v) ==
  CASE t.field = "link_radius" -> [values EXCEPT !.link_radius = v]
    [] t.field = "limit_symmetric" ->
         [values EXCEPT !.joints[t.joint].limit_lower = -abs(v), !.joints[t.joint].limit_upper = abs(v)]
    [] OTHER -> [values EXCEPT !.joints[t.joint][t.field] = v]

readEasyAlias(values, alias) == readDhTarget(values, alias)
writeEasyAlias(values, alias, v) == writeDhTarget(values, alias, v)

\* The defaults of the schema; symmetric limits.
dhValuesFromSchema ==
  [link_radius |-> 1,
   joints |-> [j \in Joints |-> [f \in NumberFields |->
      CASE f = "limit_lower" -> -1 [] f = "limit_upper" -> 1 [] OTHER -> 0]]]

\* The schema's bounds of a target (readDhTargetSpec); a slider of a symmetric limit starts at 0.
readEasyAliasSpec(alias) == [min |-> -MaxValue, max |-> MaxValue]
easyRange(alias) ==
  LET spec == readEasyAliasSpec(alias)
  IN (IF alias.field = "limit_symmetric" THEN 0 ELSE spec.min)..spec.max

-----------------------------------------------------------------------------
(* MachineEditor *)

Edit(t, next) ==
  /\ edits < MaxEdits /\ edits' = edits + 1
  /\ dhValues' = next /\ aimed' = aimed \union {t}
  /\ UNCHANGED <<stored, parameters, tab>>

ChooseTab ==
  /\ tab' \in {"easy", "advanced"} \ {tab}
  /\ tab' = "easy" => Easy # {}
  /\ UNCHANGED <<dhValues, stored, parameters, aimed, edits>>

EasyPanel ==
  /\ tab = "easy"
  /\ \E alias \in Easy : \E v \in easyRange(alias) :
       Edit(alias, writeEasyAlias(dhValues, alias, v))

\* A typed number need not lie between the schema's bounds.
AdvancedRow(t) ==
  /\ t \notin ReadOnly
  /\ \E v \in -MaxValue..MaxValue : Edit(t, writeDhTarget(dhValues, t, v))

AdvancedPanel ==
  /\ tab = "advanced"
  /\ \E t \in Target : t.field # "limit_symmetric" /\ AdvancedRow(t)

-----------------------------------------------------------------------------
(* The Brain's side of an alias (models/machine.py). *)
resolve_dh_target(chain, t) ==
  CASE t.field = "link_radius" -> chain.link_radius
    [] t.field = "limit_symmetric" -> chain.joints[t.joint].limit_upper
    [] OTHER -> chain.joints[t.joint][t.field]

dh_values_to_parameters(chain) == [alias \in Easy |-> resolve_dh_target(chain, alias)]

\* update_parameters: the PATCH of the editor's "Apply"; a refusal changes nothing.
Apply ==
  /\ stored' = dhValues /\ parameters' = dh_values_to_parameters(dhValues)
  /\ aimed' = {}
  /\ UNCHANGED <<dhValues, tab, edits>>

\* Cancel, and the editor opened again on the Brain's values.
Reopen ==
  /\ dhValues' = stored /\ aimed' = {}
  /\ tab' = IF Easy # {} THEN "easy" ELSE "advanced"
  /\ UNCHANGED <<stored, parameters, edits>>

Init ==
  /\ dhValues = dhValuesFromSchema /\ stored = dhValuesFromSchema
  /\ parameters = dh_values_to_parameters(dhValuesFromSchema)
  /\ tab = IF Easy # {} THEN "easy" ELSE "advanced"
  /\ aimed = {} /\ edits = 0

Next == ChooseTab \/ EasyPanel \/ AdvancedPanel \/ Apply \/ Reopen

Spec == Init /\ [][Next]_vars

-----------------------------------------------------------------------------
(* Whatever the two tabs did, an alias that nothing overlapping edited     *)
(* still reads what the Brain keeps for it: a slider shows the parameter   *)
(* bind_slot and the older clients use (dh.ts:2, machine_service.py:454).  *)
Overlaps(s, t) ==
  s = t \/ (s.joint = t.joint /\ {s.field, t.field} \in
              {{"limit_symmetric", "limit_upper"}, {"limit_symmetric", "limit_lower"}})
SlidersMatchParameters ==
  \A alias \in Easy :
    (\A t \in aimed : ~Overlaps(alias, t)) => readEasyAlias(dhValues, alias) = parameters[alias]
=============================================================================
