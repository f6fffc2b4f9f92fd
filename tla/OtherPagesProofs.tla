-------------------------- MODULE OtherPagesProofs --------------------------
(***************************************************************************)
(* The invariants of the pages of programs: for each part an inductive     *)
(* invariant, that its first states and its steps have it, and that it     *)
(* holds what WebProofs states of the part.  Bounds are used as numbers    *)
(* only, some of them not zero.                                            *)
(***************************************************************************)
EXTENDS ProgramPages, Integers, Sequences, FiniteSets,
        FiniteSetTheorems, SequenceTheorems, WellFoundedInduction, TLAPS

-----------------------------------------------------------------------------
(* The drag (Drag): what the runs check of its loop is inductive.          *)

\* What the actions outside the loop keep.
LEMMA LoopUntouched ==
  ASSUME DragLoopSound, UNCHANGED <<ikInFlight, loops>>,
         pendingDelta' = pendingDelta \/ pendingDelta' = Nothing
  PROVE  DragLoopSound'
  BY DEF DragLoopSound, Nothing

\* An end-effector move starts a loop only when there is none.
LEMMA HandleEEDragSound ==
  ASSUME DragLoopSound, NEW delta, handleEEDrag(delta)
  PROVE  DragLoopSound'
<1>1. CASE ikInFlight
  <2>1. UNCHANGED <<ikInFlight, loops>>
    BY <1>1 DEF handleEEDrag
  <2> QED BY <1>1, <2>1 DEF DragLoopSound, Nothing
<1>2. CASE ~ikInFlight
  <2>1. loops = {}
    BY <1>2 DEF DragLoopSound
  <2>2. loops' = {NextRound(eeDragStart, delta)}
    BY <1>2, <2>1 DEF handleEEDrag
  <2>3. ikInFlight' /\ ikInFlight' = TRUE /\ pendingDelta' = Nothing
    BY <1>2 DEF handleEEDrag
  <2>4. \A l, m \in loops' : l = m
    BY <2>2
  <2>5. loops' # {}
    BY <2>2
  <2>6. Nothing' = Nothing
    BY DEF Nothing
  <2> QED BY <2>3, <2>4, <2>5, <2>6 DEF DragLoopSound
<1> QED BY <1>1, <1>2

\* A round of the only loop is followed by another round of it, or by its
\* end, and then nothing waits.
LEMMA LoopSound ==
  ASSUME DragLoopSound, Loop
  PROVE  DragLoopSound'
<1> PICK l \in loops :
      \/ /\ l.at = "preview"
         /\ loops' = (loops \ {l}) \union {[l EXCEPT !.at = "move"]}
         /\ UNCHANGED <<pendingDelta, ikInFlight>>
      \/ LET next == NextRound(l.start, pendingDelta) IN
         /\ pendingDelta' = Nothing
         /\ ikInFlight' = (next.at # "end")
         /\ loops' = (loops \ {l}) \union (IF next.at = "end" THEN {} ELSE {next})
  BY DEF Loop, LoopStep
<1>1. loops \ {l} = {}
  BY DEF DragLoopSound
<1>2. Nothing' = Nothing
  BY DEF Nothing
<1>3. CASE /\ loops' = (loops \ {l}) \union {[l EXCEPT !.at = "move"]}
           /\ UNCHANGED <<pendingDelta, ikInFlight>>
  <2>1. loops' = {[l EXCEPT !.at = "move"]}
    BY <1>1, <1>3
  <2>2. (\A k, m \in loops' : k = m) /\ loops' # {}
    BY <2>1
  <2>3. ikInFlight
    BY DEF DragLoopSound
  <2> QED BY <1>2, <1>3, <2>2, <2>3 DEF DragLoopSound
<1>4. CASE LET next == NextRound(l.start, pendingDelta) IN
           /\ pendingDelta' = Nothing
           /\ ikInFlight' = (next.at # "end")
           /\ loops' = (loops \ {l}) \union (IF next.at = "end" THEN {} ELSE {next})
  <2> DEFINE next == NextRound(l.start, pendingDelta)
  <2>1. CASE next.at = "end"
    <3>1. loops' = {} /\ ikInFlight' = FALSE /\ pendingDelta' = Nothing
      BY <1>1, <1>4, <2>1
    <3> QED BY <1>2, <3>1 DEF DragLoopSound
  <2>2. CASE next.at # "end"
    <3>1. loops' = {next} /\ ikInFlight' = TRUE /\ pendingDelta' = Nothing
      BY <1>1, <1>4, <2>2
    <3> HIDE DEF next
    <3>2. (\A k, m \in loops' : k = m) /\ loops' # {}
      BY <3>1
    <3> QED BY <1>2, <3>1, <3>2 DEF DragLoopSound
  <2> QED BY <2>1, <2>2
<1> QED BY <1>3, <1>4

LEMMA NextDragLoopSound == DragLoopSound /\ [Next]_vars => DragLoopSound'
<1> SUFFICES ASSUME DragLoopSound, [Next]_vars PROVE DragLoopSound'
  OBVIOUS
<1>1. CASE PrismaticCarriage \/ RevoluteHandle \/ EEHandle
  <2>1. UNCHANGED <<ikInFlight, loops, pendingDelta>>
    BY <1>1 DEF PrismaticCarriage, RevoluteHandle, EEHandle, startDrag
  <2> QED BY <2>1, LoopUntouched
<1>2. CASE onUp
  <2>1. UNCHANGED <<ikInFlight, loops>>
    BY <1>2 DEF onUp
  <2>2. pendingDelta' = pendingDelta \/ pendingDelta' = Nothing
    BY <1>2 DEF onUp
  <2> QED BY <2>1, <2>2, LoopUntouched
<1>3. CASE onMove
  <2>1. CASE handleJointDrag
    BY <2>1, LoopUntouched DEF handleJointDrag, loopVars
  <2>2. CASE handleEEDrag([drag |-> drags, n |-> deltas + 1])
    BY <2>2, HandleEEDragSound
  <2> QED BY <1>3, <2>1, <2>2 DEF onMove
<1>4. CASE JointPickerOverlay
  BY <1>4, LoopUntouched DEF JointPickerOverlay, handleJointDrag, loopVars
<1>5. CASE Loop
  BY <1>5, LoopSound
<1>6. CASE MoveJoint \/ SessionSwitch
  BY <1>6, LoopUntouched DEF MoveJoint, SessionSwitch, loopVars
<1>7. CASE UNCHANGED vars
  BY <1>7, LoopUntouched DEF vars
<1> QED BY <1>1, <1>2, <1>3, <1>4, <1>5, <1>6, <1>7 DEF Next
-----------------------------------------------------------------------------
(* Teaching (Teach)                                                        *)

\* What is assumed of its constants.
LEMMA TeachBounds ==
  te_MaxRequests \in Nat /\ te_MaxInFlight \in Nat /\ te_MaxPoses \in Nat
  BY ProgramPagesAssumption

\* A session, or the list of a program: waypoints taken so far, in the order
\* they were taken.
TeachList(w, n) == w \in Seq(1..n) /\ Teaching!Ascending(w)
TeachSession == [id : 0..te_MaxRequests, status : Teaching!Statuses, waypoints : Seq(Nat)]
TeachGood(s, n) == s \in TeachSession /\ TeachList(s.waypoints, n)

TeachRequest ==
  [n : 1..te_MaxRequests, op : {"start", "get", "record", "capture", "delete", "abort", "save"},
   id : Nat, arg : Nat, stage : {"sent", "await", "saving", "answered"}, ok : BOOLEAN,
   state : TeachSession, mounted : BOOLEAN]
\* The pose a capture waits with is newer than what it read.
TeachRequestInv(r, n) ==
  /\ r \in TeachRequest /\ TeachGood(r.state, n)
  /\ r.stage = "await" /\ r.op = "capture"
       => r.arg \in 1..n /\ \A i \in DOMAIN r.state.waypoints : r.state.waypoints[i] < r.arg
  /\ r.stage = "await" /\ r.op = "save" => r.state.waypoints # <<>>

\* The numbers of the requests that may still start a session.
TeachStarts == {r.n : r \in {q \in te_net : q.op = "start" /\ q.stage = "sent"}}

TeachBrainInv ==
  /\ te_sampled \in 0..te_MaxPoses /\ te_sessions \in Nat
  /\ TeachGood(te_brain, te_sampled)
  /\ te_programs \in Seq(Seq(Nat))
  /\ \A i \in DOMAIN te_programs : TeachList(te_programs[i], te_sampled) /\ te_programs[i] # <<>>
TeachNetInv ==
  /\ te_sent \in 0..te_MaxRequests
  /\ \A r \in te_net : TeachRequestInv(r, te_sampled) /\ r.n <= te_sent
  /\ \A q, r \in te_net : q.n = r.n => q = r
  /\ te_sessions + Cardinality(TeachStarts) <= te_sent
TeachPageInv ==
  /\ TeachGood(te_session, te_sampled)
  /\ te_error \in BOOLEAN /\ te_showSave \in BOOLEAN /\ te_route \in {"teach", "programs"}
TeachSocketInv ==
  /\ te_ws \in [id : 0..te_MaxRequests, state : {"closed", "opening", "snapshot", "live"},
                feed : Seq(TeachSession)]
  /\ \A i \in DOMAIN te_ws.feed : TeachGood(te_ws.feed[i], te_sampled) /\ te_ws.feed[i].id = te_ws.id
  /\ te_session # Teaching!NoSession => te_ws.id = te_session.id

TeachInv == TeachBrainInv /\ TeachNetInv /\ TeachPageInv /\ TeachSocketInv

\* Poses are only added.
LEMMA TeachGrow ==
  ASSUME NEW m \in Nat, NEW n \in Nat, m <= n
  PROVE  /\ \A w : TeachList(w, m) => TeachList(w, n)
         /\ \A s : TeachGood(s, m) => TeachGood(s, n)
         /\ \A r : TeachRequestInv(r, m) => TeachRequestInv(r, n)
<1>1. ASSUME NEW w, TeachList(w, m) PROVE TeachList(w, n)
  BY <1>1 DEF TeachList
<1>2. ASSUME NEW s, TeachGood(s, m) PROVE TeachGood(s, n)
  BY <1>1, <1>2 DEF TeachGood
<1>3. ASSUME NEW r, TeachRequestInv(r, m) PROVE TeachRequestInv(r, n)
  BY <1>2, <1>3 DEF TeachRequestInv
<1> QED BY <1>1, <1>2, <1>3

\* Places in a list are numbers.
LEMMA SeqMono ==
  ASSUME NEW n \in Nat, NEW w \in Seq(1..n)
  PROVE  w \in Seq(Nat)
OBVIOUS

\* A list of poses taken has none beyond the last.
LEMMA TeachBelow ==
  ASSUME NEW n \in Nat, NEW w, TeachList(w, n)
  PROVE  \A i \in DOMAIN w : w[i] \in 1..n /\ w[i] < n + 1
BY DEF TeachList

\* A new pose goes behind the others, and leaving one out keeps the order.
LEMMA TeachAppend ==
  ASSUME NEW n \in Nat, NEW w, TeachList(w, n), NEW p \in 1..n, \A i \in DOMAIN w : w[i] < p
  PROVE  TeachList(Append(w, p), n)
<1>1. w \in Seq(1..n) /\ Append(w, p) \in Seq(1..n) /\ Len(Append(w, p)) = Len(w) + 1
  BY DEF TeachList
<1>2. \A i \in 1..Len(w) : Append(w, p)[i] = w[i]
  BY <1>1
<1>3. Append(w, p)[Len(w) + 1] = p
  BY <1>1
<1>4. ASSUME NEW i \in 1..(Len(w) + 1), NEW j \in 1..(Len(w) + 1), i < j
      PROVE  Append(w, p)[i] < Append(w, p)[j]
  <2>1. Len(w) \in Nat /\ DOMAIN w = 1..Len(w)
    BY <1>1
  <2>2. CASE j = Len(w) + 1
    BY <1>2, <1>3, <1>4, <2>1, <2>2
  <2>3. CASE j # Len(w) + 1
    BY <1>2, <1>4, <2>1, <2>3 DEF TeachList, Teaching!Ascending
  <2> QED BY <2>2, <2>3
<1> QED BY <1>1, <1>4 DEF TeachList, Teaching!Ascending

\* A list without one waypoint is in order.
LEMMA TeachRemove ==
  ASSUME NEW n \in Nat, NEW w, TeachList(w, n), NEW k \in DOMAIN w
  PROVE  TeachList(Teaching!RemoveAt(w, k), n)
<1>1. w \in Seq(1..n) /\ k \in 1..Len(w) /\ Len(w) \in Nat
  BY DEF TeachList
<1> DEFINE a == SubSeq(w, 1, k - 1)
           b == SubSeq(w, k + 1, Len(w))
<1>2. a \in Seq(1..n) /\ Len(a) = k - 1 /\ \A i \in 1..(k - 1) : a[i] = w[i]
  <2>1. \A i \in 1..(k - 1) : w[i] \in 1..n
    BY <1>1
  <2> QED BY <1>1, <2>1, SubSeqProperties
<1>3. b \in Seq(1..n) /\ Len(b) = Len(w) - k /\ \A i \in 1..(Len(w) - k) : b[i] = w[i + k]
  <2>1. PICK m \in Int : m = k + 1
    BY <1>1
  <2>2. PICK l \in Int : l = Len(w)
    BY <1>1
  <2>3. \A i \in m..l : w[i] \in 1..n
    BY <1>1, <2>1, <2>2
  <2>4. /\ SubSeq(w, m, l) \in Seq(1..n)
        /\ Len(SubSeq(w, m, l)) = IF m <= l THEN l - m + 1 ELSE 0
        /\ \A i \in 1..(l - m + 1) : SubSeq(w, m, l)[i] = w[m + i - 1]
    BY <2>3, SubSeqProperties
  <2>5. /\ b \in Seq(1..n) /\ Len(b) = (IF m <= l THEN l - m + 1 ELSE 0)
        /\ \A i \in 1..(l - m + 1) : b[i] = w[m + i - 1]
    BY <2>1, <2>2, <2>4
  <2>6. l - m + 1 = Len(w) - k /\ (m <= l \/ Len(w) - k = 0)
    BY <1>1, <2>1, <2>2
  <2>7. \A i \in 1..(Len(w) - k) : m + i - 1 = i + k
    BY <1>1, <2>1
  <2> QED BY <1>1, <2>1, <2>2, <2>5, <2>6, <2>7
<1> HIDE DEF a, b
<1>4. /\ a \o b \in Seq(1..n) /\ Len(a \o b) = Len(w) - 1
      /\ \A i \in 1..(Len(w) - 1) : (a \o b)[i] = IF i <= k - 1 THEN a[i] ELSE b[i - (k - 1)]
  <2>1. /\ a \o b \in Seq(1..n) /\ Len(a \o b) = Len(a) + Len(b)
        /\ \A i \in 1..(Len(a) + Len(b)) : (a \o b)[i] = IF i <= Len(a) THEN a[i] ELSE b[i - Len(a)]
    BY <1>2, <1>3, ConcatProperties
  <2>2. Len(a) + Len(b) = Len(w) - 1
    BY <1>1, <1>2, <1>3
  <2> QED BY <1>2, <2>1, <2>2
<1>5. \A i \in 1..(Len(w) - 1) : (a \o b)[i] = IF i < k THEN w[i] ELSE w[i + 1]
  <2> SUFFICES ASSUME NEW i \in 1..(Len(w) - 1)
               PROVE  (a \o b)[i] = IF i < k THEN w[i] ELSE w[i + 1]
    OBVIOUS
  <2>1. CASE i < k
    BY <1>1, <1>2, <1>4, <2>1
  <2>2. CASE ~(i < k)
    <3>1. i - (k - 1) \in 1..(Len(w) - k) /\ i - (k - 1) + k = i + 1
      BY <1>1, <2>2
    <3>2. b[i - (k - 1)] = w[i + 1]
      BY <1>3, <3>1
    <3>3. (a \o b)[i] = b[i - (k - 1)]
      BY <1>1, <1>4, <2>2
    <3> QED BY <2>2, <3>2, <3>3
  <2> QED BY <2>1, <2>2
<1>6. ASSUME NEW i \in 1..(Len(w) - 1), NEW j \in 1..(Len(w) - 1), i < j
      PROVE  (a \o b)[i] < (a \o b)[j]
  <2>1. \A x, y \in 1..Len(w) : x < y => w[x] < w[y]
    BY <1>1 DEF TeachList, Teaching!Ascending
  <2>2. PICK x \in 1..Len(w) : x = (IF i < k THEN i ELSE i + 1)
    BY <1>1
  <2>3. PICK y \in 1..Len(w) : y = (IF j < k THEN j ELSE j + 1)
    BY <1>1
  <2>4. x < y
    BY <1>1, <1>6, <2>2, <2>3
  <2>5. (a \o b)[i] = w[x] /\ (a \o b)[j] = w[y]
    BY <1>5, <2>2, <2>3
  <2> QED BY <2>1, <2>4, <2>5
<1>7. TeachList(a \o b, n)
  <2>1. DOMAIN (a \o b) = 1..(Len(w) - 1)
    BY <1>1, <1>4
  <2> QED BY <1>4, <1>6, <2>1 DEF TeachList, Teaching!Ascending
<1> QED BY <1>7 DEF a, b, Teaching!RemoveAt

\* The page and its socket while the Brain works.
LEMMA TeachPageKept ==
  ASSUME TeachInv, te_sampled' \in Nat, te_sampled <= te_sampled',
         UNCHANGED <<te_session, te_error, te_showSave, te_route>>
  PROVE  TeachPageInv'
BY TeachGrow DEF TeachInv, TeachBrainInv, TeachPageInv

\* A socket stays sound while poses are taken.
LEMMA TeachSocketKept ==
  ASSUME TeachInv, te_sampled' \in Nat, te_sampled <= te_sampled',
         UNCHANGED <<te_session, te_ws>>
  PROVE  TeachSocketInv'
<1>1. te_sampled \in Nat
  BY DEF TeachInv, TeachBrainInv
<1> QED BY <1>1, TeachGrow DEF TeachInv, TeachSocketInv, Teaching!NoSession

\* Sessions nobody touches stay sound.
LEMMA TeachBrainKept ==
  ASSUME TeachInv, UNCHANGED <<te_brain, te_sampled, te_sessions, te_programs>>
  PROVE  TeachBrainInv'
BY DEF TeachInv, TeachBrainInv, TeachGood, TeachList, TeachSession, Teaching!Ascending

\* Starts under way are finitely many.
LEMMA TeachStartsFinite ==
  ASSUME TeachInv
  PROVE  IsFiniteSet(TeachStarts)
<1>1. TeachStarts \subseteq 1..te_MaxRequests
  BY DEF TeachInv, TeachNetInv, TeachRequestInv, TeachRequest, TeachStarts
<1>2. PICK S : S = 1..te_MaxRequests
  OBVIOUS
<1>3. IsFiniteSet(S)
  BY <1>2, FS_Interval, TeachBounds
<1>4. TeachStarts \in SUBSET S
  BY <1>1, <1>2
<1> QED BY <1>3, <1>4, FS_Subset

\* While a start is on its way there is a number left for its session.
LEMMA TeachMayStart ==
  ASSUME TeachInv, NEW r \in te_net, r.op = "start", r.stage = "sent"
  PROVE  te_sessions + 1 \in 0..te_MaxRequests
<1>1. r.n \in TeachStarts
  BY DEF TeachStarts
<1>2. IsFiniteSet(TeachStarts)
  BY TeachStartsFinite
<1>3. Cardinality(TeachStarts) \in Nat /\ Cardinality(TeachStarts) # 0
  BY <1>1, <1>2, FS_CardinalityType, FS_EmptySet
<1> QED BY <1>3, TeachBounds DEF TeachInv, TeachNetInv, TeachBrainInv

\* A served request takes one step; its number is no longer that of a start to come.
LEMMA TeachMoved ==
  ASSUME TeachInv, NEW r \in te_net, NEW r2, te_net' = (te_net \ {r}) \union {r2},
         te_sampled' \in Nat, te_sampled <= te_sampled', UNCHANGED te_sent,
         TeachRequestInv(r2, te_sampled'), r2.n = r.n, r2.op = r.op, r2.stage # "sent",
         IF r.op = "start" /\ r.stage = "sent"
         THEN te_sessions' \in te_sessions..(te_sessions + 1) ELSE UNCHANGED te_sessions
  PROVE  TeachNetInv'
<1>1. te_sampled \in Nat /\ te_sessions \in Nat /\ te_sent \in Nat
  BY DEF TeachInv, TeachBrainInv, TeachNetInv
<1>2. \A q \in te_net' : TeachRequestInv(q, te_sampled') /\ q.n <= te_sent
  BY <1>1, TeachGrow DEF TeachInv, TeachNetInv
<1>3. \A p, q \in te_net' : p.n = q.n => p = q
  BY DEF TeachInv, TeachNetInv
<1>4. TeachStarts' = {q.n : q \in {p \in te_net' : p.op = "start" /\ p.stage = "sent"}}
  BY DEF TeachStarts
<1>5. TeachStarts' \subseteq TeachStarts \ (IF r.op = "start" /\ r.stage = "sent" THEN {r.n} ELSE {})
  BY <1>4 DEF TeachInv, TeachNetInv, TeachStarts
<1>6. IsFiniteSet(TeachStarts)
  BY TeachStartsFinite
<1>7. te_sessions' + Cardinality(TeachStarts') <= te_sent
  <2>1. /\ Cardinality(TeachStarts) \in Nat
        /\ te_sessions + Cardinality(TeachStarts) <= te_sent
    BY <1>6, FS_CardinalityType DEF TeachInv, TeachNetInv
  <2>2. CASE r.op = "start" /\ r.stage = "sent"
    <3>1. r.n \in TeachStarts
      BY <2>2 DEF TeachStarts
    <3>2. /\ IsFiniteSet(TeachStarts \ {r.n})
          /\ Cardinality(TeachStarts \ {r.n}) = Cardinality(TeachStarts) - 1
      BY <1>6, <3>1, FS_RemoveElement
    <3>3. TeachStarts' \in SUBSET (TeachStarts \ {r.n})
      BY <1>5, <2>2
    <3>4. IsFiniteSet(TeachStarts') /\ Cardinality(TeachStarts') <= Cardinality(TeachStarts) - 1
      BY <3>2, <3>3, FS_Subset
    <3> QED BY <1>1, <2>1, <2>2, <3>4, FS_CardinalityType
  <2>3. CASE ~(r.op = "start" /\ r.stage = "sent")
    <3>1. TeachStarts' \in SUBSET TeachStarts
      BY <1>5
    <3>2. IsFiniteSet(TeachStarts') /\ Cardinality(TeachStarts') <= Cardinality(TeachStarts)
      BY <1>6, <3>1, FS_Subset
    <3> QED BY <1>1, <2>1, <2>3, <3>2, FS_CardinalityType
  <2> QED BY <2>2, <2>3
<1> QED BY <1>2, <1>3, <1>7 DEF TeachInv, TeachNetInv

\* The requests under way after an answer or after the page is left.
LEMMA TeachForgotten ==
  ASSUME TeachInv, NEW m \in [te_net -> BOOLEAN], NEW rest, rest \subseteq te_net,
         te_net' = {[q EXCEPT !.mounted = m[q]] : q \in rest},
         UNCHANGED <<te_sampled, te_sessions, te_sent>>
  PROVE  TeachNetInv'
<1>1. ASSUME NEW q \in rest
      PROVE  /\ TeachRequestInv([q EXCEPT !.mounted = m[q]], te_sampled)
             /\ [q EXCEPT !.mounted = m[q]].n = q.n /\ q.n <= te_sent
             /\ [q EXCEPT !.mounted = m[q]].op = q.op /\ [q EXCEPT !.mounted = m[q]].stage = q.stage
  <2>1. TeachRequestInv(q, te_sampled) /\ q.n <= te_sent /\ m[q] \in BOOLEAN
    BY DEF TeachInv, TeachNetInv
  <2>2. [q EXCEPT !.mounted = m[q]] \in TeachRequest
    BY <2>1 DEF TeachRequestInv, TeachRequest
  <2>3. /\ [q EXCEPT !.mounted = m[q]].n = q.n /\ [q EXCEPT !.mounted = m[q]].op = q.op
        /\ [q EXCEPT !.mounted = m[q]].stage = q.stage /\ [q EXCEPT !.mounted = m[q]].arg = q.arg
        /\ [q EXCEPT !.mounted = m[q]].state = q.state
    BY <2>1 DEF TeachRequestInv, TeachRequest
  <2> QED BY <2>1, <2>2, <2>3 DEF TeachRequestInv
<1>2. \A p \in te_net' : TeachRequestInv(p, te_sampled) /\ p.n <= te_sent
  BY <1>1
<1>3. \A p, q \in te_net' : p.n = q.n => p = q
  <2> SUFFICES ASSUME NEW p \in te_net', NEW q \in te_net', p.n = q.n PROVE p = q
    OBVIOUS
  <2>1. PICK x \in rest : p = [x EXCEPT !.mounted = m[x]]
    OBVIOUS
  <2>2. PICK y \in rest : q = [y EXCEPT !.mounted = m[y]]
    OBVIOUS
  <2>3. x.n = y.n
    BY <1>1, <2>1, <2>2
  <2>4. x = y
    BY <2>3 DEF TeachInv, TeachNetInv
  <2> QED BY <2>1, <2>2, <2>4
<1>4. TeachStarts' = {q.n : q \in {p \in te_net' : p.op = "start" /\ p.stage = "sent"}}
  BY DEF TeachStarts
<1>5. TeachStarts' \in SUBSET TeachStarts
  <2> SUFFICES ASSUME NEW p \in te_net', p.op = "start", p.stage = "sent"
               PROVE  p.n \in TeachStarts
    BY <1>4
  <2>1. PICK q \in rest : p = [q EXCEPT !.mounted = m[q]]
    OBVIOUS
  <2>2. q \in te_net /\ q.op = "start" /\ q.stage = "sent" /\ q.n = p.n
    BY <1>1, <2>1
  <2> QED BY <2>2 DEF TeachStarts
<1>6. IsFiniteSet(TeachStarts)
  BY TeachStartsFinite
<1>7. te_sessions' + Cardinality(TeachStarts') <= te_sent
  <2>1. IsFiniteSet(TeachStarts') /\ Cardinality(TeachStarts') <= Cardinality(TeachStarts)
    BY <1>5, <1>6, FS_Subset
  <2> QED BY <1>6, <2>1, FS_CardinalityType DEF TeachInv, TeachNetInv, TeachBrainInv
<1> QED BY <1>2, <1>3, <1>7 DEF TeachInv, TeachNetInv

\* A request of the page.
LEMMA TeachFetch ==
  ASSUME TeachInv, NEW op \in {"start", "get", "record", "capture", "delete", "abort", "save"},
         NEW id \in Nat, NEW arg \in Nat, Teaching!brainFetch(op, id, arg),
         UNCHANGED <<te_sampled, te_sessions>>
  PROVE  TeachNetInv'
<1>1. te_sent \in Nat /\ te_sent < te_MaxRequests /\ te_sent' = te_sent + 1
  BY TeachBounds DEF TeachInv, TeachNetInv, Teaching!brainFetch
<1>2. PICK q : q = [n |-> te_sent + 1, op |-> op, id |-> id, arg |-> arg, stage |-> "sent",
                    ok |-> TRUE, state |-> Teaching!NoSession, mounted |-> TRUE]
  OBVIOUS
<1>3. te_net' = te_net \union {q}
  BY <1>2 DEF Teaching!brainFetch
<1>4. TeachGood(Teaching!NoSession, te_sampled)
  BY TeachBounds DEF TeachGood, TeachList, TeachSession, Teaching!NoSession, Teaching!Statuses, Teaching!Ascending
<1>5. q \in TeachRequest
  <2>1. te_sent + 1 \in 1..te_MaxRequests
    BY <1>1, TeachBounds
  <2>2. Teaching!NoSession \in TeachSession
    BY <1>4 DEF TeachGood
  <2> QED BY <1>2, <2>1, <2>2 DEF TeachRequest
<1>6. TeachRequestInv(q, te_sampled)
  BY <1>2, <1>4, <1>5 DEF TeachRequestInv
<1>7. \A r \in te_net' : TeachRequestInv(r, te_sampled) /\ r.n <= te_sent + 1
  <2>1. \A r \in te_net : TeachRequestInv(r, te_sampled) /\ r.n \in Nat /\ r.n <= te_sent
    BY DEF TeachInv, TeachNetInv, TeachRequestInv, TeachRequest
  <2>2. q.n = te_sent + 1
    BY <1>2
  <2> QED BY <1>1, <1>3, <1>6, <2>1, <2>2
<1>8. \A p, r \in te_net' : p.n = r.n => p = r
  <2>1. \A r \in te_net : r.n \in Nat /\ r.n <= te_sent
    BY DEF TeachInv, TeachNetInv, TeachRequestInv, TeachRequest
  <2>2. \A r \in te_net : r.n # q.n
    BY <1>1, <1>2, <2>1
  <2>3. \A p, r \in te_net : p.n = r.n => p = r
    BY DEF TeachInv, TeachNetInv
  <2> QED BY <1>3, <2>2, <2>3
<1>9. TeachStarts' = {r.n : r \in {p \in te_net' : p.op = "start" /\ p.stage = "sent"}}
  BY DEF TeachStarts
<1>10. TeachStarts' \in SUBSET (TeachStarts \union {te_sent + 1})
  BY <1>2, <1>3, <1>9 DEF TeachStarts
<1>11. IsFiniteSet(TeachStarts)
  BY TeachStartsFinite
<1>12. te_sessions' + Cardinality(TeachStarts') <= te_sent'
  <2>1. /\ IsFiniteSet(TeachStarts \union {te_sent + 1})
        /\ Cardinality(TeachStarts \union {te_sent + 1}) <= Cardinality(TeachStarts) + 1
    BY <1>11, FS_AddElement, FS_CardinalityType
  <2>2. IsFiniteSet(TeachStarts') /\ Cardinality(TeachStarts') <= Cardinality(TeachStarts \union {te_sent + 1})
    BY <1>10, <2>1, FS_Subset
  <2>3. Cardinality(TeachStarts) \in Nat /\ Cardinality(TeachStarts') \in Nat
        /\ Cardinality(TeachStarts \union {te_sent + 1}) \in Nat
    BY <1>11, <2>1, <2>2, FS_CardinalityType
  <2> QED BY <1>1, <2>1, <2>2, <2>3 DEF TeachInv, TeachNetInv, TeachBrainInv
<1> QED BY <1>1, <1>7, <1>8, <1>12, TeachBounds DEF TeachNetInv

\* A click that sends a request.
LEMMA TeachAsked ==
  ASSUME TeachInv, NEW op \in {"start", "get", "record", "capture", "delete", "abort", "save"},
         NEW id \in Nat, NEW arg \in Nat, Teaching!brainFetch(op, id, arg),
         UNCHANGED <<Teaching!brainVars, te_session, te_ws>>,
         te_error' \in BOOLEAN, te_showSave' \in BOOLEAN, te_route' \in {"teach", "programs"}
  PROVE  TeachInv'
<1>1. /\ UNCHANGED <<te_brain, te_sampled, te_sessions, te_programs>>
      /\ UNCHANGED te_session /\ UNCHANGED te_ws
  BY DEF Teaching!brainVars
<1>2. te_sampled \in Nat
  BY DEF TeachInv, TeachBrainInv
<1>3. TeachBrainInv'
  BY <1>1, TeachBrainKept
<1>4. TeachNetInv'
  BY <1>1, TeachFetch
<1>5. TeachPageInv'
  BY <1>1 DEF TeachInv, TeachPageInv, TeachGood, TeachList, TeachSession, Teaching!Ascending
<1>6. TeachSocketInv'
  BY <1>1, <1>2, TeachSocketKept
<1> QED BY <1>3, <1>4, <1>5, <1>6 DEF TeachInv

\* A button that acts on the session.
LEMMA TeachAct ==
  ASSUME TeachInv, NEW op \in {"record", "capture", "delete", "abort", "save"},
         NEW arg \in Nat, Teaching!Act(op, arg), te_showSave' \in BOOLEAN
  PROVE  TeachInv'
<1>1. te_session.id \in Nat /\ te_route \in {"teach", "programs"}
  BY TeachBounds DEF TeachInv, TeachPageInv, TeachGood, TeachSession
<1>2. /\ Teaching!brainFetch(op, te_session.id, arg)
      /\ UNCHANGED <<Teaching!brainVars, te_session, te_ws>>
      /\ te_error' \in BOOLEAN /\ te_route' \in {"teach", "programs"}
  BY <1>1 DEF Teaching!Act
<1> QED BY <1>1, <1>2, TeachAsked

\* Leaving the page closes its socket and forgets its session.
LEMMA TeachLeft ==
  ASSUME TeachInv, Teaching!Leave, UNCHANGED Teaching!brainVars
  PROVE  TeachPageInv' /\ TeachSocketInv'
<1>1. te_session' = Teaching!NoSession /\ te_ws' = Teaching!NoSocket /\ te_sampled' = te_sampled
      /\ te_error' = FALSE /\ te_showSave' = FALSE /\ te_route' = "programs" /\ te_sampled \in Nat
  BY DEF TeachInv, TeachBrainInv, Teaching!Leave, Teaching!brainVars
<1>2. \A n \in Nat : TeachGood(Teaching!NoSession, n)
  BY TeachBounds DEF TeachGood, TeachList, TeachSession, Teaching!NoSession, Teaching!Statuses, Teaching!Ascending
<1>3. TeachPageInv'
  BY <1>1, <1>2 DEF TeachPageInv
<1>4. TeachSocketInv'
  BY <1>1, TeachBounds DEF TeachSocketInv, Teaching!NoSocket, Teaching!NoSession
<1> QED BY <1>3, <1>4

\* What the page's user does.
LEMMA TeachUser ==
  ASSUME TeachInv, Teaching!User
  PROVE  TeachInv'
<1>1. te_showSave \in BOOLEAN /\ te_error \in BOOLEAN /\ te_route \in {"teach", "programs"}
  BY DEF TeachInv, TeachPageInv
<1>2. ASSUME Teaching!startSession PROVE TeachInv'
  <2>1. /\ Teaching!brainFetch("start", 0, 0) /\ UNCHANGED <<Teaching!brainVars, te_session, te_ws>>
        /\ te_error' \in BOOLEAN /\ te_showSave' \in BOOLEAN /\ te_route' \in {"teach", "programs"}
    BY <1>1, <1>2 DEF Teaching!startSession
  <2> QED BY <2>1, TeachAsked
<1>3. ASSUME Teaching!RecordButton PROVE TeachInv'
  <2>1. CASE Teaching!startSession
    BY <1>2, <2>1
  <2>2. CASE Teaching!startRecording
    BY <1>1, <2>2, TeachAct DEF Teaching!startRecording
  <2> QED BY <1>3, <2>1, <2>2 DEF Teaching!RecordButton, Teaching!HandleRecord
<1>4. ASSUME Teaching!capture PROVE TeachInv'
  BY <1>1, <1>4, TeachAct DEF Teaching!capture
<1>5. ASSUME Teaching!DiscardButton PROVE TeachInv'
  BY <1>1, <1>5, TeachAct DEF Teaching!DiscardButton, Teaching!abort
<1>6. ASSUME Teaching!WaypointList PROVE TeachInv'
  <2>1. PICK i \in DOMAIN te_session.waypoints : Teaching!deleteWaypoint(i)
    BY <1>6 DEF Teaching!WaypointList, Teaching!WaypointRow
  <2>2. i \in Nat
    BY DEF TeachInv, TeachPageInv, TeachGood, TeachSession
  <2> QED BY <1>1, <2>1, <2>2, TeachAct DEF Teaching!deleteWaypoint
<1>7. ASSUME te_showSave' \in BOOLEAN,
             UNCHANGED <<Teaching!brainVars, te_session, te_error, te_route, te_ws, te_net, te_sent>>
      PROVE  TeachInv'
  <2>1. UNCHANGED <<te_brain, te_sampled, te_sessions, te_programs, te_session, te_error, te_route,
                    te_ws, te_net, te_sent>>
    BY <1>7 DEF Teaching!brainVars
  <2>2. TeachBrainInv' /\ TeachSocketInv'
    BY <2>1, TeachBrainKept, TeachSocketKept DEF TeachInv, TeachBrainInv
  <2>3. TeachPageInv'
    BY <1>7, <2>1 DEF TeachInv, TeachPageInv, TeachGood, TeachList, TeachSession, Teaching!Ascending
  <2>4. TeachNetInv'
    BY <2>1 DEF TeachInv, TeachNetInv, TeachRequestInv, TeachRequest, TeachStarts,
       TeachGood, TeachList, TeachSession, Teaching!Ascending
  <2> QED BY <2>2, <2>3, <2>4 DEF TeachInv
<1>8. ASSUME Teaching!SaveButton PROVE TeachInv'
  BY <1>7, <1>8 DEF Teaching!SaveButton
<1>9. ASSUME Teaching!SaveDialog PROVE TeachInv'
  <2>1. CASE Teaching!save
    BY <1>1, <2>1, TeachAct DEF Teaching!save
  <2> QED BY <1>7, <1>9, <2>1 DEF Teaching!SaveDialog
<1>10. ASSUME Teaching!SavedLink PROVE TeachInv'
  <2>1. /\ Teaching!Leave /\ UNCHANGED Teaching!brainVars /\ te_sent' = te_sent
        /\ te_net' = {[r EXCEPT !.mounted = FALSE] : r \in te_net}
        /\ UNCHANGED <<te_brain, te_sampled, te_sessions, te_programs>>
    BY <1>10 DEF Teaching!SavedLink, Teaching!brainVars
  <2>2. PICK m : m = [r \in te_net |-> FALSE]
    OBVIOUS
  <2>3. m \in [te_net -> BOOLEAN] /\ te_net' = {[r EXCEPT !.mounted = m[r]] : r \in te_net}
    BY <2>1, <2>2
  <2>4. TeachNetInv'
    BY <2>1, <2>3, TeachForgotten
  <2> QED BY <2>1, <2>4, TeachLeft, TeachBrainKept DEF TeachInv
<1>11. ASSUME Teaching!Mount PROVE TeachInv'
  <2>1. /\ Teaching!brainFetch("get", 0, 0) /\ UNCHANGED <<Teaching!brainVars, te_session, te_ws>>
        /\ te_error' \in BOOLEAN /\ te_showSave' \in BOOLEAN /\ te_route' \in {"teach", "programs"}
    BY <1>1, <1>11 DEF Teaching!Mount
  <2> QED BY <2>1, TeachAsked
<1>12. Teaching!CaptureButton \/ Teaching!KeySpace => Teaching!capture
  BY DEF Teaching!CaptureButton, Teaching!KeySpace
<1> QED BY <1>3, <1>4, <1>5, <1>6, <1>8, <1>9, <1>10, <1>11, <1>12 DEF Teaching!User

\* A step of the Brain for one request.
LEMMA TeachServed ==
  ASSUME TeachInv, NEW r \in te_net, NEW r2, Teaching!Move(r, r2),
         te_sampled' \in Nat, te_sampled <= te_sampled',
         UNCHANGED <<te_session, te_error, te_showSave, te_route, te_ws, te_sent>>,
         TeachRequestInv(r2, te_sampled'), r2.n = r.n, r2.op = r.op, r2.stage # "sent",
         IF r.op = "start" /\ r.stage = "sent"
         THEN te_sessions' \in te_sessions..(te_sessions + 1) ELSE UNCHANGED te_sessions,
         TeachBrainInv'
  PROVE  TeachInv'
<1>1. TeachNetInv'
  BY TeachMoved DEF Teaching!Move
<1> QED BY <1>1, TeachPageKept, TeachSocketKept DEF TeachInv

\* The Brain refuses a request.
LEMMA TeachRefused ==
  ASSUME TeachInv, NEW r \in te_net, r.stage # "answered", Teaching!Refuse(r),
         UNCHANGED <<te_sampled, te_sessions, te_session, te_error, te_showSave, te_route,
                     te_ws, te_sent>>
  PROVE  TeachInv'
<1>1. r \in TeachRequest /\ TeachGood(r.state, te_sampled) /\ te_sampled \in Nat /\ te_sessions \in Nat
  BY DEF TeachInv, TeachNetInv, TeachRequestInv, TeachBrainInv
<1>2. PICK r2 : r2 = [r EXCEPT !.stage = "answered", !.ok = FALSE]
  OBVIOUS
<1>3. /\ r2 \in TeachRequest
      /\ r2.n = r.n /\ r2.op = r.op /\ r2.stage = "answered" /\ r2.state = r.state
  BY <1>1, <1>2 DEF TeachRequest
<1>4. TeachRequestInv(r2, te_sampled)
  BY <1>1, <1>3 DEF TeachRequestInv
<1>6. Teaching!Move(r, r2) /\ UNCHANGED <<te_brain, te_programs>>
  BY <1>2 DEF Teaching!Refuse
<1>7. TeachBrainInv'
  BY <1>6, TeachBrainKept
<1> QED BY <1>1, <1>3, <1>4, <1>6, <1>7, TeachServed

\* A step that changes the session in memory.
LEMMA TeachWritten ==
  ASSUME TeachInv, NEW r \in te_net, NEW s, Teaching!Write(r, s), TeachGood(s, te_sampled),
         UNCHANGED <<te_sampled, te_session, te_error, te_showSave, te_route, te_ws, te_sent>>,
         IF r.op = "start" /\ r.stage = "sent"
         THEN te_sessions' \in te_sessions..(te_sessions + 1) ELSE UNCHANGED te_sessions,
         \/ UNCHANGED te_programs
         \/ /\ te_programs' = Append(te_programs, s.waypoints)
            /\ s.waypoints # <<>>
  PROVE  TeachInv'
<1>1. /\ r \in TeachRequest /\ te_sampled \in 0..te_MaxPoses /\ te_sampled \in Nat /\ te_sessions \in Nat
      /\ te_sessions' \in Nat
  BY TeachBounds DEF TeachInv, TeachNetInv, TeachRequestInv, TeachBrainInv
<1>2. PICK r2 : r2 = [r EXCEPT !.stage = "saving", !.state = s]
  OBVIOUS
<1>3. /\ r2 \in TeachRequest
      /\ r2.n = r.n /\ r2.op = r.op /\ r2.stage = "saving" /\ r2.state = s
  BY <1>1, <1>2 DEF TeachRequest, TeachGood
<1>4. TeachRequestInv(r2, te_sampled)
  BY <1>3 DEF TeachRequestInv
<1>6. Teaching!Move(r, r2) /\ te_brain' = s
  BY <1>2 DEF Teaching!Write
<1>7. TeachGood(te_brain', te_sampled')
  BY <1>6
<1>8. /\ te_programs' \in Seq(Seq(Nat))
      /\ \A i \in DOMAIN te_programs' : TeachList(te_programs'[i], te_sampled) /\ te_programs'[i] # <<>>
  <2>1. /\ te_programs \in Seq(Seq(Nat))
        /\ \A i \in DOMAIN te_programs : TeachList(te_programs[i], te_sampled) /\ te_programs[i] # <<>>
        /\ TeachList(s.waypoints, te_sampled) /\ s.waypoints \in Seq(Nat)
    BY DEF TeachInv, TeachBrainInv, TeachGood, TeachSession
  <2>2. CASE UNCHANGED te_programs
    BY <2>1, <2>2
  <2>3. CASE te_programs' = Append(te_programs, s.waypoints) /\ s.waypoints # <<>>
    <3>1. PICK w \in Seq(Nat) : w = s.waypoints
      BY <2>1
    <3>2. TeachList(w, te_sampled) /\ w # <<>>
      BY <2>1, <2>3, <3>1
    <3>3. te_programs' = Append(te_programs, w)
      BY <2>3, <3>1
    <3>4. te_programs' \in Seq(Seq(Nat)) /\ Len(te_programs') = Len(te_programs) + 1
      BY <2>1, <3>3
    <3>5. ASSUME NEW i \in DOMAIN te_programs'
          PROVE  (i \in DOMAIN te_programs /\ te_programs'[i] = te_programs[i]) \/ te_programs'[i] = w
      BY <2>1, <3>3, <3>4, <3>5
    <3> QED BY <2>1, <3>2, <3>4, <3>5
  <2> QED BY <2>2, <2>3
<1>9. TeachBrainInv'
  BY <1>1, <1>7, <1>8 DEF TeachBrainInv
<1> QED BY <1>1, <1>3, <1>4, <1>6, <1>9, TeachServed

\* A step that only reads the session.
LEMMA TeachRead ==
  ASSUME TeachInv, NEW r \in te_net, NEW stage \in {"await", "answered"}, NEW ok \in BOOLEAN,
         NEW arg \in Nat,
         Teaching!Move(r, [r EXCEPT !.stage = stage, !.ok = ok, !.arg = arg, !.state = te_brain]),
         te_sampled' \in te_sampled..te_MaxPoses,
         UNCHANGED <<te_brain, te_programs, te_sessions, te_session, te_error, te_showSave,
                     te_route, te_ws, te_sent>>,
         r.op # "start",
         stage = "await" => r.op \in {"capture", "save"},
         stage = "await" /\ r.op = "capture" => te_sampled' = te_sampled + 1 /\ arg = te_sampled',
         stage = "await" /\ r.op = "save" => te_brain.waypoints # <<>>
  PROVE  TeachInv'
<1>1. /\ te_sampled \in 0..te_MaxPoses /\ te_sampled \in Nat /\ te_sessions \in Nat
      /\ TeachGood(te_brain, te_sampled)
  BY TeachBounds DEF TeachInv, TeachBrainInv
<1>2. te_sampled' \in Nat /\ te_sampled' \in 0..te_MaxPoses /\ te_sampled <= te_sampled'
  BY <1>1, TeachBounds
<1>3. PICK s : s = te_brain
  OBVIOUS
<1>4. PICK n : n = te_sampled'
  OBVIOUS
<1>5. TeachGood(s, n) /\ n \in Nat /\ te_sampled <= n
  BY <1>1, <1>2, <1>3, <1>4, TeachGrow
<1>6. stage = "await" /\ r.op = "capture"
        => arg \in 1..n /\ \A i \in DOMAIN s.waypoints : s.waypoints[i] < arg
  <2> SUFFICES ASSUME stage = "await", r.op = "capture"
               PROVE  arg \in 1..n /\ \A i \in DOMAIN s.waypoints : s.waypoints[i] < arg
    OBVIOUS
  <2>3. arg = te_sampled + 1 /\ n = te_sampled + 1
    BY <1>4
  <2>4. TeachList(s.waypoints, te_sampled)
    BY <1>1, <1>3 DEF TeachGood
  <2> QED BY <1>1, <2>3, <2>4, TeachBelow
<1>7. PICK r2 : r2 = [r EXCEPT !.stage = stage, !.ok = ok, !.arg = arg, !.state = s]
  OBVIOUS
<1>8. /\ TeachRequestInv(r2, n)
      /\ r2.n = r.n /\ r2.op = r.op /\ r2.stage # "sent"
  <2>1. r \in TeachRequest /\ s \in TeachSession
    BY <1>5 DEF TeachInv, TeachNetInv, TeachRequestInv, TeachGood
  <2>2. /\ r2 \in TeachRequest
        /\ r2.n = r.n /\ r2.op = r.op /\ r2.stage = stage /\ r2.arg = arg /\ r2.state = s
    BY <1>7, <2>1 DEF TeachRequest
  <2>3. r.op = "save" /\ stage = "await" => s.waypoints # <<>>
    BY <1>3
  <2> QED BY <1>5, <1>6, <2>2, <2>3 DEF TeachRequestInv
<1>9. Teaching!Move(r, r2)
  BY <1>3, <1>7
<1>10. TeachBrainInv'
  BY <1>1, <1>2, TeachGrow DEF TeachInv, TeachBrainInv
<1> QED BY <1>1, <1>2, <1>4, <1>8, <1>9, <1>10, TeachServed

\* One step of a handler of the Brain.
LEMMA TeachService ==
  ASSUME TeachInv, NEW r \in te_net, Teaching!Service(r)
  PROVE  TeachInv'
<1>1. /\ UNCHANGED <<te_session, te_error, te_showSave, te_route, te_ws, te_sent>>
      /\ r.stage \in {"sent", "await"}
  BY DEF Teaching!Service, Teaching!pageVars
<1>2. /\ r \in TeachRequest /\ TeachGood(r.state, te_sampled) /\ TeachGood(te_brain, te_sampled)
      /\ te_sampled \in Nat /\ te_sampled \in 0..te_MaxPoses /\ te_sessions \in Nat
  BY TeachBounds DEF TeachInv, TeachNetInv, TeachRequestInv, TeachBrainInv
<1>3. ASSUME Teaching!Refuse(r), UNCHANGED <<te_sampled, te_sessions>> PROVE TeachInv'
  BY <1>1, <1>3, TeachRefused
<1>4. ASSUME r.op = "start", r.stage = "sent", Teaching!StartSession(r), UNCHANGED te_sampled
      PROVE  TeachInv'
  <2>1. CASE te_brain # Teaching!NoSession /\ te_brain.status \notin Teaching!TEACH_TERMINAL
    BY <1>3, <1>4, <2>1 DEF Teaching!StartSession
  <2>2. CASE ~(te_brain # Teaching!NoSession /\ te_brain.status \notin Teaching!TEACH_TERMINAL)
    <3>1. PICK s : s = [id |-> te_sessions + 1, status |-> "armed", waypoints |-> <<>>]
      OBVIOUS
    <3>2. te_sessions' = te_sessions + 1 /\ Teaching!Write(r, s) /\ UNCHANGED te_programs
      BY <1>4, <2>2, <3>1 DEF Teaching!StartSession
    <3>3. te_sessions + 1 \in 0..te_MaxRequests
      BY <1>2, <1>4, TeachMayStart
    <3>4. s \in TeachSession /\ s.waypoints = <<>>
      BY <3>1, <3>3 DEF TeachSession, Teaching!Statuses
    <3>5. TeachGood(s, te_sampled)
      BY <3>4 DEF TeachGood, TeachList, Teaching!Ascending
    <3> QED BY <1>1, <1>2, <1>4, <3>2, <3>5, TeachWritten
  <2> QED BY <2>1, <2>2
<1>5. ASSUME r.op = "capture", r.stage = "sent", Teaching!CaptureRead(r), UNCHANGED te_sessions
      PROVE  TeachInv'
  <2>1. CASE Teaching!Refuse(r) /\ UNCHANGED te_sampled
    BY <1>3, <1>5, <2>1
  <2>2. CASE /\ te_sampled < te_MaxPoses /\ te_sampled' = te_sampled + 1
             /\ Teaching!Move(r, [r EXCEPT !.stage = "await", !.arg = te_sampled + 1, !.state = te_brain])
             /\ UNCHANGED <<te_brain, te_programs>>
    <3>1. PICK a \in Nat : a = te_sampled + 1
      BY <1>2
    <3>2. PICK ok \in BOOLEAN : ok = r.ok
      BY <1>2 DEF TeachRequest
    <3>3. [r EXCEPT !.stage = "await", !.ok = ok, !.arg = a, !.state = te_brain]
            = [r EXCEPT !.stage = "await", !.arg = te_sampled + 1, !.state = te_brain]
      BY <1>2, <3>1, <3>2 DEF TeachRequest
    <3>4. Teaching!Move(r, [r EXCEPT !.stage = "await", !.ok = ok, !.arg = a, !.state = te_brain])
      BY <2>2, <3>3
    <3>5. te_sampled' \in te_sampled..te_MaxPoses /\ te_sampled' = a
      BY <1>2, <2>2, <3>1, TeachBounds
    <3> QED BY <1>1, <1>2, <1>5, <2>2, <3>1, <3>4, <3>5, TeachRead
  <2> QED BY <1>5, <2>1, <2>2 DEF Teaching!CaptureRead
<1>6. ASSUME r.stage = "sent", UNCHANGED <<te_sampled, te_sessions>>, r.op = "get", Teaching!GetSession(r)
      PROVE  TeachInv'
  <2>1. PICK ok \in BOOLEAN : ok = (te_brain # Teaching!NoSession)
    OBVIOUS
  <2>2. PICK a \in Nat : a = r.arg
    BY <1>2 DEF TeachRequest
  <2>3. [r EXCEPT !.stage = "answered", !.ok = ok, !.arg = a, !.state = te_brain]
          = [r EXCEPT !.stage = "answered", !.ok = te_brain # Teaching!NoSession, !.state = te_brain]
    BY <1>2, <2>1, <2>2 DEF TeachRequest
  <2>4. /\ Teaching!Move(r, [r EXCEPT !.stage = "answered", !.ok = ok, !.arg = a, !.state = te_brain])
        /\ UNCHANGED <<te_brain, te_programs>>
    BY <1>6, <2>3 DEF Teaching!GetSession
  <2>5. te_sampled' \in te_sampled..te_MaxPoses
    BY <1>2, <1>6
  <2> QED BY <1>1, <1>6, <2>4, <2>5, TeachRead
<1>7. ASSUME r.stage = "sent", UNCHANGED <<te_sampled, te_sessions>>, r.op # "start",
             NEW s, Teaching!Write(r, s), TeachGood(s, te_sampled), UNCHANGED te_programs
      PROVE  TeachInv'
  BY <1>1, <1>7, TeachWritten
<1>8. ASSUME r.stage = "sent", UNCHANGED <<te_sampled, te_sessions>>, r.op = "record",
             Teaching!StartRecording(r)
      PROVE  TeachInv'
  <2>1. PICK s : s = [te_brain EXCEPT !.status = "recording"]
    OBVIOUS
  <2>2. TeachGood(s, te_sampled)
    BY <1>2, <2>1 DEF TeachGood, TeachSession, Teaching!Statuses
  <2>3. CASE Teaching!Write(r, s) /\ UNCHANGED te_programs
    BY <1>7, <1>8, <2>2, <2>3
  <2> QED BY <1>3, <1>8, <2>1, <2>3 DEF Teaching!StartRecording
<1>9. ASSUME r.stage = "sent", UNCHANGED <<te_sampled, te_sessions>>, r.op = "delete",
             Teaching!DeleteWaypoint(r)
      PROVE  TeachInv'
  <2>1. PICK s : s = [te_brain EXCEPT !.waypoints = Teaching!RemoveAt(@, r.arg)]
    OBVIOUS
  <2>2. CASE Teaching!Write(r, s) /\ UNCHANGED te_programs /\ r.arg \in DOMAIN te_brain.waypoints
    <3>1. PICK w : w = te_brain.waypoints
      OBVIOUS
    <3>2. TeachList(w, te_sampled) /\ r.arg \in DOMAIN w
      BY <1>2, <2>2, <3>1 DEF TeachGood
    <3>3. PICK v : v = Teaching!RemoveAt(w, r.arg)
      OBVIOUS
    <3>4. TeachList(v, te_sampled)
      BY <1>2, <3>2, <3>3, TeachRemove
    <3>5. s = [te_brain EXCEPT !.waypoints = v]
      BY <2>1, <3>1, <3>3
    <3>6. v \in Seq(Nat)
      BY <1>2, <3>4, SeqMono DEF TeachList
    <3>7. TeachGood(s, te_sampled)
      BY <1>2, <3>4, <3>5, <3>6 DEF TeachGood, TeachSession
    <3> QED BY <1>7, <1>9, <2>2, <3>7
  <2> QED BY <1>3, <1>9, <2>1, <2>2 DEF Teaching!DeleteWaypoint
<1>10. ASSUME r.stage = "sent", UNCHANGED <<te_sampled, te_sessions>>, r.op = "abort", Teaching!Abort(r)
       PROVE  TeachInv'
  <2>1. PICK s : s = [te_brain EXCEPT !.status = "aborted"]
    OBVIOUS
  <2>2. TeachGood(s, te_sampled)
    BY <1>2, <2>1 DEF TeachGood, TeachSession, Teaching!Statuses
  <2>3. CASE Teaching!Write(r, s) /\ UNCHANGED te_programs
    BY <1>7, <1>10, <2>2, <2>3
  <2> QED BY <1>3, <1>10, <2>1, <2>3 DEF Teaching!Abort
<1>11. ASSUME r.stage = "sent", UNCHANGED <<te_sampled, te_sessions>>, r.op = "save", Teaching!SaveRead(r)
       PROVE  TeachInv'
  <2>1. CASE /\ Teaching!Move(r, [r EXCEPT !.stage = "await", !.state = te_brain])
             /\ UNCHANGED <<te_brain, te_programs>> /\ te_brain.waypoints # <<>>
    <3>1. PICK a \in Nat : a = r.arg
      BY <1>2 DEF TeachRequest
    <3>2. PICK ok \in BOOLEAN : ok = r.ok
      BY <1>2 DEF TeachRequest
    <3>3. [r EXCEPT !.stage = "await", !.ok = ok, !.arg = a, !.state = te_brain]
            = [r EXCEPT !.stage = "await", !.state = te_brain]
      BY <1>2, <3>1, <3>2 DEF TeachRequest
    <3>4. Teaching!Move(r, [r EXCEPT !.stage = "await", !.ok = ok, !.arg = a, !.state = te_brain])
      BY <2>1, <3>3
    <3>5. te_sampled' \in te_sampled..te_MaxPoses
      BY <1>2, <1>11
    <3> QED BY <1>1, <1>11, <2>1, <3>4, <3>5, TeachRead
  <2> QED BY <1>3, <1>11, <2>1 DEF Teaching!SaveRead
<1>12. ASSUME r.stage = "await", UNCHANGED <<te_sampled, te_sessions>>, r.op = "capture",
              Teaching!CaptureWrite(r)
       PROVE  TeachInv'
  <2>1. /\ r.arg \in 1..te_sampled
        /\ \A i \in DOMAIN r.state.waypoints : r.state.waypoints[i] < r.arg
    BY <1>12 DEF TeachInv, TeachNetInv, TeachRequestInv
  <2>2. PICK w : w = r.state.waypoints
    OBVIOUS
  <2>3. PICK p \in 1..te_sampled : p = r.arg
    BY <2>1
  <2>4. TeachList(w, te_sampled) /\ \A i \in DOMAIN w : w[i] < p
    BY <1>2, <2>1, <2>2, <2>3 DEF TeachGood
  <2>5. PICK v : v = Append(w, p)
    OBVIOUS
  <2>6. TeachList(v, te_sampled)
    BY <1>2, <2>4, <2>5, TeachAppend
  <2>7. v \in Seq(Nat)
    BY <1>2, <2>6, SeqMono DEF TeachList
  <2>8. PICK s : s = [r.state EXCEPT !.waypoints = v]
    OBVIOUS
  <2>9. TeachGood(s, te_sampled)
    BY <1>2, <2>6, <2>7, <2>8 DEF TeachGood, TeachSession
  <2>10. Teaching!Write(r, s) /\ UNCHANGED te_programs
    BY <1>12, <2>2, <2>3, <2>5, <2>8 DEF Teaching!CaptureWrite, Teaching!Captured
  <2> QED BY <1>1, <1>12, <2>9, <2>10, TeachWritten
<1>13. ASSUME r.stage = "await", UNCHANGED <<te_sampled, te_sessions>>, r.op = "save",
              Teaching!SaveWrite(r)
       PROVE  TeachInv'
  <2>1. r.state.waypoints # <<>>
    BY <1>13 DEF TeachInv, TeachNetInv, TeachRequestInv
  <2>2. PICK s : s = [r.state EXCEPT !.status = "saved"]
    OBVIOUS
  <2>3. TeachGood(s, te_sampled) /\ s.waypoints = r.state.waypoints
    BY <1>2, <2>2 DEF TeachGood, TeachSession, Teaching!Statuses
  <2>4. Teaching!Write(r, s) /\ te_programs' = Append(te_programs, s.waypoints)
    BY <1>13, <2>2, <2>3 DEF Teaching!SaveWrite
  <2> QED BY <1>1, <1>13, <2>1, <2>3, <2>4, TeachWritten
<1> QED BY <1>4, <1>5, <1>6, <1>8, <1>9, <1>10, <1>11, <1>12, <1>13 DEF Teaching!Service

\* A session is stored and its subscriber told.
LEMMA TeachPublish ==
  ASSUME TeachInv, NEW r \in te_net, r.stage = "saving", Teaching!PersistAndPublish(r)
  PROVE  TeachInv'
<1>1. /\ UNCHANGED <<te_brain, te_sampled, te_sessions, te_programs, te_session, te_error,
                     te_showSave, te_route, te_sent>>
      /\ te_ws' = IF te_ws.state = "live" /\ te_ws.id = r.state.id
                  THEN [te_ws EXCEPT !.feed = Append(@, r.state)] ELSE te_ws
      /\ Teaching!Move(r, [r EXCEPT !.stage = "answered"])
  BY DEF Teaching!PersistAndPublish, Teaching!brainVars, Teaching!pageVars
<1>2. /\ r \in TeachRequest /\ TeachGood(r.state, te_sampled)
      /\ te_sampled \in Nat /\ te_sessions \in Nat
  BY DEF TeachInv, TeachNetInv, TeachRequestInv, TeachBrainInv
<1>3. TeachBrainInv'
  BY <1>1, TeachBrainKept
<1>4. TeachNetInv'
  <2>1. PICK r2 : r2 = [r EXCEPT !.stage = "answered"]
    OBVIOUS
  <2>2. /\ r2 \in TeachRequest
        /\ r2.n = r.n /\ r2.op = r.op /\ r2.stage = "answered" /\ r2.state = r.state
    BY <1>2, <2>1 DEF TeachRequest
  <2>3. TeachRequestInv(r2, te_sampled)
    BY <1>2, <2>2 DEF TeachRequestInv
  <2>4. te_net' = (te_net \ {r}) \union {r2}
    BY <1>1, <2>1 DEF Teaching!Move
  <2> QED BY <1>1, <1>2, <2>2, <2>3, <2>4, TeachMoved
<1>5. TeachPageInv'
  BY <1>1, <1>2, TeachPageKept
<1>6. TeachSocketInv'
  <2>1. CASE UNCHANGED te_ws
    BY <1>1, <1>2, <2>1, TeachSocketKept
  <2>2. CASE te_ws.id = r.state.id /\ te_ws' = [te_ws EXCEPT !.feed = Append(@, r.state)]
    <3>1. PICK s : s = r.state
      OBVIOUS
    <3>2. PICK feed : feed = te_ws.feed
      OBVIOUS
    <3>3. /\ feed \in Seq(TeachSession)
          /\ \A i \in DOMAIN feed : TeachGood(feed[i], te_sampled) /\ feed[i].id = te_ws.id
      BY <3>2 DEF TeachInv, TeachSocketInv
    <3>4. TeachGood(s, te_sampled) /\ s \in TeachSession /\ s.id = te_ws.id
      BY <1>2, <2>2, <3>1 DEF TeachGood
    <3>5. PICK more : more = Append(feed, s)
      OBVIOUS
    <3>6. more \in Seq(TeachSession) /\ Len(more) = Len(feed) + 1
      BY <3>3, <3>4, <3>5
    <3>7. ASSUME NEW i \in DOMAIN more
          PROVE  (i \in DOMAIN feed /\ more[i] = feed[i]) \/ more[i] = s
      BY <3>3, <3>4, <3>5, <3>6, <3>7
    <3>8. \A i \in DOMAIN more : TeachGood(more[i], te_sampled) /\ more[i].id = te_ws.id
      BY <3>3, <3>4, <3>7
    <3>9. te_ws' = [te_ws EXCEPT !.feed = more]
      BY <2>2, <3>1, <3>2, <3>5
    <3>10. /\ te_ws'.id = te_ws.id /\ te_ws'.feed = more
           /\ te_ws' \in [id : 0..te_MaxRequests, state : {"closed", "opening", "snapshot", "live"},
                          feed : Seq(TeachSession)]
      BY <3>6, <3>9 DEF TeachInv, TeachSocketInv
    <3>11. te_session # Teaching!NoSession => te_ws.id = te_session.id
      BY DEF TeachInv, TeachSocketInv
    <3> QED BY <1>1, <3>8, <3>10, <3>11 DEF TeachSocketInv, Teaching!NoSession
  <2> QED BY <1>1, <2>1, <2>2
<1> QED BY <1>3, <1>4, <1>5, <1>6 DEF TeachInv

\* The steps that leave the Brain and the requests alone.
LEMMA TeachNetKept ==
  ASSUME TeachInv, UNCHANGED <<te_net, te_sent, te_sampled, te_sessions>>
  PROVE  TeachNetInv'
BY DEF TeachInv, TeachNetInv, TeachRequestInv, TeachRequest, TeachStarts,
   TeachGood, TeachList, TeachSession, Teaching!Ascending

\* The socket is opened for the session shown.
LEMMA TeachSubscribes ==
  ASSUME TeachInv, Teaching!SessionWs
  PROVE  TeachInv'
<1>1. UNCHANGED <<te_brain, te_sampled, te_sessions, te_programs, te_session, te_error,
                  te_showSave, te_route, te_net, te_sent>>
  BY DEF Teaching!SessionWs, Teaching!brainVars, Teaching!pageVars
<1>2. te_sampled \in Nat /\ TeachGood(te_brain, te_sampled)
  BY DEF TeachInv, TeachBrainInv
<1>3. /\ te_ws \in [id : 0..te_MaxRequests, state : {"closed", "opening", "snapshot", "live"},
                    feed : Seq(TeachSession)]
      /\ \A i \in DOMAIN te_ws.feed : TeachGood(te_ws.feed[i], te_sampled) /\ te_ws.feed[i].id = te_ws.id
      /\ te_session # Teaching!NoSession => te_ws.id = te_session.id
  BY DEF TeachInv, TeachSocketInv
<1>4. TeachSocketInv'
  <2>1. CASE te_ws.id = te_brain.id /\ te_ws' = [te_ws EXCEPT !.state = "snapshot", !.feed = <<te_brain>>]
    <3>1. PICK feed : feed = <<te_brain>>
      OBVIOUS
    <3>2. /\ feed \in Seq(TeachSession)
          /\ \A i \in DOMAIN feed : TeachGood(feed[i], te_sampled) /\ feed[i].id = te_ws.id
      BY <1>2, <2>1, <3>1 DEF TeachGood
    <3>3. te_ws' = [te_ws EXCEPT !.state = "snapshot", !.feed = feed]
      BY <2>1, <3>1
    <3>4. /\ te_ws'.id = te_ws.id /\ te_ws'.feed = feed
          /\ te_ws' \in [id : 0..te_MaxRequests, state : {"closed", "opening", "snapshot", "live"},
                         feed : Seq(TeachSession)]
      BY <1>3, <3>2, <3>3
    <3> QED BY <1>1, <1>3, <3>2, <3>4 DEF TeachSocketInv, Teaching!NoSession
  <2>2. CASE \E state \in {"closed", "live"} : te_ws' = [te_ws EXCEPT !.state = state]
    <3>1. PICK state \in {"closed", "live"} : te_ws' = [te_ws EXCEPT !.state = state]
      BY <2>2
    <3>2. /\ te_ws'.id = te_ws.id /\ te_ws'.feed = te_ws.feed
          /\ te_ws' \in [id : 0..te_MaxRequests, state : {"closed", "opening", "snapshot", "live"},
                         feed : Seq(TeachSession)]
      BY <1>3, <3>1
    <3> QED BY <1>1, <1>3, <3>2 DEF TeachSocketInv, Teaching!NoSession
  <2> QED BY <2>1, <2>2 DEF Teaching!SessionWs
<1>5. TeachBrainInv' /\ TeachNetInv' /\ TeachPageInv'
  BY <1>1, <1>2, TeachBrainKept, TeachNetKept, TeachPageKept
<1> QED BY <1>4, <1>5 DEF TeachInv

\* The page shows s and listens to it.
LEMMA TeachShown ==
  ASSUME TeachInv, NEW s, TeachGood(s, te_sampled), Teaching!SetSession(s), UNCHANGED te_sampled
  PROVE  TeachGood(te_session', te_sampled') /\ TeachSocketInv'
<1>1. te_session' = s /\ te_sampled' = te_sampled
  BY DEF Teaching!SetSession
<1>2. /\ te_ws \in [id : 0..te_MaxRequests, state : {"closed", "opening", "snapshot", "live"},
                    feed : Seq(TeachSession)]
      /\ \A i \in DOMAIN te_ws.feed : TeachGood(te_ws.feed[i], te_sampled) /\ te_ws.feed[i].id = te_ws.id
  BY DEF TeachInv, TeachSocketInv
<1>3. CASE te_ws.id = s.id
  BY <1>1, <1>2, <1>3 DEF TeachSocketInv, Teaching!SetSession, Teaching!OpenSocket, Teaching!NoSession
<1>4. CASE te_ws.id # s.id
  <2>1. te_ws' = [id |-> s.id, state |-> "opening", feed |-> <<>>]
    BY <1>4 DEF Teaching!SetSession, Teaching!OpenSocket
  <2>2. s.id \in 0..te_MaxRequests
    BY DEF TeachGood, TeachSession
  <2> QED BY <1>1, <2>1, <2>2 DEF TeachSocketInv
<1> QED BY <1>1, <1>3, <1>4

\* An answer reaches the page.
LEMMA TeachAnswer ==
  ASSUME TeachInv, Teaching!Answer
  PROVE  TeachInv'
<1>1. PICK r \in te_net :
        /\ r.stage = "answered"
        /\ \/ /\ r.mounted
              /\ Teaching!FetchAnswered(r) \/ Teaching!StartAnswered(r) \/ Teaching!ActAnswered(r)
                   \/ Teaching!HandleSave(r)
           \/ ~r.mounted /\ UNCHANGED <<Teaching!pageVars, te_ws>>
        /\ te_net' = {[q EXCEPT !.mounted = @ /\ te_route' = te_route] : q \in te_net \ {r}}
        /\ UNCHANGED <<Teaching!brainVars, te_sent>>
  BY DEF Teaching!Answer
<1>2. UNCHANGED <<te_brain, te_sampled, te_sessions, te_programs, te_sent>>
  BY <1>1 DEF Teaching!brainVars
<1>3. /\ te_sampled \in Nat /\ TeachGood(te_session, te_sampled)
      /\ te_error \in BOOLEAN /\ te_showSave \in BOOLEAN /\ te_route \in {"teach", "programs"}
      /\ TeachGood(r.state, te_sampled) /\ r.ok \in BOOLEAN
  BY DEF TeachInv, TeachBrainInv, TeachPageInv, TeachNetInv, TeachRequestInv, TeachRequest
<1>4. TeachNetInv'
  <2>1. PICK m : m = [q \in te_net |-> q.mounted /\ te_route' = te_route]
    OBVIOUS
  <2>2. \A q \in te_net : q.mounted \in BOOLEAN
    BY DEF TeachInv, TeachNetInv, TeachRequestInv, TeachRequest
  <2>3. m \in [te_net -> BOOLEAN]
    BY <2>1
  <2>4. PICK rest : rest = te_net \ {r}
    OBVIOUS
  <2>5. te_net' = {[q EXCEPT !.mounted = m[q]] : q \in rest} /\ rest \subseteq te_net
    <3>1. \A q \in rest : m[q] = (q.mounted /\ te_route' = te_route)
      BY <2>1, <2>4
    <3> QED BY <1>1, <2>4, <3>1
  <2> QED BY <1>2, <2>3, <2>5, TeachForgotten
<1>5. ASSUME UNCHANGED <<te_session, te_route, te_ws>>, te_error' \in BOOLEAN, te_showSave' \in BOOLEAN
      PROVE  TeachPageInv' /\ TeachSocketInv'
  <2>1. TeachSocketInv'
    BY <1>2, <1>3, <1>5, TeachSocketKept
  <2> QED BY <1>2, <1>3, <1>5, <2>1 DEF TeachPageInv
<1>6. ASSUME Teaching!SetSession(r.state), te_error' \in BOOLEAN, UNCHANGED <<te_showSave, te_route>>
      PROVE  TeachPageInv' /\ TeachSocketInv'
  <2>1. TeachGood(te_session', te_sampled') /\ TeachSocketInv'
    BY <1>2, <1>3, <1>6, TeachShown
  <2> QED BY <1>3, <1>6, <2>1 DEF TeachPageInv
<1>7. ASSUME ~r.mounted, UNCHANGED <<Teaching!pageVars, te_ws>> PROVE TeachPageInv' /\ TeachSocketInv'
  BY <1>3, <1>5, <1>7 DEF Teaching!pageVars
<1>8. ASSUME Teaching!FetchAnswered(r) PROVE TeachPageInv' /\ TeachSocketInv'
  BY <1>3, <1>5, <1>6, <1>8 DEF Teaching!FetchAnswered
<1>9. ASSUME Teaching!StartAnswered(r) PROVE TeachPageInv' /\ TeachSocketInv'
  BY <1>3, <1>5, <1>6, <1>9 DEF Teaching!StartAnswered
<1>10. ASSUME Teaching!ActAnswered(r) PROVE TeachPageInv' /\ TeachSocketInv'
  <2>1. te_error' \in BOOLEAN
    BY <1>3, <1>10 DEF Teaching!ActAnswered
  <2> QED BY <1>3, <1>5, <1>10, <2>1 DEF Teaching!ActAnswered
<1>11. ASSUME Teaching!HandleSave(r) PROVE TeachPageInv' /\ TeachSocketInv'
  <2>1. CASE r.ok
    BY <1>1, <1>11, <2>1, TeachLeft DEF Teaching!HandleSave
  <2>2. CASE ~r.ok
    BY <1>5, <1>11, <2>2 DEF Teaching!HandleSave
  <2> QED BY <2>1, <2>2
<1>12. TeachPageInv' /\ TeachSocketInv'
  BY <1>1, <1>7, <1>8, <1>9, <1>10, <1>11
<1> QED BY <1>2, <1>4, <1>12, TeachBrainKept DEF TeachInv

\* A message of the socket reaches the page.
LEMMA TeachMessage ==
  ASSUME TeachInv, Teaching!OnMessage
  PROVE  TeachInv'
<1>1. /\ UNCHANGED <<te_brain, te_sampled, te_sessions, te_programs, te_error, te_showSave,
                     te_route, te_net, te_sent>>
      /\ te_ws.feed # <<>> /\ te_session' = Head(te_ws.feed)
      /\ te_ws' = [te_ws EXCEPT !.feed = Tail(@)]
  BY DEF Teaching!OnMessage, Teaching!brainVars
<1>2. PICK feed : feed = te_ws.feed
  OBVIOUS
<1>3. PICK rest : rest = Tail(feed)
  OBVIOUS
<1>4. /\ te_ws \in [id : 0..te_MaxRequests, state : {"closed", "opening", "snapshot", "live"},
                    feed : Seq(TeachSession)]
      /\ feed \in Seq(TeachSession) /\ feed # <<>>
      /\ \A i \in DOMAIN feed : TeachGood(feed[i], te_sampled) /\ feed[i].id = te_ws.id
  BY <1>1, <1>2 DEF TeachInv, TeachSocketInv
<1>5. /\ rest \in Seq(TeachSession) /\ te_session' = feed[1] /\ 1 \in DOMAIN feed
      /\ \A i \in DOMAIN rest : i + 1 \in DOMAIN feed /\ rest[i] = feed[i + 1]
  BY <1>1, <1>2, <1>3, <1>4
<1>6. te_ws' = [te_ws EXCEPT !.feed = rest]
  BY <1>1, <1>2, <1>3
<1>7. /\ te_ws'.id = te_ws.id /\ te_ws'.feed = rest
      /\ te_ws' \in [id : 0..te_MaxRequests, state : {"closed", "opening", "snapshot", "live"},
                     feed : Seq(TeachSession)]
  BY <1>4, <1>5, <1>6
<1>8. TeachGood(te_session', te_sampled') /\ te_session'.id = te_ws.id
  BY <1>1, <1>4, <1>5
<1>9. TeachSocketInv'
  BY <1>1, <1>4, <1>5, <1>7, <1>8 DEF TeachSocketInv
<1>10. TeachPageInv'
  BY <1>1, <1>8 DEF TeachInv, TeachPageInv
<1> QED BY <1>1, <1>9, <1>10, TeachBrainKept, TeachNetKept DEF TeachInv

\* It holds of the first state.
LEMMA TeachFirst ==
  ASSUME Teaching!Init
  PROVE  TeachInv
<1>1. \A n \in Nat : TeachGood(Teaching!NoSession, n)
  BY TeachBounds DEF TeachGood, TeachList, TeachSession, Teaching!NoSession, Teaching!Statuses, Teaching!Ascending
<1>2. TeachStarts = {}
  BY DEF Teaching!Init, TeachStarts
<1>3. TeachBrainInv
  BY <1>1, TeachBounds DEF Teaching!Init, TeachBrainInv
<1>4. TeachNetInv
  BY <1>2, FS_EmptySet, TeachBounds DEF Teaching!Init, TeachNetInv
<1>5. TeachPageInv
  BY <1>1 DEF Teaching!Init, TeachPageInv
<1>6. TeachSocketInv
  <2>1. te_ws = [id |-> 0, state |-> "closed", feed |-> <<>>] /\ te_session = Teaching!NoSession
    BY DEF Teaching!Init, Teaching!NoSocket
  <2> QED BY <2>1, TeachBounds DEF TeachSocketInv
<1> QED BY <1>3, <1>4, <1>5, <1>6 DEF TeachInv

\* Every step keeps it.
LEMMA TeachNext ==
  ASSUME TeachInv, [Teaching!Next]_(Teaching!vars)
  PROVE  TeachInv'
<1>1. CASE Teaching!Serve
  BY <1>1, TeachService, TeachPublish DEF Teaching!Serve
<1>2. CASE UNCHANGED Teaching!vars
  <2>1. UNCHANGED <<te_brain, te_sampled, te_sessions, te_programs, te_session, te_error,
                    te_showSave, te_route, te_ws, te_net, te_sent>>
    BY <1>2 DEF Teaching!vars
  <2> QED BY <2>1, TeachBrainKept, TeachNetKept, TeachPageKept, TeachSocketKept
          DEF TeachInv, TeachBrainInv
<1> QED BY <1>1, <1>2, TeachUser, TeachSubscribes, TeachAnswer, TeachMessage DEF Teaching!Next

\* It holds what the runs check.
LEMMA TeachShows ==
  ASSUME TeachInv
  PROVE  Teaching!TypeOK /\ Teaching!WaypointsInOrder /\ Teaching!SocketFollowsSession
<1>1. /\ te_sampled \in 0..te_MaxPoses /\ TeachGood(te_brain, te_sampled)
      /\ TeachGood(te_session, te_sampled)
  BY DEF TeachInv, TeachBrainInv, TeachPageInv
<1>2. ASSUME NEW s, TeachGood(s, te_sampled) PROVE s \in Teaching!Session
  <2>1. s.waypoints \in Seq(1..te_MaxPoses)
    BY <1>1, <1>2, TeachBounds DEF TeachGood, TeachList
  <2> QED BY <1>2, <2>1 DEF TeachGood, TeachSession, Teaching!Session
<1>3. te_sessions \in 0..te_MaxRequests
  <2>1. Cardinality(TeachStarts) \in Nat
    BY TeachStartsFinite, FS_CardinalityType
  <2> QED BY <2>1, TeachBounds DEF TeachInv, TeachNetInv, TeachBrainInv
<1>4. Teaching!TypeOK
  BY <1>1, <1>2, <1>3 DEF TeachInv, TeachNetInv, TeachPageInv, TeachSocketInv, Teaching!TypeOK
<1>5. Teaching!WaypointsInOrder
  BY <1>1 DEF TeachInv, TeachBrainInv, TeachGood, TeachList, Teaching!WaypointsInOrder
<1>6. Teaching!SocketFollowsSession
  BY DEF TeachInv, TeachSocketInv, Teaching!SocketFollowsSession
<1> QED BY <1>4, <1>5, <1>6
-----------------------------------------------------------------------------
(* The program editor (Programs)                                           *)

\* What is assumed of its constants.
LEMMA EditorBounds ==
  /\ pr_MaxValue \in Nat \ {0}
  /\ pr_MaxPrograms \in Nat \ {0, 1} /\ pr_MaxSteps \in Nat \ {0, 1}
  /\ pr_MaxCalls \in Nat /\ pr_MaxInFlight \in Nat
  BY ProgramPagesAssumption

\* A sequence with another element in one place.
LEMMA SeqReplace ==
  ASSUME NEW S, NEW s \in Seq(S), NEW k \in 1..Len(s), NEW x \in S
  PROVE  [s EXCEPT ![k] = x] \in Seq(S) /\ Len([s EXCEPT ![k] = x]) = Len(s)
OBVIOUS

\* A sequence without one of its places.
LEMMA SeqRemove ==
  ASSUME NEW S, NEW s \in Seq(S), NEW k \in 1..Len(s)
  PROVE  /\ SubSeq(s, 1, k - 1) \o SubSeq(s, k + 1, Len(s)) \in Seq(S)
         /\ Len(SubSeq(s, 1, k - 1) \o SubSeq(s, k + 1, Len(s))) = Len(s) - 1
<1>1. PICK n \in Nat : n = Len(s)
  OBVIOUS
<1>2. k \in 1..n /\ \A i \in 1..n : s[i] \in S
  BY <1>1
<1>3. PICK a : a = SubSeq(s, 1, k - 1)
  OBVIOUS
<1>4. a \in Seq(S) /\ Len(a) = k - 1
  <2>1. PICK m \in Int : m = k - 1
    BY <1>2
  <2>2. \A i \in 1..m : s[i] \in S
    BY <1>2, <2>1
  <2>3. SubSeq(s, 1, m) \in Seq(S) /\ Len(SubSeq(s, 1, m)) = IF 1 <= m THEN m - 1 + 1 ELSE 0
    BY <2>2, SubSeqProperties
  <2>4. Len(a) = IF 1 <= m THEN m - 1 + 1 ELSE 0
    BY <1>3, <2>1, <2>3
  <2> QED BY <1>2, <1>3, <2>1, <2>3, <2>4
<1>5. PICK b : b = SubSeq(s, k + 1, Len(s))
  OBVIOUS
<1>6. b \in Seq(S) /\ Len(b) = n - k
  <2>1. PICK m \in Int : m = k + 1
    BY <1>2
  <2>2. \A i \in m..n : s[i] \in S
    BY <1>2, <2>1
  <2>3. SubSeq(s, m, n) \in Seq(S) /\ Len(SubSeq(s, m, n)) = IF m <= n THEN n - m + 1 ELSE 0
    BY <2>2, SubSeqProperties
  <2>4. Len(b) = IF m <= n THEN n - m + 1 ELSE 0
    BY <1>1, <1>5, <2>1, <2>3
  <2> QED BY <1>1, <1>2, <1>5, <2>1, <2>3, <2>4
<1>7. a \o b \in Seq(S) /\ Len(a \o b) = Len(a) + Len(b)
  BY <1>4, <1>6, ConcatProperties
<1>8. Len(a \o b) = n - 1
  BY <1>2, <1>4, <1>6, <1>7
<1> QED BY <1>1, <1>3, <1>5, <1>7, <1>8

\* A finite set of places has a k-th one for each k up to its size: no two
\* places have as many before them.
LEMMA PlaceThere ==
  ASSUME NEW n \in Nat, NEW K \in SUBSET (1..n), NEW k \in 1..Cardinality(K)
  PROVE  \E i \in K : Cardinality({j \in K : j <= i}) = k
<1>1. IsFiniteSet(K) /\ Cardinality(K) \in Nat
  <2>1. IsFiniteSet(1..n)
    BY FS_Interval
  <2>2. IsFiniteSet(K)
    BY <2>1, FS_Subset
  <2> QED BY <2>2, FS_CardinalityType
<1>2. \A i \in K : /\ IsFiniteSet({j \in K : j <= i})
                   /\ Cardinality({j \in K : j <= i}) \in 1..Cardinality(K)
  <2> TAKE i \in K
  <2>1. PICK B \in SUBSET K : B = {j \in K : j <= i}
    OBVIOUS
  <2>2. IsFiniteSet(B) /\ Cardinality(B) <= Cardinality(K)
    BY <1>1, FS_Subset
  <2>3. Cardinality(B) \in Nat
    BY <2>2, FS_CardinalityType
  <2>4. i \in B
    BY <2>1
  <2>5. Cardinality(B) # 0
    BY <2>2, <2>4, FS_EmptySet
  <2> QED BY <1>1, <2>1, <2>2, <2>3, <2>5
<1>3. ASSUME NEW i \in K, NEW m \in K, i < m
      PROVE  Cardinality({j \in K : j <= i}) # Cardinality({j \in K : j <= m})
  <2>1. {j \in K : j <= i} \in SUBSET {j \in K : j <= m}
    <3>1. \A j \in K : j <= i => j <= m
      <4>1. K \subseteq Int
        OBVIOUS
      <4> QED BY <1>3, <4>1
    <3> QED BY <3>1
  <2>2. m \in {j \in K : j <= m} /\ m \notin {j \in K : j <= i}
    BY <1>3
  <2>3. {j \in K : j <= i} # {j \in K : j <= m}
    BY <2>2
  <2> QED BY <1>2, <2>1, <2>3, FS_Subset
<1> DEFINE rank == [i \in K |-> Cardinality({j \in K : j <= i})]
<1>4. rank \in [K -> 1..Cardinality(K)]
  BY <1>2
<1>5. ASSUME NEW i \in K, NEW m \in K, rank[i] = rank[m]
      PROVE  i = m
  <2>1. i < m \/ m < i \/ i = m
    OBVIOUS
  <2> QED BY <1>3, <1>5, <2>1
<1>6. rank \in Injection(K, 1..Cardinality(K))
  <2> HIDE DEF rank
  <2> QED BY <1>4, <1>5 DEF Injection, IsInjective
<1>7. IsFiniteSet(1..Cardinality(K)) /\ Cardinality(1..Cardinality(K)) = Cardinality(K)
  BY <1>1, FS_Interval
<1>8. rank \in Surjection(K, 1..Cardinality(K))
  <2> HIDE DEF rank
  <2> QED BY <1>6, <1>7, FS_Injection
<1> QED BY <1>8 DEF Surjection

\* Where all places are kept, the k-th is k.
LEMMA PlaceOfAll ==
  ASSUME NEW n \in Nat, NEW k \in 1..n, NEW i \in 1..n,
         Cardinality({j \in 1..n : j <= i}) = k
  PROVE  i = k
<1>1. {j \in 1..n : j <= i} = 1..i
  OBVIOUS
<1>2. Cardinality(1..i) = i
  BY FS_Interval
<1> QED BY <1>1, <1>2

\* A stored program: nodes of the kinds the editor knows, each with an
\* attribute its kind is read by.
EditorNode ==
  {n \in [kind : Editor!Kind, v : Editor!Value,
          attributes : SUBSET {"target", "target_rad", "pose", "duration_s", "motion"}] :
     n.attributes \intersect Editor!ReadBy[n.kind] # {}}
EditorProgram == {p \in Seq(EditorNode) : Len(p) <= pr_MaxSteps}
EditorStored == [described : BOOLEAN, nodes : EditorProgram]
EditorDraft == {s \in Seq(Editor!Step) : Len(s) <= pr_MaxSteps}
EditorId == 1..pr_MaxPrograms

EditorTypes ==
  /\ Editor!TypeOK
  /\ pr_fresh \in EditorId
  /\ \A id \in DOMAIN pr_store : pr_store[id] \in EditorStored
  /\ pr_loaded.id # 0 =>
       /\ pr_programId = pr_loaded.id /\ pr_loaded.nodes \in EditorProgram
       /\ pr_steps = IF Editor!Parsed(pr_loaded.nodes) = <<>> THEN Editor!FirstStep
                     ELSE Editor!Parsed(pr_loaded.nodes)

\* A request, what a save holds on to until its list has come, and what the
\* Brain has by then.
EditorCall ==
  [op : {"list", "load", "save", "delete", "run"}, id : 0..pr_MaxPrograms, steps : EditorDraft,
   then : {"none", "save", "run", "delete"}, stage : {"sent", "answered"},
   outcome : {"ok", "refused", "lost"}, list : SUBSET EditorId, nodes : EditorProgram]
EditorCallOK(c) == c \in EditorCall /\ (c.op \in {"load", "save"} => c.id # 0)
EditorSaves(c) == c.op = "save" \/ (c.op = "list" /\ c.then \in {"save", "run"})
EditorSettled(c) ==
  \/ c.op = "save" /\ c.stage = "answered" /\ c.outcome = "ok"
  \/ c.op = "list" /\ c.then \in {"save", "run"}
EditorHolds(st, c) == c.id \in DOMAIN st => st[c.id] = Editor!programPayload(c.steps)

EditorCalls ==
  /\ \A c \in pr_calls : EditorCallOK(c)
  /\ \A c \in pr_calls : EditorSaves(c) => pr_saving
  /\ \A c, d \in pr_calls : EditorSaves(c) /\ EditorSaves(d) => c = d
  /\ \A c \in pr_calls : EditorSettled(c) => EditorHolds(pr_store, c)

EditorInv == EditorTypes /\ EditorCalls

\* What is saved of a draft is a program.
LEMMA EditorPayload ==
  ASSUME NEW s \in EditorDraft
  PROVE  Editor!programPayload(s) \in EditorStored
<1>1. s \in Seq(Editor!Step) /\ Len(s) \in Nat /\ Len(s) <= pr_MaxSteps
  BY DEF EditorDraft
<1>2. ASSUME NEW x \in Editor!Step
      PROVE  Editor!stepToNode(x) \in EditorNode
  <2>1. x.kind \in Editor!Kind /\ x.v \in Editor!Value
    BY <1>2 DEF Editor!Step
  <2>2. CASE x.kind = "move"
    BY <2>1, <2>2 DEF Editor!stepToNode, EditorNode, Editor!ReadBy, Editor!Written
  <2>3. CASE x.kind = "move_se3"
    BY <2>1, <2>3 DEF Editor!stepToNode, EditorNode, Editor!ReadBy, Editor!Written
  <2>4. CASE x.kind = "wait"
    BY <2>1, <2>4 DEF Editor!stepToNode, EditorNode, Editor!ReadBy, Editor!Written
  <2> QED BY <2>1, <2>2, <2>3, <2>4 DEF Editor!Kind
<1>3. PICK n \in Nat : n = Len(s)
  BY <1>1
<1>4. \A i \in 1..n : Editor!stepToNode(s[i]) \in EditorNode
  BY <1>1, <1>2, <1>3
<1>5. [i \in 1..n |-> Editor!stepToNode(s[i])] \in Seq(EditorNode)
  BY <1>4
<1>6. Len([i \in 1..n |-> Editor!stepToNode(s[i])]) = n
  BY <1>3
<1>7. PICK p : p = [i \in 1..n |-> Editor!stepToNode(s[i])]
  OBVIOUS
<1>8. Editor!programPayload(s) = [described |-> FALSE, nodes |-> p] /\ p \in EditorProgram
  BY <1>1, <1>3, <1>5, <1>6, <1>7 DEF Editor!programPayload, EditorProgram
<1> QED BY <1>8 DEF EditorStored

\* The step of a node.
LEMMA EditorStep ==
  ASSUME NEW n \in EditorNode
  PROVE  /\ Editor!nodeToStep(n) = {[kind |-> n.kind, v |-> n.v]}
         /\ [kind |-> n.kind, v |-> n.v] \in Editor!Step
<1>1. n.kind \in Editor!Kind /\ n.v \in Editor!Value /\ n.attributes \intersect Editor!ReadBy[n.kind] # {}
  BY DEF EditorNode
<1>2. Editor!Kind \intersect {n.kind} = {n.kind}
  BY <1>1
<1>3. Editor!nodeToStep(n)
        = {[kind |-> k, v |-> IF n.attributes \intersect Editor!ReadBy[k] # {} THEN n.v ELSE 0] :
             k \in {n.kind}}
  BY <1>2 DEF Editor!nodeToStep
<1> QED BY <1>1, <1>3 DEF Editor!Step

\* The editor counts with the operator of FiniteSets.
LEMMA EditorCardinality ==
  ASSUME NEW S
  PROVE  Editor!Cardinality(S) = Cardinality(S)
BY DEF Editor!Cardinality, Cardinality

\* A program is read step by step.
LEMMA EditorParsed ==
  ASSUME NEW p \in EditorProgram
  PROVE  /\ Editor!Parsed(p) \in EditorDraft /\ Len(Editor!Parsed(p)) = Len(p)
         /\ \A k \in 1..Len(p) : Editor!Parsed(p)[k] = [kind |-> p[k].kind, v |-> p[k].v]
<1>1. PICK n \in Nat : n = Len(p)
  BY DEF EditorProgram
<1>2. n <= pr_MaxSteps /\ \A i \in 1..n : p[i] \in EditorNode
  BY <1>1 DEF EditorProgram
<1>3. {i \in 1..n : Editor!nodeToStep(p[i]) # {}} = 1..n
  BY <1>2, EditorStep
<1>4. Editor!Cardinality(1..n) = n
  <2>1. Cardinality(1..n) = n
    BY FS_Interval
  <2> QED BY <2>1, EditorCardinality
<1>5. ASSUME NEW k \in 1..n
      PROVE  Editor!Place(1..n, k) = k
  <2>1. {j \in 1..n : j <= k} = 1..k
    OBVIOUS
  <2>2. Cardinality({j \in 1..n : j <= k}) = k
    <3>1. Cardinality(1..k) = k
      BY FS_Interval
    <3> QED BY <2>1, <3>1
  <2>3. \A i \in 1..n : Editor!Cardinality({j \in 1..n : j <= i}) = Cardinality({j \in 1..n : j <= i})
    BY EditorCardinality
  <2>4. Editor!Place(1..n, k) \in 1..n
        /\ Cardinality({j \in 1..n : j <= Editor!Place(1..n, k)}) = k
    BY <2>2, <2>3 DEF Editor!Place
  <2> QED BY <2>4, PlaceOfAll
<1>6. Editor!Parsed(p)
        = [k \in 1..n |-> CHOOSE s \in Editor!nodeToStep(p[Editor!Place(1..n, k)]) : TRUE]
  <2>1. PICK K : K = {i \in 1..Len(p) : Editor!nodeToStep(p[i]) # {}}
    OBVIOUS
  <2>2. Editor!Parsed(p) = [k \in 1..Editor!Cardinality(K) |->
          CHOOSE s \in Editor!nodeToStep(p[Editor!Place(K, k)]) : TRUE]
    BY <2>1 DEF Editor!Parsed
  <2>3. K = 1..n
    BY <1>1, <1>3, <2>1
  <2> QED BY <1>4, <2>2, <2>3
<1>7. \A k \in 1..n :
        /\ Editor!Parsed(p)[k] = [kind |-> p[k].kind, v |-> p[k].v]
        /\ [kind |-> p[k].kind, v |-> p[k].v] \in Editor!Step
  <2> TAKE k \in 1..n
  <2>1. Editor!Parsed(p)[k] = CHOOSE s \in Editor!nodeToStep(p[k]) : TRUE
    BY <1>5, <1>6
  <2>2. p[k] \in EditorNode
    BY <1>2
  <2> QED BY <2>1, <2>2, EditorStep
<1>8. PICK q : q = Editor!Parsed(p)
  OBVIOUS
<1>9. DOMAIN q = 1..n /\ \A k \in 1..n : q[k] \in Editor!Step
  BY <1>6, <1>7, <1>8
<1>10. q = [k \in 1..n |-> q[k]]
  BY <1>6, <1>8, <1>9
<1>11. q \in Seq(Editor!Step) /\ Len(q) = n
  BY <1>9, <1>10
<1> QED BY <1>1, <1>2, <1>7, <1>8, <1>11 DEF EditorDraft

\* The programs the page starts with.
LEMMA EditorFirst ==
  ASSUME Editor!Init
  PROVE  EditorInv
<1>1. Editor!FirstStep \in EditorDraft
  <2>1. Editor!emptyStep("move") \in Editor!Step
    BY EditorBounds DEF Editor!emptyStep, Editor!Step, Editor!Kind, Editor!Value
  <2> QED BY <2>1, EditorBounds DEF Editor!FirstStep, EditorDraft
<1>2. Editor!TypeOK
  <2>1. pr_steps \in Seq(Editor!Step) /\ Len(pr_steps) <= pr_MaxSteps
    BY <1>1 DEF Editor!Init, EditorDraft
  <2>2. pr_saving \in BOOLEAN /\ pr_saveError \in BOOLEAN /\ pr_deleteError \in BOOLEAN
    BY DEF Editor!Init
  <2>3. pr_runError \in BOOLEAN
    BY DEF Editor!Init
  <2> QED BY <2>1, <2>2, <2>3, EditorBounds DEF Editor!Init, Editor!None, Editor!TypeOK
<1>3. \A p \in Editor!Stored : p \in EditorStored
  <2>1. PICK a : a = [kind |-> "move", v |-> 1, attributes |-> {"target_rad"}]
    OBVIOUS
  <2>2. PICK b : b = [kind |-> "move_se3", v |-> 1, attributes |-> {"pose"}]
    OBVIOUS
  <2>3. PICK c : c = [kind |-> "move_se3", v |-> 1, attributes |-> {"pose", "motion"}]
    OBVIOUS
  <2>4. a \in EditorNode
    <3>1. "target_rad" \in a.attributes \intersect Editor!ReadBy[a.kind]
      BY <2>1 DEF Editor!ReadBy
    <3> QED BY <2>1, <3>1, EditorBounds DEF EditorNode, Editor!Kind, Editor!Value
  <2>5. b \in EditorNode
    <3>1. "pose" \in b.attributes \intersect Editor!ReadBy[b.kind]
      BY <2>2 DEF Editor!ReadBy
    <3> QED BY <2>2, <3>1, EditorBounds DEF EditorNode, Editor!Kind, Editor!Value
  <2>6. c \in EditorNode
    <3>1. "pose" \in c.attributes \intersect Editor!ReadBy[c.kind]
      BY <2>3 DEF Editor!ReadBy
    <3> QED BY <2>3, <3>1, EditorBounds DEF EditorNode, Editor!Kind, Editor!Value
  <2>7. PICK P : P = <<a, b>>
    OBVIOUS
  <2>8. PICK Q : Q = <<c>>
    OBVIOUS
  <2>9. P \in EditorProgram /\ Q \in EditorProgram /\ <<>> \in EditorProgram
    BY <2>4, <2>5, <2>6, <2>7, <2>8, EditorBounds DEF EditorProgram
  <2>10. Editor!Stored = {[described |-> FALSE, nodes |-> P], [described |-> TRUE, nodes |-> Q],
                          [described |-> FALSE, nodes |-> <<>>]}
    BY <2>1, <2>2, <2>3, <2>7, <2>8 DEF Editor!Stored
  <2>11. /\ [described |-> FALSE, nodes |-> P] \in EditorStored
         /\ [described |-> TRUE, nodes |-> Q] \in EditorStored
    BY <2>9 DEF EditorStored
  <2>12. [described |-> FALSE, nodes |-> <<>>] \in EditorStored
    BY <2>9 DEF EditorStored
  <2> QED BY <2>10, <2>11, <2>12
<1>4. PICK p \in Editor!Stored : pr_store = [id \in {1} |-> p]
  BY DEF Editor!Init
<1>8. EditorTypes
  BY <1>2, <1>3, <1>4, EditorBounds DEF Editor!Init, Editor!None, EditorTypes, EditorId
<1>9. PICK c : c = Editor!Call("list", 0, <<>>, "none")
  OBVIOUS
<1>10. EditorCallOK(c) /\ ~EditorSaves(c) /\ ~EditorSettled(c)
  <2>1. <<>> \in EditorDraft /\ <<>> \in EditorProgram
    BY EditorBounds DEF EditorDraft, EditorProgram
  <2> QED BY <1>9, <2>1, EditorBounds
          DEF Editor!Call, EditorCallOK, EditorCall, EditorSaves, EditorSettled
<1>11. EditorCalls
  BY <1>9, <1>10 DEF Editor!Init, EditorCalls
<1> QED BY <1>8, <1>11 DEF EditorInv

\* A request that is new is a call, that of its kind.
LEMMA EditorAsked ==
  ASSUME NEW op \in {"list", "load", "save", "delete", "run"}, NEW id \in 0..pr_MaxPrograms,
         NEW s \in EditorDraft, NEW then \in {"none", "save", "run", "delete"},
         op \in {"load", "save"} => id # 0
  PROVE  /\ EditorCallOK(Editor!Call(op, id, s, then))
         /\ Editor!Call(op, id, s, then).op = op /\ Editor!Call(op, id, s, then).id = id
         /\ Editor!Call(op, id, s, then).steps = s /\ Editor!Call(op, id, s, then).then = then
         /\ Editor!Call(op, id, s, then).stage = "sent"
<1>1. <<>> \in EditorProgram
  BY EditorBounds DEF EditorProgram
<1> QED BY <1>1 DEF Editor!Call, EditorCallOK, EditorCall

\* A request is sent in the place of one that is over, or beside the others.
LEMMA EditorSent ==
  ASSUME EditorCalls, NEW rest \in SUBSET pr_calls, NEW c, EditorCallOK(c),
         pr_calls' = rest \union {c}, UNCHANGED pr_store,
         EditorSaves(c) => pr_saving' /\ \A d \in rest : ~EditorSaves(d),
         \A d \in rest : EditorSaves(d) => pr_saving',
         EditorSettled(c) => EditorHolds(pr_store, c)
  PROVE  EditorCalls'
<1>1. \A d \in pr_calls' : d \in rest \/ d = c
  OBVIOUS
<1>2. \A d \in pr_calls' : EditorCallOK(d)
  BY <1>1 DEF EditorCalls
<1>3. \A d \in pr_calls' : EditorSaves(d) => pr_saving'
  BY <1>1
<1>4. \A d, e \in pr_calls' : EditorSaves(d) /\ EditorSaves(e) => d = e
  BY <1>1 DEF EditorCalls
<1>5. \A d \in pr_calls' : EditorSettled(d) => EditorHolds(pr_store', d)
  BY <1>1 DEF EditorCalls
<1> QED BY <1>2, <1>3, <1>4, <1>5 DEF EditorCalls

\* A request ends.
LEMMA EditorEnds ==
  ASSUME EditorCalls, pr_calls' \subseteq pr_calls, UNCHANGED pr_store,
         \A d \in pr_calls' : EditorSaves(d) => pr_saving'
  PROVE  EditorCalls'
BY DEF EditorCalls

\* The program that is begun.
LEMMA EditorNew ==
  ASSUME EditorTypes, Editor!newProgram, UNCHANGED pr_store, pr_saving' \in BOOLEAN,
         pr_savedPrograms' \subseteq EditorId
  PROVE  EditorTypes'
<1>1. Editor!FirstStep \in EditorDraft
  <2>1. Editor!emptyStep("move") \in Editor!Step
    BY EditorBounds DEF Editor!emptyStep, Editor!Step, Editor!Kind, Editor!Value
  <2> QED BY <2>1, EditorBounds DEF Editor!FirstStep, EditorDraft
<1>2. pr_steps' \in EditorDraft
  BY <1>1 DEF Editor!newProgram
<1>3. pr_fresh' \in EditorId /\ pr_programId' \in EditorId
  BY EditorBounds DEF EditorTypes, EditorId, Editor!newProgram
<1>4. pr_saveError' = FALSE /\ pr_deleteError' = FALSE /\ pr_runError' = FALSE /\ pr_runOf' = 0
  BY DEF Editor!newProgram
<1>5. pr_saveError' \in BOOLEAN /\ pr_deleteError' \in BOOLEAN /\ pr_runError' \in BOOLEAN
  BY <1>4
<1>6. pr_runOf' \in 0..pr_MaxPrograms /\ pr_loaded'.id \in 0..pr_MaxPrograms /\ pr_loaded'.id = 0
  BY <1>4, EditorBounds DEF Editor!newProgram, Editor!None
<1>7. Editor!TypeOK'
  BY <1>2, <1>3, <1>5, <1>6 DEF EditorTypes, Editor!TypeOK, EditorDraft, EditorId
<1> QED BY <1>3, <1>6, <1>7 DEF EditorTypes

\* The draft and its steps change, nothing else.
LEMMA EditorEdits ==
  ASSUME EditorInv, Editor!EditSteps
  PROVE  EditorInv'
<1>1. UNCHANGED <<pr_store, pr_programId, pr_savedPrograms, pr_saving, pr_saveError, pr_deleteError,
                  pr_runError, pr_runOf, pr_calls, pr_fresh>>
  BY DEF Editor!EditSteps, Editor!errors
<1>2. PICK n \in Nat : n = Len(pr_steps)
  BY DEF EditorInv, EditorTypes, Editor!TypeOK
<1>3. pr_steps \in Seq(Editor!Step) /\ n <= pr_MaxSteps
  BY <1>2 DEF EditorInv, EditorTypes, Editor!TypeOK
<1>4. pr_steps' \in EditorDraft
  <2>1. CASE \E i \in 1..n, x \in Editor!Step : pr_steps' = [pr_steps EXCEPT ![i] = x]
    <3>1. PICK i \in 1..n, x \in Editor!Step : pr_steps' = [pr_steps EXCEPT ![i] = x]
      BY <2>1
    <3> QED BY <1>2, <1>3, <3>1, SeqReplace DEF EditorDraft
  <2>2. CASE \E i \in 1..n : Editor!RowButtons(i)
    <3>1. PICK i \in 1..n : Editor!RowButtons(i)
      BY <2>2
    <3>2. CASE Editor!removeStep(i)
      <4>1. pr_steps' = SubSeq(pr_steps, 1, i - 1) \o SubSeq(pr_steps, i + 1, Len(pr_steps))
        BY <3>2 DEF Editor!removeStep, Editor!Edit, Editor!RemoveAt
      <4>2. pr_steps' \in Seq(Editor!Step) /\ Len(pr_steps') = n - 1
        BY <1>2, <1>3, <4>1, SeqRemove
      <4> QED BY <1>2, <1>3, <4>2, EditorBounds DEF EditorDraft
    <3>3. CASE \E j \in 1..n : pr_steps' = [pr_steps EXCEPT ![i] = pr_steps[j], ![j] = pr_steps[i]]
      <4>1. PICK j \in 1..n : pr_steps' = [pr_steps EXCEPT ![i] = pr_steps[j], ![j] = pr_steps[i]]
        BY <3>3
      <4>2. pr_steps[i] \in Editor!Step /\ pr_steps[j] \in Editor!Step
        BY <1>2, <1>3
      <4>3. PICK s : s = [pr_steps EXCEPT ![i] = pr_steps[j]]
        OBVIOUS
      <4>4. s \in Seq(Editor!Step) /\ Len(s) = n
        BY <1>2, <1>3, <4>2, <4>3, SeqReplace
      <4>5. pr_steps' = [s EXCEPT ![j] = pr_steps[i]]
        BY <4>1, <4>3
      <4> QED BY <1>3, <4>2, <4>4, <4>5, SeqReplace DEF EditorDraft
    <3>4. Editor!moveStep(i, 1) \/ Editor!moveStep(i, -1)
            => \E j \in 1..n : pr_steps' = [pr_steps EXCEPT ![i] = pr_steps[j], ![j] = pr_steps[i]]
      BY <1>2 DEF Editor!moveStep, Editor!Edit
    <3> QED BY <3>1, <3>2, <3>3, <3>4 DEF Editor!RowButtons
  <2>3. CASE Editor!AddButtons
    <3>1. PICK k \in Editor!Kind : Editor!addStep(k)
      BY <2>3 DEF Editor!AddButtons
    <3>2. Editor!emptyStep(k) \in Editor!Step
      BY EditorBounds DEF Editor!emptyStep, Editor!Step, Editor!Value
    <3>3. n < pr_MaxSteps /\ pr_steps' = Append(pr_steps, Editor!emptyStep(k))
      BY <1>2, <3>1 DEF Editor!addStep, Editor!Edit
    <3>4. pr_steps' \in Seq(Editor!Step) /\ Len(pr_steps') = n + 1
      BY <1>2, <1>3, <3>2, <3>3
    <3> QED BY <1>2, <3>3, <3>4, EditorBounds DEF EditorDraft
  <2>4. ASSUME NEW i \in 1..n,
               \/ Editor!handleKindChange(i) \/ Editor!MoveFields(i)
               \/ Editor!PoseFields(i) \/ Editor!WaitField(i)
        PROVE  \E x \in Editor!Step : pr_steps' = [pr_steps EXCEPT ![i] = x]
    <3>1. pr_steps[i] \in Editor!Step
      BY <1>2, <1>3
    <3>2. CASE Editor!handleKindChange(i)
      <4>1. PICK k \in Editor!Kind : pr_steps' = [pr_steps EXCEPT ![i] = Editor!emptyStep(k)]
        BY <3>2 DEF Editor!handleKindChange, Editor!updateStep, Editor!Edit
      <4>2. Editor!emptyStep(k) \in Editor!Step
        BY EditorBounds DEF Editor!emptyStep, Editor!Step, Editor!Value
      <4> QED BY <4>1, <4>2
    <3>3. CASE Editor!MoveFields(i) \/ Editor!PoseFields(i) \/ Editor!WaitField(i)
      <4>1. PICK v \in Editor!Value :
              pr_steps' = [pr_steps EXCEPT ![i] = [pr_steps[i] EXCEPT !.v = v]]
        BY <3>3 DEF Editor!MoveFields, Editor!PoseFields, Editor!WaitField, Editor!updateStep,
           Editor!Edit
      <4>2. [pr_steps[i] EXCEPT !.v = v] \in Editor!Step
        BY <3>1, <4>1 DEF Editor!Step
      <4> QED BY <4>1, <4>2
    <3> QED BY <2>4, <3>2, <3>3
  <2> QED BY <1>2, <2>1, <2>2, <2>3, <2>4 DEF Editor!EditSteps, Editor!StepRow
<1>8. pr_loaded'.id \in 0..pr_MaxPrograms /\ pr_loaded'.id = 0
  <2>1. pr_loaded' = Editor!None
    BY DEF Editor!EditSteps, Editor!StepRow, Editor!AddButtons, Editor!addStep, Editor!handleKindChange,
       Editor!MoveFields, Editor!PoseFields, Editor!WaitField, Editor!RowButtons, Editor!removeStep,
       Editor!moveStep, Editor!updateStep, Editor!Edit
  <2> QED BY <2>1, EditorBounds DEF Editor!None
<1>5. Editor!TypeOK'
  BY <1>1, <1>4, <1>8 DEF EditorInv, EditorTypes, Editor!TypeOK, EditorDraft
<1>6. EditorTypes'
  BY <1>1, <1>5, <1>8 DEF EditorInv, EditorTypes
<1>7. EditorCalls'
  BY <1>1, EditorEnds DEF EditorInv, EditorCalls
<1> QED BY <1>6, <1>7 DEF EditorInv

\* The buttons send the request of the program shown.
LEMMA EditorButtons ==
  ASSUME EditorInv, Editor!NewButton \/ Editor!SavedList \/ Editor!ActionButtons \/ Editor!RunClosed
  PROVE  EditorInv'
<1>1. CASE Editor!NewButton
  <2>1. Editor!newProgram /\ UNCHANGED <<pr_store, pr_savedPrograms, pr_saving, pr_calls>>
    BY <1>1 DEF Editor!NewButton
  <2>2. EditorTypes'
    BY <2>1, EditorNew DEF EditorInv, EditorTypes, Editor!TypeOK, EditorId
  <2>3. EditorCalls'
    BY <2>1, EditorEnds DEF EditorInv, EditorCalls
  <2> QED BY <2>2, <2>3 DEF EditorInv
<1>2. CASE Editor!SavedList
  <2>1. PICK id \in pr_savedPrograms : Editor!loadProgram(id)
    BY <1>2 DEF Editor!SavedList
  <2>2. UNCHANGED <<pr_store, pr_savedPrograms, pr_fresh, pr_programId, pr_steps, pr_loaded, pr_saving, pr_runOf,
                    pr_saveError, pr_deleteError, pr_runError>>
    BY <1>2, <2>1 DEF Editor!SavedList, Editor!loadProgram, Editor!draft, Editor!errors
  <2>3. EditorTypes'
    BY <2>2 DEF EditorInv, EditorTypes, Editor!TypeOK
  <2>4. id \in 0..pr_MaxPrograms /\ id # 0 /\ <<>> \in EditorDraft
    BY EditorBounds DEF EditorInv, EditorTypes, Editor!TypeOK, EditorDraft
  <2>5. PICK c : c = Editor!Call("load", id, <<>>, "none")
    OBVIOUS
  <2>6. EditorCallOK(c) /\ ~EditorSaves(c) /\ ~EditorSettled(c)
    BY <2>4, <2>5, EditorAsked DEF EditorSaves, EditorSettled
  <2>7. pr_calls' = pr_calls \union {c}
    BY <2>1, <2>5 DEF Editor!loadProgram, Editor!Send
  <2>8. EditorCalls'
    BY <2>2, <2>6, <2>7, EditorSent DEF EditorInv, EditorCalls
  <2> QED BY <2>3, <2>8 DEF EditorInv
<1>3. CASE Editor!ActionButtons
  <2>1. UNCHANGED <<pr_store, pr_savedPrograms, pr_fresh, pr_programId, pr_steps, pr_loaded, pr_runOf>>
    BY <1>3 DEF Editor!ActionButtons, Editor!handleDelete, Editor!draft
  <2>2. CASE \E then \in {"save", "run"} : ~pr_saving /\ Editor!handleSave(then)
             /\ pr_runError' \in BOOLEAN /\ UNCHANGED pr_deleteError
    <3>1. PICK then \in {"save", "run"} : ~pr_saving /\ Editor!handleSave(then)
      BY <2>2
    <3>2. pr_saving' = TRUE /\ pr_saveError' = FALSE
      BY <3>1 DEF Editor!handleSave
    <3>3. pr_saving' \in BOOLEAN /\ pr_saveError' \in BOOLEAN
      BY <3>2
    <3>4. EditorTypes'
      BY <2>1, <2>2, <3>3 DEF EditorInv, EditorTypes, Editor!TypeOK
    <3>5. PICK c : c = Editor!Call("save", pr_programId, pr_steps, then)
      OBVIOUS
    <3>6. EditorCallOK(c) /\ ~EditorSettled(c)
      <4>1. pr_programId \in 0..pr_MaxPrograms /\ pr_programId # 0 /\ pr_steps \in EditorDraft
        BY EditorBounds DEF EditorInv, EditorTypes, Editor!TypeOK, EditorDraft
      <4> QED BY <3>1, <3>5, <4>1, EditorAsked DEF EditorSettled
    <3>7. pr_calls' = pr_calls \union {c}
      BY <3>1, <3>5 DEF Editor!handleSave, Editor!Send
    <3>8. \A d \in pr_calls : ~EditorSaves(d)
      BY <3>1 DEF EditorInv, EditorCalls
    <3>9. EditorCalls'
      BY <2>1, <3>2, <3>6, <3>7, <3>8, EditorSent DEF EditorInv
    <3> QED BY <3>4, <3>9 DEF EditorInv
  <2>3. CASE Editor!handleDelete
    <3>1. pr_deleteError' = FALSE /\ UNCHANGED <<pr_saving, pr_saveError, pr_runError>>
      BY <2>3 DEF Editor!handleDelete
    <3>2. pr_deleteError' \in BOOLEAN
      BY <3>1
    <3>3. EditorTypes'
      BY <2>1, <3>1, <3>2 DEF EditorInv, EditorTypes, Editor!TypeOK
    <3>4. PICK c : c = Editor!Call("delete", pr_programId, <<>>, "none")
      OBVIOUS
    <3>5. EditorCallOK(c) /\ ~EditorSaves(c) /\ ~EditorSettled(c)
      <4>1. pr_programId \in 0..pr_MaxPrograms /\ <<>> \in EditorDraft
        BY EditorBounds DEF EditorInv, EditorTypes, Editor!TypeOK, EditorDraft
      <4> QED BY <3>4, <4>1, EditorAsked DEF EditorSaves, EditorSettled
    <3>6. pr_calls' = pr_calls \union {c}
      BY <2>3, <3>4 DEF Editor!handleDelete, Editor!Send
    <3>7. EditorCalls'
      BY <2>1, <3>1, <3>5, <3>6, EditorSent DEF EditorInv, EditorCalls
    <3> QED BY <3>3, <3>7 DEF EditorInv
  <2>4. CASE /\ ~pr_saving
             /\ (Editor!handleSave("save") /\ UNCHANGED pr_runError) \/ Editor!handleRun
             /\ UNCHANGED pr_deleteError
    <3>1. CASE Editor!handleSave("save") /\ UNCHANGED pr_runError
      BY <2>2, <2>4, <3>1 DEF EditorInv, EditorTypes, Editor!TypeOK
    <3>2. CASE Editor!handleRun
      <4>1. pr_runError' = FALSE /\ Editor!handleSave("run")
        BY <3>2 DEF Editor!handleRun
      <4>2. pr_runError' \in BOOLEAN
        BY <4>1
      <4> QED BY <2>2, <2>4, <4>1, <4>2
    <3> QED BY <2>4, <3>1, <3>2
  <2> QED BY <1>3, <2>3, <2>4 DEF Editor!ActionButtons
<1>4. CASE Editor!RunClosed
  <2>1. pr_runOf' = 0 /\ pr_runError' = FALSE
        /\ UNCHANGED <<pr_store, pr_programId, pr_steps, pr_loaded, pr_savedPrograms, pr_saving, pr_saveError,
                       pr_deleteError, pr_calls, pr_fresh>>
    BY <1>4 DEF Editor!RunClosed, Editor!draft
  <2>2. pr_runOf' \in 0..pr_MaxPrograms /\ pr_runError' \in BOOLEAN
    <3>1. pr_runOf' \in 0..pr_MaxPrograms
      BY <2>1, EditorBounds
    <3>2. pr_runError' \in BOOLEAN
      BY <2>1
    <3> QED BY <3>1, <3>2
  <2>3. EditorTypes'
    BY <2>1, <2>2 DEF EditorInv, EditorTypes, Editor!TypeOK
  <2>4. EditorCalls'
    BY <2>1, EditorEnds DEF EditorInv, EditorCalls
  <2> QED BY <2>3, <2>4 DEF EditorInv
<1> QED BY <1>1, <1>2, <1>3, <1>4

\* The Brain stores or removes one program, and a request is answered.
LEMMA EditorServe ==
  ASSUME EditorInv, Editor!Serve
  PROVE  EditorInv'
<1>1. UNCHANGED <<pr_programId, pr_steps, pr_loaded, pr_savedPrograms, pr_saving, pr_saveError, pr_deleteError,
                  pr_runError, pr_runOf, pr_fresh>>
  BY DEF Editor!Serve, Editor!draft, Editor!errors
<1>2. PICK c \in pr_calls, outcome \in {"ok", "refused", "lost"}, reached \in BOOLEAN :
        /\ c.stage = "sent"
        /\ outcome = "ok" => reached
        /\ outcome = "refused" => ~reached
        /\ outcome = "ok" /\ c.op \in {"load", "run"} => c.id \in DOMAIN pr_store
        /\ pr_store' = CASE reached /\ c.op = "save" ->
                              [id \in DOMAIN pr_store \union {c.id} |->
                                IF id = c.id THEN Editor!programPayload(c.steps) ELSE pr_store[id]]
                         [] reached /\ c.op = "delete" ->
                              [id \in DOMAIN pr_store \ {c.id} |-> pr_store[id]]
                         [] OTHER -> pr_store
        /\ pr_calls' = (pr_calls \ {c}) \union
             {[c EXCEPT !.stage = "answered", !.outcome = outcome,
                        !.list = IF c.op = "list" THEN DOMAIN pr_store ELSE {},
                        !.nodes = IF c.op = "load" /\ outcome = "ok" THEN pr_store[c.id].nodes ELSE <<>>]}
  BY DEF Editor!Serve
<1>3. EditorCallOK(c) /\ DOMAIN pr_store \subseteq EditorId
  BY DEF EditorInv, EditorCalls, EditorTypes, Editor!TypeOK, EditorId
<1>4. PICK names \in SUBSET EditorId : names = IF c.op = "list" THEN DOMAIN pr_store ELSE {}
  BY <1>3
<1>5. PICK nodes \in EditorProgram :
        nodes = IF c.op = "load" /\ outcome = "ok" THEN pr_store[c.id].nodes ELSE <<>>
  <2>1. <<>> \in EditorProgram
    BY EditorBounds DEF EditorProgram
  <2> QED BY <1>2, <2>1 DEF EditorInv, EditorTypes, EditorStored
<1>6. PICK d : d = [c EXCEPT !.stage = "answered", !.outcome = outcome, !.list = names, !.nodes = nodes]
  OBVIOUS
<1>7. pr_calls' = (pr_calls \ {c}) \union {d}
  BY <1>2, <1>4, <1>5, <1>6
<1>8. /\ EditorCallOK(d) /\ d.op = c.op /\ d.id = c.id /\ d.steps = c.steps /\ d.then = c.then
      /\ d.stage = "answered" /\ d.outcome = outcome
  <2>1. c \in EditorCall
    BY <1>3 DEF EditorCallOK
  <2>2. d \in EditorCall
    BY <1>6, <2>1 DEF EditorCall
  <2>3. /\ d.op = c.op /\ d.id = c.id /\ d.steps = c.steps /\ d.then = c.then
        /\ d.stage = "answered" /\ d.outcome = outcome
    BY <1>6, <2>1 DEF EditorCall
  <2> QED BY <1>3, <2>2, <2>3 DEF EditorCallOK
<1>9. c.op = "save" => c.id \in EditorId /\ Editor!programPayload(c.steps) \in EditorStored
  <2>1. c.steps \in EditorDraft /\ c.id \in 0..pr_MaxPrograms
    BY <1>3 DEF EditorCallOK, EditorCall
  <2>2. c.op = "save" => c.id # 0
    BY <1>3 DEF EditorCallOK
  <2> QED BY <2>1, <2>2, EditorPayload, EditorBounds DEF EditorId
<1>10. CASE reached /\ c.op = "save"
  <2>1. /\ DOMAIN pr_store' = DOMAIN pr_store \union {c.id}
        /\ pr_store'[c.id] = Editor!programPayload(c.steps)
        /\ \A id \in DOMAIN pr_store : id # c.id => pr_store'[id] = pr_store[id]
    BY <1>2, <1>10
  <2>2. EditorTypes'
    <3>1. DOMAIN pr_store' \subseteq EditorId
      BY <1>3, <1>9, <1>10, <2>1
    <3>2. \A id \in DOMAIN pr_store' : pr_store'[id] \in EditorStored
      BY <1>9, <1>10, <2>1 DEF EditorInv, EditorTypes
    <3> QED BY <1>1, <3>1, <3>2 DEF EditorInv, EditorTypes, Editor!TypeOK, EditorId
  <2>3. EditorSaves(c) /\ EditorSaves(d)
    BY <1>8, <1>10 DEF EditorSaves
  <2>4. \A e \in pr_calls \ {c} : ~EditorSaves(e) /\ ~EditorSettled(e)
    <3>1. \A e \in pr_calls \ {c} : ~EditorSaves(e)
      BY <2>3 DEF EditorInv, EditorCalls
    <3> QED BY <3>1 DEF EditorSaves, EditorSettled
  <2>5. EditorHolds(pr_store', d)
    BY <1>8, <2>1 DEF EditorHolds
  <2>6. pr_saving'
    BY <1>1, <2>3 DEF EditorInv, EditorCalls
  <2>7. EditorCalls'
    BY <1>7, <1>8, <2>4, <2>5, <2>6 DEF EditorInv, EditorCalls
  <2> QED BY <2>2, <2>7 DEF EditorInv
<1>11. CASE ~(reached /\ c.op = "save")
  <2>1. /\ DOMAIN pr_store' \subseteq DOMAIN pr_store
        /\ \A id \in DOMAIN pr_store' : pr_store'[id] = pr_store[id]
    BY <1>2, <1>11
  <2>2. EditorTypes'
    BY <1>1, <2>1 DEF EditorInv, EditorTypes, Editor!TypeOK
  <2>3. \A e \in pr_calls : EditorHolds(pr_store, e) => EditorHolds(pr_store', e)
    BY <2>1 DEF EditorHolds
  <2>4. EditorSaves(d) = EditorSaves(c)
    BY <1>8 DEF EditorSaves
  <2>5. EditorSettled(d) => EditorHolds(pr_store', d)
    <3>1. EditorSettled(d) => EditorSettled(c)
      BY <1>2, <1>8, <1>11 DEF EditorSettled
    <3>2. EditorHolds(pr_store', c) => EditorHolds(pr_store', d)
      BY <1>8 DEF EditorHolds
    <3> QED BY <2>3, <3>1, <3>2 DEF EditorInv, EditorCalls
  <2>6. \A e \in pr_calls' : e \in pr_calls \ {c} \/ e = d
    BY <1>7
  <2>7. \A e \in pr_calls' : EditorCallOK(e)
    BY <1>8, <2>6 DEF EditorInv, EditorCalls
  <2>8. \A e \in pr_calls' : EditorSaves(e) => pr_saving'
    BY <1>1, <2>4, <2>6 DEF EditorInv, EditorCalls
  <2>9. \A e, f \in pr_calls' : EditorSaves(e) /\ EditorSaves(f) => e = f
    BY <2>4, <2>6 DEF EditorInv, EditorCalls
  <2>10. \A e \in pr_calls' : EditorSettled(e) => EditorHolds(pr_store', e)
    BY <2>3, <2>5, <2>6 DEF EditorInv, EditorCalls
  <2> QED BY <2>2, <2>7, <2>8, <2>9, <2>10 DEF EditorInv, EditorCalls
<1> QED BY <1>10, <1>11

\* What an answered request leaves of the others.
LEMMA EditorOthers ==
  ASSUME EditorInv, NEW c \in pr_calls
  PROVE  /\ EditorCallOK(c) /\ c.id \in 0..pr_MaxPrograms /\ c.steps \in EditorDraft
         /\ c.then \in {"none", "save", "run", "delete"}
         /\ EditorSaves(c) => \A d \in pr_calls \ {c} : ~EditorSaves(d)
         /\ \A d \in pr_calls \ {c} : EditorSaves(d) => pr_saving
BY DEF EditorInv, EditorCalls, EditorCallOK, EditorCall

\* The answer of a load: its program is the draft.
LEMMA EditorLoaded ==
  ASSUME EditorInv, NEW c \in pr_calls, c.op = "load", Editor!LoadAnswered(c), UNCHANGED pr_store
  PROVE  EditorInv'
<1>1. pr_calls' = pr_calls \ {c} /\ UNCHANGED <<pr_savedPrograms, pr_saving, pr_fresh>>
  BY DEF Editor!LoadAnswered, Editor!End
<1>2. EditorCalls'
  BY <1>1, EditorEnds DEF EditorInv, EditorCalls
<1>3. CASE c.outcome = "ok"
  <2>1. c.nodes \in EditorProgram /\ c.id \in EditorId
    BY EditorBounds DEF EditorInv, EditorCalls, EditorCallOK, EditorCall, EditorId
  <2>2. Editor!FirstStep \in EditorDraft
    <3>1. Editor!emptyStep("move") \in Editor!Step
      BY EditorBounds DEF Editor!emptyStep, Editor!Step, Editor!Kind, Editor!Value
    <3> QED BY <3>1, EditorBounds DEF Editor!FirstStep, EditorDraft
  <2>3. Editor!Parsed(c.nodes) \in EditorDraft
    BY <2>1, EditorParsed
  <2>4. pr_steps' \in EditorDraft
    BY <1>3, <2>2, <2>3 DEF Editor!LoadAnswered
  <2>5. pr_programId' = c.id /\ pr_runOf' = 0
        /\ pr_saveError' = FALSE /\ pr_deleteError' = FALSE /\ pr_runError' = FALSE
    BY <1>3 DEF Editor!LoadAnswered
  <2>6. pr_runOf' \in 0..pr_MaxPrograms
    BY <2>5, EditorBounds
  <2>7. pr_saveError' \in BOOLEAN /\ pr_deleteError' \in BOOLEAN /\ pr_runError' \in BOOLEAN
    BY <2>5
  <2>9. /\ pr_loaded'.id = c.id /\ pr_loaded'.nodes = c.nodes
        /\ pr_steps' = IF Editor!Parsed(c.nodes) = <<>> THEN Editor!FirstStep ELSE Editor!Parsed(c.nodes)
    BY <1>3 DEF Editor!LoadAnswered
  <2>8. Editor!TypeOK'
    BY <1>1, <2>1, <2>4, <2>5, <2>6, <2>7, <2>9 DEF EditorInv, EditorTypes, Editor!TypeOK, EditorDraft,
       EditorId
  <2> QED BY <1>1, <1>2, <2>1, <2>5, <2>8, <2>9 DEF EditorInv, EditorTypes
<1>4. CASE c.outcome # "ok"
  <2>1. UNCHANGED <<pr_programId, pr_steps, pr_loaded, pr_runOf, pr_saveError, pr_deleteError, pr_runError>>
    BY <1>4 DEF Editor!LoadAnswered, Editor!draft, Editor!errors
  <2> QED BY <1>1, <1>2, <2>1 DEF EditorInv, EditorTypes, Editor!TypeOK
<1> QED BY <1>3, <1>4

\* The answer of a save: the list is asked for, or the failure is shown.
LEMMA EditorSaved ==
  ASSUME EditorInv, NEW c \in pr_calls, c.op = "save", c.stage = "answered",
         Editor!SaveAnswered(c), UNCHANGED pr_store
  PROVE  EditorInv'
<1>1. UNCHANGED <<pr_programId, pr_steps, pr_loaded, pr_savedPrograms, pr_deleteError, pr_runError, pr_runOf,
                  pr_fresh>>
  BY DEF Editor!SaveAnswered, Editor!draft
<1>2. EditorSaves(c)
  BY DEF EditorSaves
<1>3. CASE c.outcome = "ok"
  <2>1. UNCHANGED <<pr_saving, pr_saveError>>
    BY <1>3 DEF Editor!SaveAnswered
  <2>2. PICK d : d = Editor!Call("list", c.id, c.steps, c.then)
    OBVIOUS
  <2>3. pr_calls' = (pr_calls \ {c}) \union {d}
    BY <1>3, <2>2 DEF Editor!SaveAnswered, Editor!fetchPrograms, Editor!Send
  <2>4. EditorCallOK(d) /\ d.id = c.id /\ d.steps = c.steps
    BY <2>2, EditorOthers, EditorAsked
  <2>5. EditorHolds(pr_store, d)
    BY <1>3, <2>4 DEF EditorInv, EditorCalls, EditorSettled, EditorHolds
  <2>6. pr_saving'
    BY <1>2, <2>1 DEF EditorInv, EditorCalls
  <2>7. \A e \in pr_calls \ {c} : ~EditorSaves(e)
    BY <1>2, EditorOthers
  <2>8. EditorCalls'
    BY <2>3, <2>4, <2>5, <2>6, <2>7, EditorSent DEF EditorInv
  <2> QED BY <1>1, <2>1, <2>8 DEF EditorInv, EditorTypes, Editor!TypeOK
<1>4. CASE c.outcome # "ok"
  <2>1. pr_saveError' = TRUE /\ pr_saving' = FALSE /\ pr_calls' = pr_calls \ {c}
    BY <1>4 DEF Editor!SaveAnswered, Editor!End
  <2>2. pr_saveError' \in BOOLEAN /\ pr_saving' \in BOOLEAN
    BY <2>1
  <2>3. EditorTypes'
    BY <1>1, <2>2 DEF EditorInv, EditorTypes, Editor!TypeOK
  <2>4. \A e \in pr_calls \ {c} : ~EditorSaves(e)
    BY <1>2, EditorOthers
  <2>5. EditorCalls'
    BY <2>1, <2>4, EditorEnds DEF EditorInv
  <2> QED BY <2>3, <2>5 DEF EditorInv
<1> QED BY <1>3, <1>4

\* The answer of a delete: the list is asked for, unless it failed.
LEMMA EditorDeleted ==
  ASSUME EditorInv, NEW c \in pr_calls, c.op = "delete", Editor!DeleteAnswered(c), UNCHANGED pr_store
  PROVE  EditorInv'
<1>1. UNCHANGED <<pr_programId, pr_steps, pr_loaded, pr_savedPrograms, pr_saving, pr_saveError, pr_runError,
                  pr_runOf, pr_fresh>>
  BY DEF Editor!DeleteAnswered, Editor!draft
<1>2. CASE c.outcome = "ok"
  <2>1. UNCHANGED pr_deleteError
    BY <1>2 DEF Editor!DeleteAnswered
  <2>2. PICK d : d = Editor!Call("list", c.id, c.steps, "delete")
    OBVIOUS
  <2>3. pr_calls' = (pr_calls \ {c}) \union {d}
    BY <1>2, <2>2 DEF Editor!DeleteAnswered, Editor!fetchPrograms, Editor!Send
  <2>4. EditorCallOK(d) /\ ~EditorSaves(d) /\ ~EditorSettled(d)
    BY <2>2, EditorOthers, EditorAsked DEF EditorSaves, EditorSettled
  <2>5. EditorCalls'
    BY <1>1, <2>3, <2>4, EditorSent, EditorOthers DEF EditorInv
  <2> QED BY <1>1, <2>1, <2>5 DEF EditorInv, EditorTypes, Editor!TypeOK
<1>3. CASE c.outcome # "ok"
  <2>1. pr_calls' = pr_calls \ {c}
    BY <1>3 DEF Editor!DeleteAnswered, Editor!End
  <2>2. pr_deleteError' = TRUE \/ pr_deleteError' = pr_deleteError
    BY <1>3 DEF Editor!DeleteAnswered
  <2>3. pr_deleteError' \in BOOLEAN
    <3>1. pr_deleteError \in BOOLEAN
      BY DEF EditorInv, EditorTypes, Editor!TypeOK
    <3>2. CASE pr_deleteError' = TRUE
      BY <3>2
    <3>3. CASE pr_deleteError' = pr_deleteError
      BY <3>1, <3>3
    <3> QED BY <2>2, <3>2, <3>3
  <2>4. EditorCalls'
    BY <1>1, <2>1, EditorEnds DEF EditorInv, EditorCalls
  <2> QED BY <1>1, <2>3, <2>4 DEF EditorInv, EditorTypes, Editor!TypeOK
<1> QED BY <1>2, <1>3

\* The list has come: for "Save & Run" the run is asked for, after a delete
\* a new program is begun.
LEMMA EditorListed ==
  ASSUME EditorInv, NEW c \in pr_calls, c.op = "list", Editor!ListAnswered(c), UNCHANGED pr_store
  PROVE  EditorInv'
<1>1. pr_savedPrograms' \subseteq EditorId
  <2>1. c.list \subseteq EditorId
    BY EditorOthers DEF EditorCallOK, EditorCall
  <2> QED BY <2>1 DEF Editor!ListAnswered, EditorInv, EditorTypes, Editor!TypeOK, EditorId
<1>2. pr_saving' \in BOOLEAN
  <2>1. pr_saving' = (pr_saving /\ c.then \notin {"save", "run"})
    BY DEF Editor!ListAnswered
  <2> QED BY <2>1
<1>3. \A d \in pr_calls \ {c} : EditorSaves(d) => pr_saving'
  <2>1. pr_saving' <=> pr_saving /\ c.then \notin {"save", "run"}
    BY DEF Editor!ListAnswered
  <2>2. CASE c.then \in {"save", "run"}
    BY <2>2, EditorOthers DEF EditorSaves
  <2>3. CASE c.then \notin {"save", "run"}
    BY <2>1, <2>3, EditorOthers
  <2> QED BY <2>2, <2>3
<1>4. EditorCalls'
  <2>1. CASE c.then = "run" /\ c.outcome # "lost"
    <3>1. PICK d : d = Editor!Call("run", c.id, c.steps, "none")
      OBVIOUS
    <3>2. pr_calls' = (pr_calls \ {c}) \union {d}
      BY <2>1, <3>1 DEF Editor!ListAnswered, Editor!Send
    <3>3. EditorCallOK(d) /\ ~EditorSaves(d) /\ ~EditorSettled(d)
      BY <3>1, EditorOthers, EditorAsked DEF EditorSaves, EditorSettled
    <3> QED BY <1>3, <3>2, <3>3, EditorSent DEF EditorInv
  <2>2. CASE ~(c.then = "run" /\ c.outcome # "lost")
    <3>1. pr_calls' = pr_calls \ {c}
      BY <2>2 DEF Editor!ListAnswered, Editor!End
    <3> QED BY <1>3, <3>1, EditorEnds DEF EditorInv
  <2> QED BY <2>1, <2>2
<1>5. EditorTypes'
  <2>1. CASE c.then = "delete" /\ c.outcome # "lost"
    <3>1. Editor!newProgram
      BY <2>1 DEF Editor!ListAnswered
    <3> QED BY <1>1, <1>2, <3>1, EditorNew DEF EditorInv
  <2>2. CASE ~(c.then = "delete" /\ c.outcome # "lost")
    <3>1. UNCHANGED <<pr_programId, pr_steps, pr_loaded, pr_fresh, pr_runOf, pr_deleteError, pr_runError>>
      BY <2>2 DEF Editor!ListAnswered, Editor!draft
    <3>2. pr_saveError'
            = (pr_saveError \/ (c.then \in {"save", "run"} /\ c.outcome = "lost"))
      BY <2>2 DEF Editor!ListAnswered
    <3>3. pr_saveError' \in BOOLEAN
      BY <3>2
    <3>4. Editor!TypeOK'
      BY <1>1, <1>2, <3>1, <3>3 DEF EditorInv, EditorTypes, Editor!TypeOK, EditorId
    <3> QED BY <3>1, <3>4 DEF EditorInv, EditorTypes
  <2> QED BY <2>1, <2>2
<1> QED BY <1>4, <1>5 DEF EditorInv

\* The answer of a run: the run is shown, or that it failed.
LEMMA EditorRan ==
  ASSUME EditorInv, NEW c \in pr_calls, Editor!RunAnswered(c), UNCHANGED pr_store
  PROVE  EditorInv'
<1>1. /\ pr_calls' = pr_calls \ {c}
      /\ UNCHANGED <<pr_programId, pr_steps, pr_loaded, pr_savedPrograms, pr_saving, pr_saveError,
                     pr_deleteError, pr_fresh>>
  BY DEF Editor!RunAnswered, Editor!End, Editor!draft
<1>2. pr_runOf' \in 0..pr_MaxPrograms
  BY EditorOthers DEF Editor!RunAnswered, EditorInv, EditorTypes, Editor!TypeOK
<1>3. pr_runError' \in BOOLEAN
  <2>1. pr_runError' = (pr_runError \/ c.outcome = "refused")
    BY DEF Editor!RunAnswered
  <2> QED BY <2>1
<1>4. EditorCalls'
  BY <1>1, EditorEnds DEF EditorInv, EditorCalls
<1> QED BY <1>1, <1>2, <1>3, <1>4 DEF EditorInv, EditorTypes, Editor!TypeOK

\* Every step keeps it.
LEMMA EditorNext ==
  ASSUME EditorInv, [Editor!Next]_(Editor!vars)
  PROVE  EditorInv'
<1>1. CASE Editor!Answer
  <2>1. PICK c \in pr_calls :
          /\ c.stage = "answered"
          /\ \/ c.op = "list" /\ Editor!ListAnswered(c)
             \/ c.op = "load" /\ Editor!LoadAnswered(c)
             \/ c.op = "save" /\ Editor!SaveAnswered(c)
             \/ c.op = "delete" /\ Editor!DeleteAnswered(c)
             \/ c.op = "run" /\ Editor!RunAnswered(c)
    BY <1>1 DEF Editor!Answer
  <2>2. UNCHANGED pr_store
    BY <1>1 DEF Editor!Answer
  <2> QED BY <2>1, <2>2, EditorListed, EditorLoaded, EditorSaved, EditorDeleted, EditorRan
<1>2. CASE UNCHANGED Editor!vars
  BY <1>2 DEF Editor!vars, EditorInv, EditorTypes, Editor!TypeOK, EditorCalls
<1> QED BY <1>1, <1>2, EditorButtons, EditorEdits, EditorServe DEF Editor!Next

\* Only a list's answer asks for a run.
LEMMA EditorRuns ==
  ASSUME EditorInv, [Editor!Next]_(Editor!vars)
  PROVE  [\A c \in pr_calls' \ pr_calls :
            c.op = "run" /\ c.stage = "sent" /\ c.id \in DOMAIN pr_store
              => pr_store[c.id] = Editor!programPayload(c.steps)]_(Editor!vars)
<1> SUFFICES ASSUME Editor!Next, NEW d \in pr_calls' \ pr_calls,
                    d.op = "run", d.stage = "sent", d.id \in DOMAIN pr_store
             PROVE  pr_store[d.id] = Editor!programPayload(d.steps)
  OBVIOUS
<1>1. CASE Editor!NewButton \/ Editor!EditSteps \/ Editor!RunClosed
  BY <1>1 DEF Editor!NewButton, Editor!EditSteps, Editor!RunClosed
<1>2. CASE Editor!SavedList \/ Editor!ActionButtons
  BY <1>2 DEF Editor!SavedList, Editor!ActionButtons, Editor!loadProgram, Editor!handleSave,
     Editor!handleRun, Editor!handleDelete, Editor!Send, Editor!Call
<1>3. CASE Editor!Serve
  <2>1. PICK c \in pr_calls, outcome \in {"ok", "refused", "lost"}, reached \in BOOLEAN :
          pr_calls' = (pr_calls \ {c}) \union
            {[c EXCEPT !.stage = "answered", !.outcome = outcome,
                       !.list = IF c.op = "list" THEN DOMAIN pr_store ELSE {},
                       !.nodes = IF c.op = "load" /\ outcome = "ok" THEN pr_store[c.id].nodes ELSE <<>>]}
    BY <1>3 DEF Editor!Serve
  <2>2. c \in EditorCall
    BY DEF EditorInv, EditorCalls, EditorCallOK
  <2>3. PICK names : names = IF c.op = "list" THEN DOMAIN pr_store ELSE {}
    OBVIOUS
  <2>4. PICK nodes : nodes = IF c.op = "load" /\ outcome = "ok" THEN pr_store[c.id].nodes ELSE <<>>
    OBVIOUS
  <2>5. d = [c EXCEPT !.stage = "answered", !.outcome = outcome, !.list = names, !.nodes = nodes]
    BY <2>1, <2>3, <2>4
  <2>6. d.stage = "answered"
    BY <2>2, <2>5 DEF EditorCall
  <2> QED BY <2>6
<1>4. CASE Editor!Answer
  <2>1. PICK c \in pr_calls :
          /\ c.stage = "answered"
          /\ \/ c.op = "list" /\ Editor!ListAnswered(c)
             \/ c.op = "load" /\ Editor!LoadAnswered(c)
             \/ c.op = "save" /\ Editor!SaveAnswered(c)
             \/ c.op = "delete" /\ Editor!DeleteAnswered(c)
             \/ c.op = "run" /\ Editor!RunAnswered(c)
    BY <1>4 DEF Editor!Answer
  <2>2. CASE Editor!LoadAnswered(c) \/ Editor!RunAnswered(c)
    BY <2>2 DEF Editor!LoadAnswered, Editor!RunAnswered, Editor!End
  <2>3. CASE Editor!SaveAnswered(c) \/ Editor!DeleteAnswered(c)
    BY <2>3 DEF Editor!SaveAnswered, Editor!DeleteAnswered, Editor!fetchPrograms, Editor!Send,
       Editor!Call, Editor!End
  <2>4. CASE c.op = "list" /\ Editor!ListAnswered(c)
    <3>1. c.then = "run" /\ d = Editor!Call("run", c.id, c.steps, "none")
      BY <2>4 DEF Editor!ListAnswered, Editor!Send, Editor!End
    <3>2. d.id = c.id /\ d.steps = c.steps
      BY <3>1 DEF Editor!Call
    <3>3. EditorHolds(pr_store, c)
      BY <2>4, <3>1 DEF EditorInv, EditorCalls, EditorSettled
    <3> QED BY <3>2, <3>3 DEF EditorHolds
  <2> QED BY <2>1, <2>2, <2>3, <2>4
<1> QED BY <1>1, <1>2, <1>3, <1>4 DEF Editor!Next

\* It holds what the runs check.
LEMMA EditorShows ==
  ASSUME EditorInv
  PROVE  Editor!TypeOK /\ Editor!LoadThenSaveKeeps
<1> SUFFICES ASSUME pr_loaded.id # 0
             PROVE  Editor!programPayload(pr_steps).nodes =
                      IF pr_loaded.nodes = <<>> THEN <<Editor!stepToNode(Editor!emptyStep("move"))>>
                      ELSE [i \in DOMAIN pr_loaded.nodes |->
                              [pr_loaded.nodes[i] EXCEPT !.attributes = {Editor!Written[pr_loaded.nodes[i].kind]}]]
  BY DEF EditorInv, EditorTypes, Editor!LoadThenSaveKeeps
<1>1. PICK p \in EditorProgram : p = pr_loaded.nodes
  BY DEF EditorInv, EditorTypes
<1>2. PICK s \in EditorDraft : s = Editor!Parsed(p)
  BY EditorParsed
<1>3. Len(s) = Len(p) /\ \A k \in 1..Len(p) : s[k] = [kind |-> p[k].kind, v |-> p[k].v]
  BY <1>2, EditorParsed
<1>4. p = <<>> <=> s = <<>>
  BY <1>2, <1>3, EmptySeq DEF EditorProgram, EditorDraft
<1>5. pr_steps = IF p = <<>> THEN Editor!FirstStep ELSE s
  BY <1>1, <1>2, <1>4 DEF EditorInv, EditorTypes
<1>6. CASE p = <<>>
  <2>1. PICK x : x = Editor!emptyStep("move")
    OBVIOUS
  <2>2. pr_steps = <<x>>
    BY <1>5, <1>6, <2>1 DEF Editor!FirstStep
  <2>3. Editor!programPayload(pr_steps).nodes = [i \in 1..1 |-> Editor!stepToNode(x)]
    BY <2>2 DEF Editor!programPayload
  <2>4. <<Editor!stepToNode(x)>> = [i \in 1..1 |-> Editor!stepToNode(x)]
    OBVIOUS
  <2> QED BY <1>1, <1>6, <2>1, <2>3, <2>4
<1>7. CASE p # <<>>
  <2>1. PICK n \in Nat : n = Len(p) /\ DOMAIN p = 1..n
    BY DEF EditorProgram
  <2>2. Editor!programPayload(pr_steps).nodes = [i \in 1..n |-> Editor!stepToNode(s[i])]
    BY <1>3, <1>5, <1>7, <2>1 DEF Editor!programPayload
  <2>3. ASSUME NEW i \in 1..n
        PROVE  Editor!stepToNode(s[i]) = [p[i] EXCEPT !.attributes = {Editor!Written[p[i].kind]}]
    <3>1. PICK x : x = p[i]
      OBVIOUS
    <3>2. x \in [kind : Editor!Kind, v : Editor!Value,
                 attributes : SUBSET {"target", "target_rad", "pose", "duration_s", "motion"}]
      BY <2>1, <3>1 DEF EditorProgram, EditorNode
    <3>3. s[i] = [kind |-> x.kind, v |-> x.v]
      BY <1>3, <2>1, <3>1
    <3>4. Editor!stepToNode(s[i])
            = [kind |-> x.kind, v |-> x.v, attributes |-> {Editor!Written[x.kind]}]
      BY <3>3 DEF Editor!stepToNode
    <3>5. [x EXCEPT !.attributes = {Editor!Written[x.kind]}]
            = [kind |-> x.kind, v |-> x.v, attributes |-> {Editor!Written[x.kind]}]
      BY <3>2
    <3> QED BY <3>1, <3>4, <3>5
  <2> QED BY <1>1, <1>7, <2>1, <2>2, <2>3
<1> QED BY <1>6, <1>7
-----------------------------------------------------------------------------
(* The compact editor (ProgramList)                                        *)

\* What is assumed of its constants.
LEMMA CompactBounds ==
  /\ pl_MaxValue \in Nat \ {0}
  /\ pl_MaxPrograms \in Nat \ {0, 1} /\ pl_MaxSteps \in Nat \ {0, 1}
  /\ pl_MaxCalls \in Nat /\ pl_MaxInFlight \in Nat
  BY ProgramPagesAssumption

\* A stored program, which another page may have made: nodes of the kinds
\* the Brain knows.  The draft is of the kinds this editor knows.
CompactNode ==
  [kind : {"move", "move_se3", "wait"}, v : 0..pl_MaxValue,
   attr : {"target", "target_rad", "pose", "duration_s"}]
CompactProgram == {p \in Seq(CompactNode) : Len(p) <= pl_MaxSteps}
CompactDraft == {s \in Seq(Compact!Step) : Len(s) <= pl_MaxSteps}
CompactId == 1..pl_MaxPrograms

CompactFlags ==
  /\ pl_saving \in BOOLEAN /\ pl_saveError \in BOOLEAN
  /\ pl_runError \in BOOLEAN /\ pl_listLoading \in BOOLEAN
CompactNumbers ==
  /\ pl_programId \in CompactId /\ pl_fresh \in CompactId
  /\ pl_run \in 0..pl_MaxPrograms /\ pl_sent \in Nat
CompactStored ==
  /\ DOMAIN pl_store \subseteq CompactId /\ pl_savedPrograms \subseteq DOMAIN pl_store
  /\ \A id \in DOMAIN pl_store : pl_store[id] \in CompactProgram
CompactTypes == CompactFlags /\ CompactNumbers /\ CompactStored /\ pl_steps \in CompactDraft

\* A request, what a save holds on to until its list has come, and what the
\* Brain has by then.
CompactCall ==
  [op : {"list", "load", "save", "run"}, id : 0..pl_MaxPrograms, steps : CompactDraft,
   thenRun : BOOLEAN, n : Nat, stage : {"sent", "answered"},
   outcome : {"ok", "refused", "lost"}, list : SUBSET CompactId, nodes : CompactProgram]
CompactAsk(op, id, s, thenRun, n) ==
  [op |-> op, id |-> id, steps |-> s, thenRun |-> thenRun, n |-> n,
   stage |-> "sent", outcome |-> "ok", list |-> {}, nodes |-> <<>>]
CompactCallOK(st, c) ==
  c \in CompactCall /\ c.list \subseteq DOMAIN st /\ (c.op \in {"load", "save"} => c.id # 0)
CompactSaves(c) == c.op = "save" \/ (c.op = "list" /\ c.id # 0)
CompactSettled(c) ==
  \/ c.op = "save" /\ c.stage = "answered" /\ c.outcome = "ok"
  \/ c.op = "list" /\ c.id # 0
CompactHolds(st, c) == c.id \in DOMAIN st /\ st[c.id] = Compact!programPayload(c.steps)

CompactCalls ==
  /\ \A c \in pl_calls : CompactCallOK(pl_store, c)
  /\ \A c \in pl_calls : CompactSaves(c) => pl_saving
  /\ \A c, d \in pl_calls : CompactSaves(c) /\ CompactSaves(d) => c = d
  /\ \A c \in pl_calls : CompactSettled(c) => CompactHolds(pl_store, c)

CompactInv == CompactTypes /\ CompactCalls

\* What is saved of a draft is a program.
LEMMA CompactPayload ==
  ASSUME NEW s \in CompactDraft
  PROVE  Compact!programPayload(s) \in CompactProgram
<1>1. s \in Seq(Compact!Step) /\ Len(s) \in Nat /\ Len(s) <= pl_MaxSteps
  BY DEF CompactDraft
<1>2. ASSUME NEW x \in Compact!Step
      PROVE  Compact!stepToNode(x) \in CompactNode
  <2>1. x.kind \in Compact!Kind /\ x.v \in 0..pl_MaxValue
    BY <1>2 DEF Compact!Step
  <2>2. CASE x.kind = "move"
    BY <2>1, <2>2 DEF Compact!stepToNode, CompactNode
  <2>3. CASE x.kind = "wait"
    BY <2>1, <2>3 DEF Compact!stepToNode, CompactNode
  <2> QED BY <2>1, <2>2, <2>3 DEF Compact!Kind
<1>3. PICK n \in Nat : n = Len(s)
  BY <1>1
<1>4. \A i \in 1..n : Compact!stepToNode(s[i]) \in CompactNode
  BY <1>1, <1>2, <1>3
<1>5. [i \in 1..n |-> Compact!stepToNode(s[i])] \in Seq(CompactNode)
  BY <1>4
<1>6. Len([i \in 1..n |-> Compact!stepToNode(s[i])]) = n
  BY <1>3
<1>7. Compact!programPayload(s) = [i \in 1..n |-> Compact!stepToNode(s[i])]
  BY <1>3 DEF Compact!programPayload
<1> QED BY <1>1, <1>3, <1>5, <1>6, <1>7 DEF CompactProgram

\* A node that is read is read as a step.
LEMMA CompactStep ==
  ASSUME NEW n \in CompactNode, NEW s \in Compact!nodeToStep(n)
  PROVE  s \in Compact!Step
<1>1. PICK k \in Compact!Kind :
        s = [kind |-> k, v |-> IF n.attr \in Compact!ReadBy[k] THEN n.v ELSE 0]
  BY DEF Compact!nodeToStep
<1>2. PICK v \in 0..pl_MaxValue : v = IF n.attr \in Compact!ReadBy[k] THEN n.v ELSE 0
  BY CompactBounds DEF CompactNode
<1> QED BY <1>1, <1>2 DEF Compact!Step

\* This editor counts with the operator of FiniteSets as well.
LEMMA CompactCardinality ==
  ASSUME NEW S
  PROVE  Compact!Cardinality(S) = Cardinality(S)
BY DEF Compact!Cardinality, Cardinality

\* A program is read as a draft, of the nodes that have a step.
LEMMA CompactParsed ==
  ASSUME NEW p \in CompactProgram
  PROVE  Compact!Parsed(p) \in CompactDraft
<1>1. PICK n \in Nat : n = Len(p)
  BY DEF CompactProgram
<1>2. n <= pl_MaxSteps /\ \A i \in 1..n : p[i] \in CompactNode
  BY <1>1 DEF CompactProgram
<1>3. PICK K : K = {i \in 1..Len(p) : Compact!nodeToStep(p[i]) # {}}
  OBVIOUS
<1>4. K \in SUBSET (1..n)
  BY <1>1, <1>3
<1>5. PICK m : m = Cardinality(K)
  OBVIOUS
<1>6. m \in Nat /\ m <= n
  <2>1. IsFiniteSet(1..n) /\ Cardinality(1..n) = n
    BY FS_Interval
  <2>2. IsFiniteSet(K) /\ Cardinality(K) <= Cardinality(1..n)
    BY <1>4, <2>1, FS_Subset
  <2>3. Cardinality(K) \in Nat
    BY <2>2, FS_CardinalityType
  <2> QED BY <1>5, <2>1, <2>2, <2>3
<1>7. ASSUME NEW k \in 1..m
      PROVE  Compact!Place(K, k) \in K
  <2>1. \E i \in K : Cardinality({j \in K : j <= i}) = k
    BY <1>4, <1>5, PlaceThere
  <2>2. \E i \in K : Compact!Cardinality({j \in K : j <= i}) = k
    BY <2>1, CompactCardinality
  <2> QED BY <2>2 DEF Compact!Place
<1>8. PICK q : q = Compact!Parsed(p)
  OBVIOUS
<1>9. q = [k \in 1..m |-> CHOOSE s \in Compact!nodeToStep(p[Compact!Place(K, k)]) : TRUE]
  <2>1. q = [k \in 1..Compact!Cardinality(K) |->
               CHOOSE s \in Compact!nodeToStep(p[Compact!Place(K, k)]) : TRUE]
    BY <1>3, <1>8 DEF Compact!Parsed
  <2>2. Compact!Cardinality(K) = m
    BY <1>5, CompactCardinality
  <2> QED BY <2>1, <2>2
<1>10. \A k \in 1..m : q[k] \in Compact!Step
  <2> TAKE k \in 1..m
  <2>1. PICK i \in K : i = Compact!Place(K, k)
    BY <1>7
  <2>2. p[i] \in CompactNode /\ Compact!nodeToStep(p[i]) # {}
    BY <1>1, <1>2, <1>3, <1>4
  <2>3. q[k] = CHOOSE s \in Compact!nodeToStep(p[i]) : TRUE
    BY <1>9, <2>1
  <2>4. q[k] \in Compact!nodeToStep(p[i])
    BY <2>2, <2>3
  <2> QED BY <2>2, <2>4, CompactStep
<1>11. DOMAIN q = 1..m
  BY <1>9
<1>12. q = [k \in 1..m |-> q[k]]
  BY <1>9, <1>11
<1>13. q \in Seq(Compact!Step) /\ Len(q) = m
  BY <1>6, <1>10, <1>12
<1> QED BY <1>2, <1>6, <1>8, <1>13, CompactBounds DEF CompactDraft

\* The draft of a new program.
LEMMA CompactBegins ==
  Compact!FirstStep \in CompactDraft /\ <<>> \in CompactDraft /\ <<>> \in CompactProgram
<1>1. Compact!emptyStep("move") \in Compact!Step
  BY CompactBounds DEF Compact!emptyStep, Compact!Step, Compact!Kind
<1> QED BY <1>1, CompactBounds DEF Compact!FirstStep, CompactDraft, CompactProgram

\* A request that is new is a call, that of its kind.
LEMMA CompactAsked ==
  ASSUME NEW op \in {"list", "load", "save", "run"}, NEW id \in 0..pl_MaxPrograms,
         NEW s \in CompactDraft, NEW thenRun \in BOOLEAN, NEW n \in Nat, NEW st,
         op \in {"load", "save"} => id # 0,
         NEW c, c = CompactAsk(op, id, s, thenRun, n)
  PROVE  /\ CompactCallOK(st, c)
         /\ c.op = op /\ c.id = id /\ c.steps = s /\ c.thenRun = thenRun /\ c.stage = "sent"
<1>1. c \in CompactCall
  BY CompactBegins DEF CompactAsk, CompactCall
<1>2. c.op = op /\ c.id = id /\ c.steps = s /\ c.thenRun = thenRun /\ c.stage = "sent"
      /\ c.list = {}
  BY DEF CompactAsk
<1> QED BY <1>1, <1>2 DEF CompactCallOK

\* The programs the editor starts with.
LEMMA CompactFirst ==
  ASSUME Compact!Init
  PROVE  CompactInv
<1>1. CompactFlags
  BY DEF Compact!Init, CompactFlags
<1>2. CompactNumbers
  BY CompactBounds DEF Compact!Init, CompactNumbers, CompactId
<1>3. CompactStored
  <2>1. PICK a : a = [kind |-> "move", v |-> 1, attr |-> "target_rad"]
    OBVIOUS
  <2>2. PICK b : b = [kind |-> "move_se3", v |-> 1, attr |-> "pose"]
    OBVIOUS
  <2>3. a \in CompactNode /\ b \in CompactNode
    BY <2>1, <2>2, CompactBounds DEF CompactNode
  <2>4. <<a, b>> \in CompactProgram
    BY <2>3, CompactBounds DEF CompactProgram
  <2>5. pl_store = [id \in {1} |-> <<a, b>>] /\ pl_savedPrograms = {}
    BY <2>1, <2>2 DEF Compact!Init
  <2> QED BY <2>4, <2>5, CompactBounds DEF CompactStored, CompactId
<1>4. pl_steps \in CompactDraft
  BY CompactBegins DEF Compact!Init
<1>5. CompactCalls
  <2>1. PICK c : c = CompactAsk("list", 0, <<>>, FALSE, 1)
    OBVIOUS
  <2>2. CompactCallOK(pl_store, c) /\ c.op = "list" /\ c.id = 0
    <3>1. PICK no \in BOOLEAN : no = FALSE
      OBVIOUS
    <3>2. c = CompactAsk("list", 0, <<>>, no, 1)
      BY <2>1, <3>1
    <3>3. 0 \in 0..pl_MaxPrograms
      BY CompactBounds
    <3> QED BY <3>2, <3>3, CompactBegins, CompactAsked
  <2>3. pl_calls = {c}
    BY <2>1 DEF Compact!Init, CompactAsk
  <2> QED BY <2>2, <2>3 DEF CompactCalls, CompactSaves, CompactSettled
<1> QED BY <1>1, <1>2, <1>3, <1>4, <1>5 DEF CompactInv, CompactTypes

\* A request is sent in the place of one that is over, or beside the others.
LEMMA CompactSent ==
  ASSUME CompactCalls, NEW rest \in SUBSET pl_calls, NEW c, CompactCallOK(pl_store, c),
         pl_calls' = rest \union {c}, UNCHANGED pl_store,
         CompactSaves(c) => pl_saving' /\ \A d \in rest : ~CompactSaves(d),
         \A d \in rest : CompactSaves(d) => pl_saving',
         CompactSettled(c) => CompactHolds(pl_store, c)
  PROVE  CompactCalls'
<1>1. \A d \in pl_calls' : d \in rest \/ d = c
  OBVIOUS
<1>2. \A d \in pl_calls' : CompactCallOK(pl_store', d)
  BY <1>1 DEF CompactCalls
<1>3. \A d \in pl_calls' : CompactSaves(d) => pl_saving'
  BY <1>1
<1>4. \A d, e \in pl_calls' : CompactSaves(d) /\ CompactSaves(e) => d = e
  BY <1>1 DEF CompactCalls
<1>5. \A d \in pl_calls' : CompactSettled(d) => CompactHolds(pl_store', d)
  BY <1>1 DEF CompactCalls
<1> QED BY <1>2, <1>3, <1>4, <1>5 DEF CompactCalls

\* A request ends.
LEMMA CompactEnds ==
  ASSUME CompactCalls, pl_calls' \subseteq pl_calls, UNCHANGED pl_store,
         \A d \in pl_calls' : CompactSaves(d) => pl_saving'
  PROVE  CompactCalls'
BY DEF CompactCalls

\* The draft and its steps change, nothing else.
LEMMA CompactEdits ==
  ASSUME CompactInv, Compact!addStep \/ Compact!StepRow
  PROVE  CompactInv'
<1>1. UNCHANGED <<pl_store, pl_programId, pl_run, pl_saving, pl_saveError, pl_runError,
                  pl_listLoading, pl_savedPrograms, pl_calls, pl_fresh, pl_sent>>
  BY DEF Compact!addStep, Compact!StepRow, Compact!KindSelector, Compact!StepFields,
     Compact!RowButtons, Compact!updateStep, Compact!removeStep, Compact!moveStep, Compact!Edit,
     Compact!errors
<1>2. PICK n \in Nat : n = Len(pl_steps)
  BY DEF CompactInv, CompactTypes, CompactDraft
<1>3. pl_steps \in Seq(Compact!Step) /\ n <= pl_MaxSteps
  BY <1>2 DEF CompactInv, CompactTypes, CompactDraft
<1>4. pl_steps' \in CompactDraft
  <2>1. ASSUME NEW i \in 1..n, NEW x \in Compact!Step, pl_steps' = [pl_steps EXCEPT ![i] = x]
        PROVE  pl_steps' \in CompactDraft
    BY <1>2, <1>3, <2>1, SeqReplace DEF CompactDraft
  <2>2. CASE Compact!addStep
    <3>1. PICK k \in Compact!Kind : Compact!Edit(Append(pl_steps, Compact!emptyStep(k)))
      BY <2>2 DEF Compact!addStep
    <3>2. Compact!emptyStep(k) \in Compact!Step
      BY CompactBounds DEF Compact!emptyStep, Compact!Step
    <3>3. n < pl_MaxSteps /\ pl_steps' = Append(pl_steps, Compact!emptyStep(k))
      BY <1>2, <2>2, <3>1 DEF Compact!addStep, Compact!Edit
    <3>4. pl_steps' \in Seq(Compact!Step) /\ Len(pl_steps') = n + 1
      BY <1>2, <1>3, <3>2, <3>3
    <3> QED BY <1>2, <3>3, <3>4, CompactBounds DEF CompactDraft
  <2>3. CASE Compact!StepRow
    <3>1. PICK i \in 1..n :
            Compact!KindSelector(i) \/ Compact!StepFields(i) \/ Compact!RowButtons(i)
      BY <1>2, <2>3 DEF Compact!StepRow
    <3>2. CASE Compact!KindSelector(i)
      <4>1. PICK k \in Compact!Kind : pl_steps' = [pl_steps EXCEPT ![i] = Compact!emptyStep(k)]
        BY <3>2 DEF Compact!KindSelector, Compact!updateStep, Compact!Edit
      <4>2. Compact!emptyStep(k) \in Compact!Step
        BY CompactBounds DEF Compact!emptyStep, Compact!Step
      <4> QED BY <2>1, <4>1, <4>2
    <3>3. CASE Compact!StepFields(i)
      <4>1. PICK v \in 0..pl_MaxValue :
              pl_steps' = [pl_steps EXCEPT ![i] = [pl_steps[i] EXCEPT !.v = v]]
        BY <3>3 DEF Compact!StepFields, Compact!updateStep, Compact!Edit
      <4>2. [pl_steps[i] EXCEPT !.v = v] \in Compact!Step
        <5>1. pl_steps[i] \in Compact!Step
          BY <1>2, <1>3
        <5> QED BY <5>1 DEF Compact!Step
      <4> QED BY <2>1, <4>1, <4>2
    <3>4. CASE Compact!removeStep(i)
      <4>1. pl_steps' = SubSeq(pl_steps, 1, i - 1) \o SubSeq(pl_steps, i + 1, Len(pl_steps))
        BY <3>4 DEF Compact!removeStep, Compact!Edit, Compact!RemoveAt
      <4>2. pl_steps' \in Seq(Compact!Step) /\ Len(pl_steps') = n - 1
        BY <1>2, <1>3, <4>1, SeqRemove
      <4> QED BY <1>2, <1>3, <4>2, CompactBounds DEF CompactDraft
    <3>5. CASE Compact!moveStep(i, 1) \/ Compact!moveStep(i, -1)
      <4>1. PICK j \in 1..n : pl_steps' = [pl_steps EXCEPT ![i] = pl_steps[j], ![j] = pl_steps[i]]
        BY <1>2, <3>5 DEF Compact!moveStep, Compact!Edit
      <4>2. pl_steps[i] \in Compact!Step /\ pl_steps[j] \in Compact!Step
        BY <1>2, <1>3
      <4>3. PICK s : s = [pl_steps EXCEPT ![i] = pl_steps[j]]
        OBVIOUS
      <4>4. s \in Seq(Compact!Step) /\ Len(s) = n
        BY <1>2, <1>3, <4>2, <4>3, SeqReplace
      <4>5. pl_steps' = [s EXCEPT ![j] = pl_steps[i]]
        BY <4>1, <4>3
      <4> QED BY <1>3, <4>2, <4>4, <4>5, SeqReplace DEF CompactDraft
    <3> QED BY <3>1, <3>2, <3>3, <3>4, <3>5 DEF Compact!RowButtons
  <2> QED BY <2>2, <2>3
<1>5. CompactTypes'
  BY <1>1, <1>4 DEF CompactInv, CompactTypes, CompactFlags, CompactNumbers, CompactStored
<1>6. CompactCalls'
  BY <1>1, CompactEnds DEF CompactInv, CompactCalls
<1> QED BY <1>5, <1>6 DEF CompactInv

\* "Save", and "Run", which saves first.
LEMMA CompactSaving ==
  ASSUME CompactInv, NEW thenRun \in BOOLEAN, Compact!handleSave(thenRun), pl_runError' \in BOOLEAN
  PROVE  CompactInv'
<1>1. UNCHANGED <<pl_store, pl_programId, pl_steps, pl_run, pl_listLoading, pl_savedPrograms, pl_fresh>>
  BY DEF Compact!handleSave, Compact!draft
<1>2. ~pl_saving /\ pl_saving' = TRUE /\ pl_saveError' = FALSE /\ pl_sent' = pl_sent + 1
  BY DEF Compact!handleSave, Compact!brainFetch
<1>3. CompactFlags'
  BY <1>1, <1>2 DEF CompactInv, CompactTypes, CompactFlags
<1>4. CompactNumbers'
  BY <1>1, <1>2 DEF CompactInv, CompactTypes, CompactNumbers
<1>5. CompactTypes'
  BY <1>1, <1>3, <1>4 DEF CompactInv, CompactTypes, CompactStored
<1>6. PICK c : c = CompactAsk("save", pl_programId, pl_steps, thenRun, pl_sent + 1)
  OBVIOUS
<1>7. pl_calls' = pl_calls \union {c}
  BY <1>6 DEF Compact!handleSave, Compact!brainFetch, CompactAsk
<1>8. CompactCallOK(pl_store, c) /\ ~CompactSettled(c)
  <2>1. pl_programId \in 0..pl_MaxPrograms /\ pl_programId # 0
    BY CompactBounds DEF CompactInv, CompactTypes, CompactNumbers, CompactId
  <2>2. pl_steps \in CompactDraft /\ pl_sent + 1 \in Nat
    BY DEF CompactInv, CompactTypes, CompactNumbers
  <2>3. CompactCallOK(pl_store, c) /\ c.op = "save" /\ c.stage = "sent"
    BY <1>6, <2>1, <2>2, CompactAsked
  <2> QED BY <2>3 DEF CompactSettled
<1>9. \A d \in pl_calls : ~CompactSaves(d)
  BY <1>2 DEF CompactInv, CompactCalls
<1>10. CompactCalls'
  BY <1>1, <1>2, <1>7, <1>8, <1>9, CompactSent DEF CompactInv
<1> QED BY <1>5, <1>10 DEF CompactInv

\* The other buttons.
LEMMA CompactButtons ==
  ASSUME CompactInv, \/ Compact!newProgram \/ Compact!loadProgram
                     \/ Compact!SaveButton \/ Compact!handleRun \/ Compact!RunClosed
  PROVE  CompactInv'
<1>1. CASE Compact!newProgram
  <2>1. /\ pl_fresh < pl_MaxPrograms /\ pl_fresh' = pl_fresh + 1 /\ pl_programId' = pl_fresh + 1
        /\ pl_steps' = Compact!FirstStep /\ pl_run' = 0
        /\ pl_saveError' = FALSE /\ pl_runError' = FALSE
        /\ UNCHANGED <<pl_store, pl_saving, pl_listLoading, pl_savedPrograms, pl_calls, pl_sent>>
    BY <1>1 DEF Compact!newProgram
  <2>2. CompactFlags'
    BY <2>1 DEF CompactInv, CompactTypes, CompactFlags
  <2>3. CompactNumbers'
    BY <2>1, CompactBounds DEF CompactInv, CompactTypes, CompactNumbers, CompactId
  <2>4. CompactTypes'
    BY <2>1, <2>2, <2>3, CompactBegins DEF CompactInv, CompactTypes, CompactStored
  <2>5. CompactCalls'
    BY <2>1, CompactEnds DEF CompactInv, CompactCalls
  <2> QED BY <2>4, <2>5 DEF CompactInv
<1>2. CASE Compact!loadProgram
  <2>1. PICK id \in pl_savedPrograms : Compact!brainFetch("load", id, <<>>, FALSE, pl_calls)
    BY <1>2 DEF Compact!loadProgram
  <2>2. UNCHANGED <<pl_store, pl_programId, pl_steps, pl_run, pl_saving, pl_saveError, pl_runError,
                    pl_listLoading, pl_savedPrograms, pl_fresh>>
    BY <1>2 DEF Compact!loadProgram, Compact!draft, Compact!errors
  <2>3. pl_sent' = pl_sent + 1
    BY <2>1 DEF Compact!brainFetch
  <2>4. CompactNumbers'
    BY <2>2, <2>3 DEF CompactInv, CompactTypes, CompactNumbers
  <2>5. CompactTypes'
    BY <2>2, <2>4 DEF CompactInv, CompactTypes, CompactFlags, CompactStored
  <2>6. PICK c : c = CompactAsk("load", id, <<>>, FALSE, pl_sent + 1)
    OBVIOUS
  <2>7. pl_calls' = pl_calls \union {c}
    BY <2>1, <2>6 DEF Compact!brainFetch, CompactAsk
  <2>8. id \in 0..pl_MaxPrograms /\ id # 0 /\ pl_sent + 1 \in Nat
    BY CompactBounds DEF CompactInv, CompactTypes, CompactStored, CompactNumbers, CompactId
  <2>9. CompactCallOK(pl_store, c) /\ ~CompactSaves(c) /\ ~CompactSettled(c)
    <3>1. CompactCallOK(pl_store, c) /\ c.op = "load"
      <4>1. PICK no \in BOOLEAN : no = FALSE
        OBVIOUS
      <4>2. c = CompactAsk("load", id, <<>>, no, pl_sent + 1)
        BY <2>6, <4>1
      <4> QED BY <2>8, <4>2, CompactBegins, CompactAsked
    <3> QED BY <3>1 DEF CompactSaves, CompactSettled
  <2>10. CompactCalls'
    BY <2>2, <2>7, <2>9, CompactSent DEF CompactInv, CompactCalls
  <2> QED BY <2>5, <2>10 DEF CompactInv
<1>3. CASE Compact!SaveButton
  <2>1. Compact!handleSave(FALSE) /\ pl_runError' = pl_runError
    BY <1>3 DEF Compact!SaveButton
  <2>2. pl_runError' \in BOOLEAN
    BY <2>1 DEF CompactInv, CompactTypes, CompactFlags
  <2> QED BY <2>1, <2>2, CompactSaving
<1>4. CASE Compact!handleRun
  <2>1. Compact!handleSave(TRUE) /\ pl_runError' = FALSE
    BY <1>4 DEF Compact!handleRun
  <2>2. pl_runError' \in BOOLEAN
    BY <2>1
  <2> QED BY <2>1, <2>2, CompactSaving
<1>5. CASE Compact!RunClosed
  <2>1. /\ pl_run' = 0
        /\ UNCHANGED <<pl_store, pl_programId, pl_steps, pl_saving, pl_saveError, pl_runError,
                       pl_listLoading, pl_savedPrograms, pl_calls, pl_fresh, pl_sent>>
    BY <1>5 DEF Compact!RunClosed, Compact!errors
  <2>2. CompactNumbers'
    BY <2>1, CompactBounds DEF CompactInv, CompactTypes, CompactNumbers
  <2>3. CompactTypes'
    BY <2>1, <2>2 DEF CompactInv, CompactTypes, CompactFlags, CompactStored
  <2>4. CompactCalls'
    BY <2>1, CompactEnds DEF CompactInv, CompactCalls
  <2> QED BY <2>3, <2>4 DEF CompactInv
<1> QED BY <1>1, <1>2, <1>3, <1>4, <1>5

\* The Brain stores a program, and a request is answered.
LEMMA CompactServe ==
  ASSUME CompactInv, Compact!Serve
  PROVE  CompactInv'
<1>1. UNCHANGED <<pl_programId, pl_steps, pl_run, pl_saving, pl_saveError, pl_runError,
                  pl_listLoading, pl_savedPrograms, pl_fresh, pl_sent>>
  BY DEF Compact!Serve, Compact!draft, Compact!errors
<1>2. PICK c \in pl_calls, outcome \in {"ok", "refused", "lost"}, reached \in BOOLEAN :
        /\ c.stage = "sent" /\ (outcome = "ok" => reached)
        /\ outcome = "ok" /\ c.op \in {"load", "run"} => c.id \in DOMAIN pl_store
        /\ pl_store' = IF reached /\ c.op = "save"
                       THEN [id \in DOMAIN pl_store \union {c.id} |->
                               IF id = c.id THEN Compact!programPayload(c.steps) ELSE pl_store[id]]
                       ELSE pl_store
        /\ pl_calls' = (pl_calls \ {c}) \union
             {[c EXCEPT !.stage = "answered", !.outcome = outcome,
                        !.list = IF c.op = "list" THEN DOMAIN pl_store ELSE {},
                        !.nodes = IF c.op = "load" /\ outcome = "ok" THEN pl_store[c.id] ELSE <<>>]}
  BY DEF Compact!Serve
<1>3. CompactCallOK(pl_store, c) /\ c \in CompactCall /\ DOMAIN pl_store \subseteq CompactId
  BY DEF CompactInv, CompactCalls, CompactCallOK, CompactTypes, CompactStored
<1>4. PICK names \in SUBSET CompactId :
        names = (IF c.op = "list" THEN DOMAIN pl_store ELSE {}) /\ names \subseteq DOMAIN pl_store
  BY <1>3
<1>5. PICK nodes \in CompactProgram :
        nodes = IF c.op = "load" /\ outcome = "ok" THEN pl_store[c.id] ELSE <<>>
  BY <1>2, CompactBegins DEF CompactInv, CompactTypes, CompactStored
<1>6. PICK d : d = [c EXCEPT !.stage = "answered", !.outcome = outcome, !.list = names, !.nodes = nodes]
  OBVIOUS
<1>7. pl_calls' = (pl_calls \ {c}) \union {d}
  BY <1>2, <1>4, <1>5, <1>6
<1>8. /\ d \in CompactCall /\ d.op = c.op /\ d.id = c.id /\ d.steps = c.steps
      /\ d.stage = "answered" /\ d.outcome = outcome /\ d.list = names
  <2>1. d \in CompactCall
    BY <1>3, <1>6 DEF CompactCall
  <2>2. /\ d.op = c.op /\ d.id = c.id /\ d.steps = c.steps
        /\ d.stage = "answered" /\ d.outcome = outcome /\ d.list = names
    BY <1>3, <1>6 DEF CompactCall
  <2> QED BY <2>1, <2>2
<1>9. CompactSaves(d) = CompactSaves(c)
  BY <1>8 DEF CompactSaves
<1>10. c.op = "save" => c.id \in CompactId /\ Compact!programPayload(c.steps) \in CompactProgram
  <2>1. c.steps \in CompactDraft /\ c.id \in 0..pl_MaxPrograms
    BY <1>3 DEF CompactCall
  <2>2. c.op = "save" => c.id # 0
    BY <1>3 DEF CompactCallOK
  <2> QED BY <2>1, <2>2, CompactPayload, CompactBounds DEF CompactId
<1>11. /\ DOMAIN pl_store \subseteq DOMAIN pl_store'
       /\ DOMAIN pl_store' \subseteq CompactId
       /\ \A id \in DOMAIN pl_store' : pl_store'[id] \in CompactProgram
  <2>1. CASE reached /\ c.op = "save"
    BY <1>2, <1>3, <1>10, <2>1 DEF CompactInv, CompactTypes, CompactStored
  <2>2. CASE ~(reached /\ c.op = "save")
    BY <1>2, <1>3, <2>2 DEF CompactInv, CompactTypes, CompactStored
  <2> QED BY <2>1, <2>2
<1>12. CompactTypes'
  <2>1. CompactStored'
    BY <1>1, <1>11 DEF CompactInv, CompactTypes, CompactStored
  <2> QED BY <1>1, <2>1 DEF CompactInv, CompactTypes, CompactFlags, CompactNumbers
<1>13. \A e \in pl_calls' : e \in pl_calls \ {c} \/ e = d
  BY <1>7
<1>14. \A e \in pl_calls' : CompactCallOK(pl_store', e)
  <2>1. CompactCallOK(pl_store', d)
    BY <1>3, <1>4, <1>8, <1>11 DEF CompactCallOK
  <2>2. \A e \in pl_calls : CompactCallOK(pl_store', e)
    BY <1>11 DEF CompactInv, CompactCalls, CompactCallOK
  <2> QED BY <1>13, <2>1, <2>2
<1>15. \A e \in pl_calls' : CompactSaves(e) => pl_saving'
  BY <1>1, <1>9, <1>13 DEF CompactInv, CompactCalls
<1>16. \A e, f \in pl_calls' : CompactSaves(e) /\ CompactSaves(f) => e = f
  BY <1>9, <1>13 DEF CompactInv, CompactCalls
<1>17. \A e \in pl_calls' : CompactSettled(e) => CompactHolds(pl_store', e)
  <2>1. CASE reached /\ c.op = "save"
    <3>1. pl_store'[c.id] = Compact!programPayload(c.steps) /\ c.id \in DOMAIN pl_store'
      BY <1>2, <2>1
    <3>2. CompactHolds(pl_store', d)
      BY <1>8, <3>1 DEF CompactHolds
    <3>3. \A e \in pl_calls \ {c} : ~CompactSaves(e)
      BY <2>1 DEF CompactInv, CompactCalls, CompactSaves
    <3>4. \A e \in pl_calls \ {c} : ~CompactSettled(e)
      BY <3>3 DEF CompactSaves, CompactSettled
    <3> QED BY <1>13, <3>2, <3>4
  <2>2. CASE ~(reached /\ c.op = "save")
    <3>1. pl_store' = pl_store
      BY <1>2, <2>2
    <3>2. CompactSettled(d) => CompactSettled(c)
      BY <1>2, <1>8, <2>2 DEF CompactSettled
    <3>3. CompactHolds(pl_store, c) => CompactHolds(pl_store, d)
      BY <1>8 DEF CompactHolds
    <3> QED BY <1>13, <3>1, <3>2, <3>3 DEF CompactInv, CompactCalls
  <2> QED BY <2>1, <2>2
<1>18. CompactCalls'
  BY <1>14, <1>15, <1>16, <1>17 DEF CompactCalls
<1> QED BY <1>12, <1>18 DEF CompactInv

\* What an answered request leaves of the others.
LEMMA CompactOthers ==
  ASSUME CompactInv, NEW c \in pl_calls
  PROVE  /\ CompactCallOK(pl_store, c) /\ c.id \in 0..pl_MaxPrograms /\ c.steps \in CompactDraft
         /\ c.thenRun \in BOOLEAN /\ c.nodes \in CompactProgram /\ c.list \subseteq DOMAIN pl_store
         /\ CompactSaves(c) => \A d \in pl_calls \ {c} : ~CompactSaves(d)
         /\ \A d \in pl_calls \ {c} : CompactSaves(d) => pl_saving
         /\ pl_sent + 1 \in Nat
<1>1. CompactCallOK(pl_store, c) /\ c \in CompactCall
  BY DEF CompactInv, CompactCalls, CompactCallOK
<1>2. c.id \in 0..pl_MaxPrograms /\ c.steps \in CompactDraft
      /\ c.thenRun \in BOOLEAN /\ c.nodes \in CompactProgram
  BY <1>1 DEF CompactCall
<1>3. c.list \subseteq DOMAIN pl_store
  BY <1>1 DEF CompactCallOK
<1>4. pl_sent + 1 \in Nat
  BY DEF CompactInv, CompactTypes, CompactNumbers
<1> QED BY <1>1, <1>2, <1>3, <1>4 DEF CompactInv, CompactCalls

\* The answer of a load: its program is the draft.
LEMMA CompactLoaded ==
  ASSUME CompactInv, NEW c \in pl_calls, c.op = "load", Compact!LoadAnswered(c),
         UNCHANGED <<pl_store, pl_fresh>>
  PROVE  CompactInv'
<1>1. pl_calls' = pl_calls \ {c} /\ UNCHANGED <<pl_savedPrograms, pl_saving, pl_listLoading, pl_sent>>
  BY DEF Compact!LoadAnswered, Compact!End
<1>2. CompactCalls'
  BY <1>1, CompactEnds DEF CompactInv, CompactCalls
<1>3. CASE c.outcome = "ok"
  <2>1. c.nodes \in CompactProgram /\ c.id \in CompactId
    BY CompactOthers, CompactBounds DEF CompactCallOK, CompactId
  <2>2. pl_steps' \in CompactDraft
    <3>1. Compact!Parsed(c.nodes) \in CompactDraft
      BY <2>1, CompactParsed
    <3> QED BY <1>3, <3>1, CompactBegins DEF Compact!LoadAnswered
  <2>3. pl_programId' = c.id /\ pl_run' = 0 /\ pl_saveError' = FALSE /\ pl_runError' = FALSE
    BY <1>3 DEF Compact!LoadAnswered
  <2>4. CompactFlags'
    BY <1>1, <2>3 DEF CompactInv, CompactTypes, CompactFlags
  <2>5. CompactNumbers'
    BY <1>1, <2>1, <2>3, CompactBounds DEF CompactInv, CompactTypes, CompactNumbers
  <2>6. CompactTypes'
    BY <1>1, <2>2, <2>4, <2>5 DEF CompactInv, CompactTypes, CompactStored
  <2> QED BY <1>2, <2>6 DEF CompactInv
<1>4. CASE c.outcome # "ok"
  <2>1. UNCHANGED <<pl_programId, pl_steps, pl_run, pl_saveError, pl_runError>>
    BY <1>4 DEF Compact!LoadAnswered, Compact!draft, Compact!errors
  <2> QED BY <1>1, <1>2, <2>1
          DEF CompactInv, CompactTypes, CompactFlags, CompactNumbers, CompactStored
<1> QED BY <1>3, <1>4

\* A save is over: the run it is for is asked for.
LEMMA CompactSaveOver ==
  ASSUME CompactInv, NEW c \in pl_calls, CompactSaves(c), Compact!Saved(c), UNCHANGED pl_store
  PROVE  /\ CompactCalls' /\ pl_saving' = FALSE /\ pl_sent' \in Nat
         /\ \A d \in pl_calls' \ pl_calls : d.id = c.id /\ d.steps = c.steps
<1>1. pl_saving' = FALSE
  BY DEF Compact!Saved
<1>2. \A d \in pl_calls \ {c} : ~CompactSaves(d)
  BY CompactOthers
<1>3. CASE c.thenRun
  <2>1. PICK d : d = CompactAsk("run", c.id, c.steps, FALSE, pl_sent + 1)
    OBVIOUS
  <2>2. pl_calls' = (pl_calls \ {c}) \union {d} /\ pl_sent' = pl_sent + 1
    BY <1>3, <2>1 DEF Compact!Saved, Compact!brainFetch, CompactAsk
  <2>3. CompactCallOK(pl_store, d) /\ d.op = "run" /\ d.id = c.id /\ d.steps = c.steps
    <3>1. PICK no \in BOOLEAN : no = FALSE
      OBVIOUS
    <3>2. d = CompactAsk("run", c.id, c.steps, no, pl_sent + 1)
      BY <2>1, <3>1
    <3> QED BY <3>2, CompactOthers, CompactAsked
  <2>4. ~CompactSaves(d) /\ ~CompactSettled(d)
    BY <2>3 DEF CompactSaves, CompactSettled
  <2>5. CompactCalls'
    BY <1>2, <2>2, <2>3, <2>4, CompactSent DEF CompactInv
  <2> QED BY <1>1, <2>2, <2>3, <2>5, CompactOthers
<1>4. CASE ~c.thenRun
  <2>1. pl_calls' = pl_calls \ {c} /\ pl_sent' = pl_sent
    BY <1>4 DEF Compact!Saved, Compact!End
  <2>2. CompactCalls'
    BY <1>2, <2>1, CompactEnds DEF CompactInv
  <2> QED BY <1>1, <2>1, <2>2 DEF CompactInv, CompactTypes, CompactNumbers
<1> QED BY <1>3, <1>4

\* The answer of a save: the list is asked for, or the failure is shown.
LEMMA CompactSaved ==
  ASSUME CompactInv, NEW c \in pl_calls, c.op = "save", c.stage = "answered",
         Compact!SaveAnswered(c), UNCHANGED <<pl_store, pl_fresh>>
  PROVE  CompactInv'
<1>1. UNCHANGED <<pl_programId, pl_steps, pl_run, pl_savedPrograms, pl_runError>>
  BY DEF Compact!SaveAnswered, Compact!draft
<1>2. CompactSaves(c)
  BY DEF CompactSaves
<1>3. CASE c.outcome = "ok"
  <2>1. pl_listLoading' = TRUE /\ UNCHANGED <<pl_saving, pl_saveError>>
    BY <1>3 DEF Compact!SaveAnswered
  <2>2. PICK d : d = CompactAsk("list", c.id, c.steps, c.thenRun, pl_sent + 1)
    OBVIOUS
  <2>3. pl_calls' = (pl_calls \ {c}) \union {d} /\ pl_sent' = pl_sent + 1
    BY <1>3, <2>2 DEF Compact!SaveAnswered, Compact!brainFetch, CompactAsk
  <2>4. CompactCallOK(pl_store, d) /\ d.id = c.id /\ d.steps = c.steps
    BY <2>2, CompactOthers, CompactAsked
  <2>5. CompactHolds(pl_store, d)
    BY <1>3, <2>4 DEF CompactInv, CompactCalls, CompactSettled, CompactHolds
  <2>6. pl_saving'
    BY <1>2, <2>1 DEF CompactInv, CompactCalls
  <2>7. \A e \in pl_calls \ {c} : ~CompactSaves(e)
    BY <1>2, CompactOthers
  <2>8. CompactCalls'
    BY <2>3, <2>4, <2>5, <2>6, <2>7, CompactSent DEF CompactInv
  <2>9. CompactFlags'
    BY <1>1, <2>1 DEF CompactInv, CompactTypes, CompactFlags
  <2>10. CompactNumbers'
    BY <1>1, <2>3 DEF CompactInv, CompactTypes, CompactNumbers
  <2> QED BY <1>1, <2>8, <2>9, <2>10 DEF CompactInv, CompactTypes, CompactStored
<1>4. CASE c.outcome # "ok"
  <2>1. pl_saveError' = TRUE /\ Compact!Saved(c) /\ UNCHANGED pl_listLoading
    BY <1>4 DEF Compact!SaveAnswered
  <2>2. CompactCalls' /\ pl_saving' = FALSE /\ pl_sent' \in Nat
    BY <1>2, <2>1, CompactSaveOver
  <2>3. CompactFlags'
    BY <1>1, <2>1, <2>2 DEF CompactInv, CompactTypes, CompactFlags
  <2>4. CompactNumbers'
    BY <1>1, <2>2 DEF CompactInv, CompactTypes, CompactNumbers
  <2> QED BY <1>1, <2>2, <2>3, <2>4 DEF CompactInv, CompactTypes, CompactStored
<1> QED BY <1>3, <1>4

\* The list has come, and the save that asked for it is over.
LEMMA CompactListed ==
  ASSUME CompactInv, NEW c \in pl_calls, c.op = "list", Compact!ListAnswered(c),
         UNCHANGED <<pl_store, pl_fresh>>
  PROVE  CompactInv'
<1>1. pl_listLoading' = FALSE /\ UNCHANGED <<pl_programId, pl_steps, pl_run, pl_runError>>
  BY DEF Compact!ListAnswered, Compact!draft
<1>2. CompactStored'
  <2>1. pl_savedPrograms' \subseteq DOMAIN pl_store
    BY CompactOthers DEF Compact!ListAnswered, CompactInv, CompactTypes, CompactStored
  <2> QED BY <2>1 DEF CompactInv, CompactTypes, CompactStored
<1>3. CASE c.id = 0
  <2>1. pl_calls' = pl_calls \ {c} /\ UNCHANGED <<pl_saving, pl_saveError, pl_sent>>
    BY <1>3 DEF Compact!ListAnswered, Compact!End
  <2>2. CompactCalls'
    BY <2>1, CompactEnds DEF CompactInv, CompactCalls
  <2>3. CompactFlags'
    BY <1>1, <2>1 DEF CompactInv, CompactTypes, CompactFlags
  <2>4. CompactNumbers'
    BY <1>1, <2>1 DEF CompactInv, CompactTypes, CompactNumbers
  <2> QED BY <1>1, <1>2, <2>2, <2>3, <2>4 DEF CompactInv, CompactTypes
<1>4. CASE c.id # 0
  <2>1. pl_saveError' = (pl_saveError \/ c.outcome = "lost") /\ Compact!Saved(c)
    BY <1>4 DEF Compact!ListAnswered
  <2>2. CompactCalls' /\ pl_saving' = FALSE /\ pl_sent' \in Nat
    BY <1>4, <2>1, CompactSaveOver DEF CompactSaves
  <2>3. pl_saveError' \in BOOLEAN
    BY <2>1
  <2>4. CompactFlags'
    BY <1>1, <2>2, <2>3 DEF CompactInv, CompactTypes, CompactFlags
  <2>5. CompactNumbers'
    BY <1>1, <2>2 DEF CompactInv, CompactTypes, CompactNumbers
  <2> QED BY <1>1, <1>2, <2>2, <2>4, <2>5 DEF CompactInv, CompactTypes
<1> QED BY <1>3, <1>4

\* The answer of a run: the run is shown, or that it failed.
LEMMA CompactRan ==
  ASSUME CompactInv, NEW c \in pl_calls, Compact!RunAnswered(c), UNCHANGED <<pl_store, pl_fresh>>
  PROVE  CompactInv'
<1>1. /\ pl_calls' = pl_calls \ {c}
      /\ UNCHANGED <<pl_programId, pl_steps, pl_saving, pl_saveError, pl_listLoading,
                     pl_savedPrograms, pl_sent>>
  BY DEF Compact!RunAnswered, Compact!End
<1>2. pl_run' \in 0..pl_MaxPrograms
  BY CompactOthers DEF Compact!RunAnswered, CompactInv, CompactTypes, CompactNumbers
<1>3. pl_runError' \in BOOLEAN
  <2>1. pl_runError' = (pl_runError \/ c.outcome = "refused")
    BY DEF Compact!RunAnswered
  <2> QED BY <2>1
<1>4. CompactFlags'
  BY <1>1, <1>3 DEF CompactInv, CompactTypes, CompactFlags
<1>5. CompactNumbers'
  BY <1>1, <1>2 DEF CompactInv, CompactTypes, CompactNumbers
<1>6. CompactCalls'
  BY <1>1, CompactEnds DEF CompactInv, CompactCalls
<1> QED BY <1>1, <1>4, <1>5, <1>6 DEF CompactInv, CompactTypes, CompactStored

\* Every step keeps it.
LEMMA CompactNext ==
  ASSUME CompactInv, [Compact!Next]_(Compact!vars)
  PROVE  CompactInv'
<1>1. CASE Compact!Answer
  <2>1. PICK c \in pl_calls :
          /\ c.stage = "answered"
          /\ \/ c.op = "list" /\ Compact!ListAnswered(c)
             \/ c.op = "load" /\ Compact!LoadAnswered(c)
             \/ c.op = "save" /\ Compact!SaveAnswered(c)
             \/ c.op = "run" /\ Compact!RunAnswered(c)
    BY <1>1 DEF Compact!Answer
  <2>2. UNCHANGED <<pl_store, pl_fresh>>
    BY <1>1 DEF Compact!Answer
  <2> QED BY <2>1, <2>2, CompactListed, CompactLoaded, CompactSaved, CompactRan
<1>2. CASE UNCHANGED Compact!vars
  BY <1>2 DEF Compact!vars, CompactInv, CompactTypes, CompactFlags, CompactNumbers, CompactStored,
     CompactCalls
<1> QED BY <1>1, <1>2, CompactButtons, CompactEdits, CompactServe DEF Compact!Next

\* A save that is over asks for a run: of what it saved, or its error shows.
LEMMA CompactRuns ==
  ASSUME CompactInv, [Compact!Next]_(Compact!vars)
  PROVE  [\A c \in pl_calls' \ pl_calls :
            c.op = "run" /\ c.stage = "sent" =>
              \/ pl_saveError'
              \/ c.id \in DOMAIN pl_store
                 /\ pl_store[c.id] = Compact!programPayload(c.steps)]_(Compact!vars)
<1> SUFFICES ASSUME Compact!Next, NEW d \in pl_calls' \ pl_calls, d.op = "run", d.stage = "sent"
             PROVE  \/ pl_saveError'
                    \/ d.id \in DOMAIN pl_store
                       /\ pl_store[d.id] = Compact!programPayload(d.steps)
  OBVIOUS
<1>1. ~(\/ Compact!newProgram \/ Compact!addStep \/ Compact!StepRow \/ Compact!RunClosed)
  BY DEF Compact!newProgram, Compact!addStep, Compact!StepRow, Compact!KindSelector,
     Compact!StepFields, Compact!RowButtons, Compact!updateStep, Compact!removeStep,
     Compact!moveStep, Compact!Edit, Compact!RunClosed
<1>2. ~(\/ Compact!loadProgram \/ Compact!SaveButton \/ Compact!handleRun)
  BY DEF Compact!loadProgram, Compact!SaveButton, Compact!handleRun, Compact!handleSave,
     Compact!brainFetch
<1>3. ~Compact!Serve
  <2> SUFFICES ASSUME Compact!Serve PROVE FALSE
    OBVIOUS
  <2>1. PICK c \in pl_calls, outcome \in {"ok", "refused", "lost"}, reached \in BOOLEAN :
          pl_calls' = (pl_calls \ {c}) \union
            {[c EXCEPT !.stage = "answered", !.outcome = outcome,
                       !.list = IF c.op = "list" THEN DOMAIN pl_store ELSE {},
                       !.nodes = IF c.op = "load" /\ outcome = "ok" THEN pl_store[c.id] ELSE <<>>]}
    BY DEF Compact!Serve
  <2>2. c \in CompactCall
    BY DEF CompactInv, CompactCalls, CompactCallOK
  <2>3. PICK names : names = IF c.op = "list" THEN DOMAIN pl_store ELSE {}
    OBVIOUS
  <2>4. PICK nodes : nodes = IF c.op = "load" /\ outcome = "ok" THEN pl_store[c.id] ELSE <<>>
    OBVIOUS
  <2>5. d = [c EXCEPT !.stage = "answered", !.outcome = outcome, !.list = names, !.nodes = nodes]
    BY <2>1, <2>3, <2>4
  <2>6. d.stage = "answered"
    BY <2>2, <2>5 DEF CompactCall
  <2> QED BY <2>6
<1>4. PICK c \in pl_calls :
        \/ c.op = "list" /\ Compact!ListAnswered(c)
        \/ c.op = "load" /\ Compact!LoadAnswered(c)
        \/ c.op = "save" /\ Compact!SaveAnswered(c)
        \/ c.op = "run" /\ Compact!RunAnswered(c)
  <2>1. Compact!Answer
    BY <1>1, <1>2, <1>3 DEF Compact!Next
  <2> QED BY <2>1 DEF Compact!Answer
<1>5. CASE Compact!LoadAnswered(c) \/ Compact!RunAnswered(c)
  BY <1>5 DEF Compact!LoadAnswered, Compact!RunAnswered, Compact!End
<1>6. CASE c.op = "save" /\ Compact!SaveAnswered(c)
  <2>1. CASE c.outcome = "ok"
    BY <1>6, <2>1 DEF Compact!SaveAnswered, Compact!brainFetch
  <2>2. CASE c.outcome # "ok"
    BY <1>6, <2>2 DEF Compact!SaveAnswered
  <2> QED BY <2>1, <2>2
<1>7. CASE c.op = "list" /\ Compact!ListAnswered(c)
  <2>1. c.id # 0
    BY <1>7 DEF Compact!ListAnswered, Compact!End
  <2>2. c.thenRun /\ d = CompactAsk("run", c.id, c.steps, FALSE, pl_sent + 1)
    BY <1>7, <2>1
       DEF Compact!ListAnswered, Compact!Saved, Compact!brainFetch, Compact!End, CompactAsk
  <2>3. d.id = c.id /\ d.steps = c.steps
    BY <2>2 DEF CompactAsk
  <2>4. CompactHolds(pl_store, c)
    BY <1>7, <2>1 DEF CompactInv, CompactCalls, CompactSettled
  <2> QED BY <2>3, <2>4 DEF CompactHolds
<1> QED BY <1>4, <1>5, <1>6, <1>7

\* It holds what the runs check.
LEMMA CompactShows ==
  ASSUME CompactInv
  PROVE  Compact!TypeOK
<1>1. {pl_saving, pl_saveError, pl_runError, pl_listLoading} \subseteq BOOLEAN
  BY DEF CompactInv, CompactTypes, CompactFlags
<1>2. pl_steps \in Seq(Compact!Step) /\ Len(pl_steps) <= pl_MaxSteps
  BY DEF CompactInv, CompactTypes, CompactDraft
<1> QED BY <1>1, <1>2
        DEF CompactInv, CompactTypes, CompactNumbers, CompactStored, CompactId, Compact!TypeOK
-----------------------------------------------------------------------------
(* The G-code page (GCode)                                                 *)

\* What is assumed of its constants.
LEMMA GcodeBounds ==
  gc_MaxFiles \in Nat /\ gc_MaxCalls \in Nat /\ gc_MaxInFlight \in Nat
  BY ProgramPagesAssumption

GcodeShown == Gcode!Source \union {Gcode!None}
GcodeErrors == {"generate", "upload", "preview", "translate", "run"}

GcodeInv ==
  /\ Gcode!TypeOK
  /\ \A c \in gc_calls : c.src \in GcodeShown
  /\ Gcode!RunShowsItsSteps

\* It holds of the first state.
LEMMA GcodeFirst ==
  ASSUME Gcode!Init
  PROVE  GcodeInv
<1>1. \A c \in gc_calls : c.src \in GcodeShown
  BY DEF Gcode!Init, GcodeShown
<1>2. {gc_generating, gc_uploading, gc_previewing, gc_translating, gc_selectedSample} \subseteq BOOLEAN
  BY DEF Gcode!Init
<1>3. /\ {gc_file, gc_fileId, gc_runSteps, gc_runOf} \subseteq GcodeShown
      /\ {gc_preview, gc_result} \subseteq GcodeShown /\ gc_errors = {} /\ gc_runOf = Gcode!None
  BY DEF Gcode!Init, GcodeShown
<1> QED BY <1>1, <1>2, <1>3 DEF GcodeInv, Gcode!TypeOK, Gcode!RunShowsItsSteps, GcodeShown

\* A request: of the chosen file, the stored one, the sample or the program shown.
LEMMA GcodeAsks ==
  ASSUME GcodeInv, Gcode!SampleCard \/ Gcode!UploadCard \/ Gcode!Actions \/ Gcode!RunClosed
  PROVE  GcodeInv'
<1> USE DEF Gcode!flags, Gcode!shown
<1>1. ASSUME NEW op, NEW src \in GcodeShown, Gcode!Send(op, src)
      PROVE  \A c \in gc_calls' : c.src \in GcodeShown
  <2>1. PICK r : r = [op |-> op, src |-> src, n |-> gc_sent + 1]
    OBVIOUS
  <2>2. gc_calls' = gc_calls \union {r} /\ r.src = src
    BY <1>1, <2>1 DEF Gcode!Send
  <2> QED BY <1>1, <2>2 DEF GcodeInv
<1>2. /\ {gc_file, gc_fileId, gc_runSteps, gc_runOf} \subseteq GcodeShown
      /\ {gc_preview, gc_result} \subseteq GcodeShown /\ gc_errors \subseteq GcodeErrors
      /\ Gcode!None \in GcodeShown /\ Gcode!Sample \in GcodeShown
  BY GcodeBounds DEF GcodeInv, Gcode!TypeOK, GcodeShown, GcodeErrors, Gcode!Source, Gcode!Sample
<1>3. {gc_generating, gc_uploading, gc_previewing, gc_translating, gc_selectedSample} \subseteq BOOLEAN
  BY DEF GcodeInv, Gcode!TypeOK
<1>4. ASSUME UNCHANGED <<gc_selectedSample, gc_file, gc_fileId, gc_preview, gc_result, gc_runOf, gc_runSteps>>,
             {gc_generating', gc_uploading', gc_previewing', gc_translating'} \subseteq BOOLEAN,
             gc_errors' \subseteq GcodeErrors, \A c \in gc_calls' : c.src \in GcodeShown
      PROVE  GcodeInv'
  BY <1>2, <1>3, <1>4 DEF GcodeInv, Gcode!TypeOK, Gcode!RunShowsItsSteps, GcodeErrors
<1>5. CASE Gcode!SampleCard
  <2>1. /\ Gcode!Send("generate", Gcode!Sample) /\ gc_generating' = TRUE
        /\ gc_errors' = gc_errors \ {"generate"}
        /\ UNCHANGED <<gc_selectedSample, gc_uploading, gc_previewing, gc_translating, gc_file,
             gc_fileId, gc_preview, gc_result, gc_runOf, gc_runSteps>>
    BY <1>5 DEF Gcode!SampleCard, Gcode!handleGenerateSample, Gcode!generateGcodeSample
  <2>2. {gc_generating', gc_uploading', gc_previewing', gc_translating'} \subseteq BOOLEAN
    BY <1>3, <2>1
  <2>3. \A c \in gc_calls' : c.src \in GcodeShown
    BY <1>1, <1>2, <2>1
  <2> QED BY <1>2, <1>4, <2>1, <2>2, <2>3
<1>6. CASE Gcode!handleFileChange
  <2>1. /\ gc_file' \in 1..gc_MaxFiles \union {Gcode!None}
        /\ gc_fileId' = Gcode!None /\ gc_preview' = Gcode!None /\ gc_result' = Gcode!None
        /\ gc_runOf' = Gcode!None /\ gc_errors' \subseteq gc_errors
        /\ UNCHANGED <<gc_selectedSample, gc_runSteps, gc_generating, gc_uploading, gc_previewing,
             gc_translating, gc_calls, gc_sent>>
    BY <1>6 DEF Gcode!handleFileChange
  <2>2. gc_file' \in GcodeShown
    BY <2>1 DEF GcodeShown, Gcode!Source
  <2> QED BY <1>2, <1>3, <2>1, <2>2 DEF GcodeInv, Gcode!TypeOK, Gcode!RunShowsItsSteps, GcodeShown, GcodeErrors
<1>7. CASE Gcode!handleUpload
  <2>1. /\ Gcode!Send("upload", gc_file) /\ gc_uploading' = TRUE
        /\ gc_errors' = gc_errors \ {"upload"}
        /\ UNCHANGED <<gc_selectedSample, gc_generating, gc_previewing, gc_translating, gc_file,
             gc_fileId, gc_preview, gc_result, gc_runOf, gc_runSteps>>
    BY <1>7 DEF Gcode!handleUpload, Gcode!uploadGcodeFile
  <2>2. {gc_generating', gc_uploading', gc_previewing', gc_translating'} \subseteq BOOLEAN
    BY <1>3, <2>1
  <2>3. \A c \in gc_calls' : c.src \in GcodeShown
    BY <1>1, <1>2, <2>1
  <2> QED BY <1>2, <1>4, <2>1, <2>2, <2>3
<1>8. CASE Gcode!handlePreview
  <2>1. /\ Gcode!Send("preview", gc_fileId) /\ gc_previewing' = TRUE
        /\ gc_errors' = gc_errors \ {"preview"}
        /\ UNCHANGED <<gc_selectedSample, gc_generating, gc_uploading, gc_translating, gc_file,
             gc_fileId, gc_preview, gc_result, gc_runOf, gc_runSteps>>
    BY <1>8 DEF Gcode!handlePreview, Gcode!previewGcode
  <2>2. {gc_generating', gc_uploading', gc_previewing', gc_translating'} \subseteq BOOLEAN
    BY <1>3, <2>1
  <2>3. \A c \in gc_calls' : c.src \in GcodeShown
    BY <1>1, <1>2, <2>1
  <2> QED BY <1>2, <1>4, <2>1, <2>2, <2>3
<1>9. CASE Gcode!handleTranslate
  <2>1. /\ Gcode!Send("translate", gc_fileId) /\ gc_translating' = TRUE
        /\ gc_errors' = gc_errors \ {"translate"}
        /\ UNCHANGED <<gc_selectedSample, gc_generating, gc_uploading, gc_previewing, gc_file,
             gc_fileId, gc_preview, gc_result, gc_runOf, gc_runSteps>>
    BY <1>9 DEF Gcode!handleTranslate, Gcode!translateGcode
  <2>2. {gc_generating', gc_uploading', gc_previewing', gc_translating'} \subseteq BOOLEAN
    BY <1>3, <2>1
  <2>3. \A c \in gc_calls' : c.src \in GcodeShown
    BY <1>1, <1>2, <2>1
  <2> QED BY <1>2, <1>4, <2>1, <2>2, <2>3
<1>10. CASE Gcode!handleRun
  <2>1. /\ Gcode!Send("run", gc_result) /\ gc_errors' = gc_errors \ {"run"}
        /\ UNCHANGED <<gc_selectedSample, gc_generating, gc_uploading, gc_previewing, gc_translating,
             gc_file, gc_fileId, gc_preview, gc_result, gc_runOf, gc_runSteps>>
    BY <1>10 DEF Gcode!handleRun
  <2>2. {gc_generating', gc_uploading', gc_previewing', gc_translating'} \subseteq BOOLEAN
    BY <1>3, <2>1
  <2>3. \A c \in gc_calls' : c.src \in GcodeShown
    BY <1>1, <1>2, <2>1
  <2> QED BY <1>2, <1>4, <2>1, <2>2, <2>3
<1>11. CASE Gcode!RunClosed
  <2>1. /\ gc_runOf' = Gcode!None
        /\ UNCHANGED <<gc_selectedSample, gc_file, gc_fileId, gc_preview, gc_result, gc_runSteps,
             gc_generating, gc_uploading, gc_previewing, gc_translating, gc_errors, gc_calls, gc_sent>>
    BY <1>11 DEF Gcode!RunClosed
  <2> QED BY <2>1 DEF GcodeInv, Gcode!TypeOK, Gcode!RunShowsItsSteps
<1> QED BY <1>5, <1>6, <1>7, <1>8, <1>9, <1>10, <1>11 DEF Gcode!UploadCard, Gcode!Actions

\* Each answer carries the source of its request; that of a run sets run and steps.
LEMMA GcodeAnswers ==
  ASSUME GcodeInv, Gcode!Answer
  PROVE  GcodeInv'
<1> USE DEF Gcode!flags, Gcode!shown
<1>1. PICK c \in gc_calls, ok \in BOOLEAN :
        /\ gc_calls' = gc_calls \ {c}
        /\ \/ Gcode!SamplesAnswered(c, ok) \/ Gcode!GenerateAnswered(c, ok)
           \/ Gcode!UploadAnswered(c, ok) \/ Gcode!PreviewAnswered(c, ok)
           \/ Gcode!TranslateAnswered(c, ok) \/ Gcode!RunAnswered(c, ok)
  BY DEF Gcode!Answer
<1>2. /\ {gc_file, gc_fileId, gc_runSteps, gc_runOf} \subseteq GcodeShown
      /\ {gc_preview, gc_result} \subseteq GcodeShown /\ gc_errors \subseteq GcodeErrors
      /\ c.src \in GcodeShown
  BY DEF GcodeInv, Gcode!TypeOK, GcodeShown, GcodeErrors
<1>3. {gc_generating, gc_uploading, gc_previewing, gc_translating, gc_selectedSample} \subseteq BOOLEAN
  BY DEF GcodeInv, Gcode!TypeOK
<1>4. \A d \in gc_calls' : d.src \in GcodeShown
  BY <1>1 DEF GcodeInv
<1>5. gc_errors' \subseteq GcodeErrors
  BY <1>1, <1>2 DEF Gcode!SamplesAnswered, Gcode!GenerateAnswered, Gcode!UploadAnswered,
     Gcode!PreviewAnswered, Gcode!TranslateAnswered, Gcode!RunAnswered, Gcode!Fails, GcodeErrors
<1>6. {gc_generating', gc_uploading', gc_previewing', gc_translating', gc_selectedSample'} \subseteq BOOLEAN
  <2>1. gc_selectedSample' \in BOOLEAN
    BY <1>1, <1>3 DEF Gcode!SamplesAnswered, Gcode!GenerateAnswered, Gcode!UploadAnswered,
       Gcode!PreviewAnswered, Gcode!TranslateAnswered, Gcode!RunAnswered
  <2>2. gc_generating' \in BOOLEAN /\ gc_uploading' \in BOOLEAN
    BY <1>1, <1>3 DEF Gcode!SamplesAnswered, Gcode!GenerateAnswered, Gcode!UploadAnswered,
       Gcode!PreviewAnswered, Gcode!TranslateAnswered, Gcode!RunAnswered
  <2>3. gc_previewing' \in BOOLEAN /\ gc_translating' \in BOOLEAN
    BY <1>1, <1>3 DEF Gcode!SamplesAnswered, Gcode!GenerateAnswered, Gcode!UploadAnswered,
       Gcode!PreviewAnswered, Gcode!TranslateAnswered, Gcode!RunAnswered
  <2> QED BY <2>1, <2>2, <2>3
<1>7. /\ gc_file' = gc_file
      /\ gc_fileId' \in {gc_fileId, c.src} /\ gc_preview' \in {gc_preview, c.src}
      /\ gc_result' \in {gc_result, c.src}
      /\ \/ gc_runOf' = gc_runOf /\ gc_runSteps' = gc_runSteps
         \/ gc_runOf' = c.src /\ gc_runSteps' = c.src
  BY <1>1 DEF Gcode!SamplesAnswered, Gcode!GenerateAnswered, Gcode!UploadAnswered,
     Gcode!PreviewAnswered, Gcode!TranslateAnswered, Gcode!RunAnswered, Gcode!Shows
<1>8. Gcode!TypeOK'
  BY <1>2, <1>5, <1>6, <1>7 DEF Gcode!TypeOK, GcodeShown, GcodeErrors
<1>9. Gcode!RunShowsItsSteps'
  BY <1>7 DEF GcodeInv, Gcode!RunShowsItsSteps
<1> QED BY <1>4, <1>8, <1>9 DEF GcodeInv

\* Every step keeps it.
LEMMA GcodeNext ==
  ASSUME GcodeInv, [Gcode!Next]_(Gcode!vars)
  PROVE  GcodeInv'
<1>1. CASE UNCHANGED Gcode!vars
  BY <1>1 DEF Gcode!vars, GcodeInv, Gcode!TypeOK, Gcode!RunShowsItsSteps
<1> QED BY <1>1, GcodeAsks, GcodeAnswers DEF Gcode!Next

\* It holds what the runs check.
LEMMA GcodeShows ==
  ASSUME GcodeInv
  PROVE  Gcode!TypeOK /\ Gcode!RunShowsItsSteps
BY DEF GcodeInv
-----------------------------------------------------------------------------
(* The preview of a path (PathPreview)                                     *)

\* What is assumed of its constants.
LEMMA PreviewBounds ==
  pp_MaxPoses \in Nat
  BY ProgramPagesAssumption

\* Every non-empty set of naturals has a least element.
LEMMA PreviewLeast ==
  ASSUME NEW T, T \subseteq Nat, T # {}
  PROVE  \E m \in T : \A k \in T : m <= k
<1> DEFINE R == OpToRel(<, Nat)
<1>1. IsWellFoundedOn(R, Nat)
  BY NatLessThanWellFounded
<1>2. \A k, m \in Nat : k < m => <<k, m>> \in R
  BY Zenon DEF OpToRel
<1> HIDE DEF R
<1>3. PICK m \in T : \A k \in T : ~(<<k, m>> \in R)
  BY <1>1, WFMin, Zenon
<1>4. \A k \in T : k \in Nat /\ m \in Nat /\ ~(k < m)
  BY <1>2, <1>3, Zenon
<1> QED BY <1>4

\* The lines drawn so far end where the next stretch begins: the moves they
\* draw are those between neighbouring poses before it, each in one line.
PreviewInv ==
  /\ pp_motion_types \in Seq(pp_MotionType)
  /\ pp_i \in 1 .. Len(pp_motion_types) + 1
  /\ pp_segments \in Seq([type : pp_MotionType, pts : Seq(Nat)])
  /\ \A a \in DOMAIN pp_segments : \A e \in Preview!Edges(pp_segments[a]) :
       e[2] \in 2 .. pp_i - 1
  /\ Preview!EachMoveDrawnOnce

\* It holds of the first state.
LEMMA PreviewFirst == Preview!Init => PreviewInv
<1> SUFFICES ASSUME Preview!Init PROVE PreviewInv
  OBVIOUS
<1>1. pp_segments = <<>> /\ pp_i = 1
  BY DEF Preview!Init
<1>2. pp_motion_types \in Seq(pp_MotionType)
  <2>1. PICK n \in 0 .. pp_MaxPoses : pp_motion_types \in [1 .. n -> pp_MotionType]
    BY DEF Preview!Init, Preview!BoundedSeq, Preview!SeqOf
  <2>2. n \in Nat
    BY <2>1, PreviewBounds
  <2> QED BY <2>1, <2>2, SeqDef
<1>3. Len(pp_motion_types) \in Nat
  BY <1>2
<1> QED BY <1>1, <1>2, <1>3 DEF PreviewInv, Preview!EachMoveDrawnOnce

\* There is a place where the stretch ends.
LEMMA PreviewStretch ==
  ASSUME PreviewInv, pp_i <= Len(pp_motion_types)
  PROVE  /\ Preview!StretchEnd \in pp_i + 1 .. Len(pp_motion_types) + 1
         /\ \A k \in pp_i .. Preview!StretchEnd - 1 : pp_motion_types[k] = pp_motion_types[pp_i]
<1> DEFINE L == Len(pp_motion_types)
           Ends == {j \in pp_i + 1 .. L + 1 :
                      j = L + 1 \/ pp_motion_types[j] # pp_motion_types[pp_i]}
<1>1. pp_i \in Nat /\ L \in Nat /\ pp_i >= 1 /\ pp_i <= L
  BY DEF PreviewInv
<1>2. Ends \subseteq Nat /\ L + 1 \in Ends
  BY <1>1
<1>3. PICK j \in Ends : \A k \in Ends : j <= k
  BY <1>2, PreviewLeast
<1>4. j \in pp_i + 1 .. L + 1 /\ (j <= L => pp_motion_types[j] # pp_motion_types[pp_i])
  BY <1>1, <1>3
<1>5. ASSUME NEW k \in pp_i .. j - 1 PROVE pp_motion_types[k] = pp_motion_types[pp_i]
  <2>1. CASE k = pp_i
    BY <2>1
  <2>2. CASE k # pp_i
    <3>1. k \in pp_i + 1 .. L + 1 /\ k < j
      BY <1>1, <1>4, <2>2
    <3>2. k \notin Ends
      BY <1>1, <1>3, <3>1, <1>4
    <3> QED BY <3>1, <3>2
  <2> QED BY <2>1, <2>2
<1>6. \E m \in pp_i + 1 .. L + 1 :
        /\ \A k \in pp_i .. m - 1 : pp_motion_types[k] = pp_motion_types[pp_i]
        /\ m <= L => pp_motion_types[m] # pp_motion_types[pp_i]
  BY <1>4, <1>5
<1> QED BY <1>6 DEF Preview!StretchEnd

\* The moves a new line draws: those to its poses but its first.
LEMMA PreviewPoints ==
  ASSUME NEW j \in Nat, pp_i \in Nat, 1 <= pp_i, pp_i < j
  PROVE  /\ Preview!points(j) \in Seq(Nat)
         /\ \A t : Preview!Edges([type |-> t, pts |-> Preview!points(j)])
                     = {<<k - 1, k>> : k \in {m \in pp_i .. j - 1 : m >= 2}}
<1> DEFINE b == IF pp_i > 1 THEN pp_i - 1 ELSE 1
           P == Preview!points(j)
<1>1. P \in Seq(Nat) /\ Len(P) = j - b /\ \A k \in 1 .. j - b : P[k] = b + k - 1
  <2> DEFINE S == [k \in 1 .. (j - pp_i) |-> pp_i + k - 1]
  <2>1. j - pp_i \in Nat /\ \A k \in 1 .. (j - pp_i) : pp_i + k - 1 \in Nat
    OBVIOUS
  <2>2. S \in Seq(Nat) /\ Len(S) = j - pp_i
    <3>1. S \in [1 .. (j - pp_i) -> Nat]
      BY <2>1
    <3> QED BY <2>1, <3>1, SeqDef, LenProperties
  <2>3. CASE pp_i = 1
    <3>1. P = <<>> \o S
      BY <2>3 DEF Preview!points
    <3>2. P = S
      BY <3>1, <2>2, ConcatEmptySeq
    <3> QED BY <2>2, <2>3, <3>2
  <2>4. CASE pp_i > 1
    <3> HIDE DEF S
    <3>1. P = <<pp_i - 1>> \o S
      BY <2>4 DEF Preview!points, S
    <3>2. pp_i - 1 \in Nat
      BY <2>4
    <3>3. \A k \in 1 .. Len(S) : S[k] = pp_i + k - 1
      BY <2>2 DEF S
    <3>4. b = pp_i - 1
      BY <2>4
    <3> HIDE DEF P, b
    <3>5. P \in Seq(Nat) /\ Len(P) = j - b
      <4>1. <<pp_i - 1>> \in Seq(Nat) /\ Len(<<pp_i - 1>>) = 1
        BY <3>2
      <4>2. P \in Seq(Nat) /\ Len(P) = 1 + Len(S)
        BY <2>2, <3>1, <4>1, ConcatProperties
      <4> QED BY <4>2, <2>2, <3>4
    <3>6. ASSUME NEW k \in 1 .. j - b PROVE P[k] = b + k - 1
      <4>1. CASE k = 1
        BY <2>2, <3>1, <3>2, <3>4, <4>1
      <4>2. CASE k # 1
        <5>1. P[k] = S[k - 1] /\ k - 1 \in 1 .. Len(S)
          BY <2>2, <3>1, <3>2, <3>4, <4>2
        <5> QED BY <3>3, <3>4, <5>1
      <4> QED BY <4>1, <4>2
    <3> QED BY <3>5, <3>6
  <2> QED BY <2>3, <2>4
<1> HIDE DEF P
<1>2. b \in Nat /\ b < j /\ 1 <= b
  OBVIOUS
<1>3. ASSUME NEW t
      PROVE Preview!Edges([type |-> t, pts |-> P]) = {<<k - 1, k>> : k \in {m \in pp_i .. j - 1 : m >= 2}}
  <2>1. Preview!Edges([type |-> t, pts |-> P]) = {<<P[k], P[k + 1]>> : k \in 1 .. Len(P) - 1}
    BY DEF Preview!Edges
  <2>2. ASSUME NEW k \in 1 .. Len(P) - 1
        PROVE  \E m \in {n \in pp_i .. j - 1 : n >= 2} : <<P[k], P[k + 1]>> = <<m - 1, m>>
    <3>1. P[k] = b + k - 1 /\ P[k + 1] = b + k
      BY <1>1, <1>2
    <3>2. b + k \in {n \in pp_i .. j - 1 : n >= 2}
      BY <1>1, <1>2
    <3>3. b + k - 1 = (b + k) - 1
      BY <1>2
    <3> WITNESS b + k \in {n \in pp_i .. j - 1 : n >= 2}
    <3> QED BY <3>1, <3>3
  <2>3. ASSUME NEW m \in {n \in pp_i .. j - 1 : n >= 2}
        PROVE  \E k \in 1 .. Len(P) - 1 : <<P[k], P[k + 1]>> = <<m - 1, m>>
    <3>1. m - b \in 1 .. Len(P) - 1
      BY <1>1, <1>2
    <3>2. P[m - b] = m - 1 /\ P[m - b + 1] = m
      BY <1>1, <1>2, <3>1
    <3> QED BY <3>1, <3>2
  <2>4. {<<P[k], P[k + 1]>> : k \in 1 .. Len(P) - 1}
          = {<<k - 1, k>> : k \in {m \in pp_i .. j - 1 : m >= 2}}
    <3> DEFINE K == 1 .. Len(P) - 1
               M == {m \in pp_i .. j - 1 : m >= 2}
    <3>1. \A k \in K : \E m \in M : <<P[k], P[k + 1]>> = <<m - 1, m>>
      BY <2>2, Zenon
    <3>2. \A m \in M : \E k \in K : <<P[k], P[k + 1]>> = <<m - 1, m>>
      BY <2>3, Zenon
    <3> HIDE DEF K, M
    <3>3. {<<P[k], P[k + 1]>> : k \in K} = {<<k - 1, k>> : k \in M}
      <4> DEFINE A == {<<P[k], P[k + 1]>> : k \in K}
                 B == {<<k - 1, k>> : k \in M}
      <4>1. \A e \in A : e \in B
        BY <3>1, Zenon
      <4>2. ASSUME NEW e \in B PROVE e \in A
        <5>1. PICK m \in M : e = <<m - 1, m>>
          OBVIOUS
        <5>2. PICK k \in K : <<P[k], P[k + 1]>> = <<m - 1, m>>
          BY <3>2
        <5> QED BY <5>1, <5>2
      <4> HIDE DEF A, B
      <4>3. A = B
        BY <4>1, <4>2
      <4> QED BY <4>3 DEF A, B
    <3> QED BY <3>3, Zenon DEF K, M
  <2> QED BY <2>1, <2>4, Zenon
<1> QED BY <1>1, <1>3 DEF P

\* Every step keeps it.
LEMMA PreviewNext == PreviewInv /\ [Preview!Next]_(Preview!vars) => PreviewInv'
<1> SUFFICES ASSUME PreviewInv, [Preview!Next]_(Preview!vars) PROVE PreviewInv'
  OBVIOUS
<1>1. CASE UNCHANGED Preview!vars
  BY <1>1 DEF PreviewInv, Preview!vars, Preview!EachMoveDrawnOnce, Preview!ToSet, Preview!Edges
<1>2. CASE Preview!DrawStretch
  <2> DEFINE j == Preview!StretchEnd
             s == [type |-> pp_motion_types[pp_i], pts |-> Preview!points(j)]
             N == Len(pp_segments)
  <2>1. /\ pp_i <= Len(pp_motion_types) /\ pp_segments' = Append(pp_segments, s)
        /\ pp_i' = j /\ pp_motion_types' = pp_motion_types
    BY <1>2 DEF Preview!DrawStretch
  <2>2. pp_i \in Nat /\ 1 <= pp_i /\ Len(pp_motion_types) \in Nat
    BY DEF PreviewInv
  <2>3. /\ j \in pp_i + 1 .. Len(pp_motion_types) + 1
        /\ \A k \in pp_i .. j - 1 : pp_motion_types[k] = pp_motion_types[pp_i]
    BY <2>1, PreviewStretch
  <2> HIDE DEF j
  <2>4. /\ Preview!points(j) \in Seq(Nat)
        /\ Preview!Edges(s) = {<<k - 1, k>> : k \in {m \in pp_i .. j - 1 : m >= 2}}
    <3>1. j \in Nat /\ pp_i < j
      BY <2>2, <2>3
    <3> QED BY <2>2, <3>1, PreviewPoints
  <2>5. s \in [type : pp_MotionType, pts : Seq(Nat)]
    <3>1. pp_motion_types[pp_i] \in pp_MotionType
      BY <2>1, <2>2 DEF PreviewInv
    <3> QED BY <2>4, <3>1
  <2> HIDE DEF s
  <2>6. /\ pp_segments' \in Seq([type : pp_MotionType, pts : Seq(Nat)])
        /\ DOMAIN pp_segments = 1 .. N /\ N \in Nat
        /\ DOMAIN pp_segments' = 1 .. N + 1 /\ pp_segments'[N + 1] = s
        /\ \A a \in 1 .. N : pp_segments'[a] = pp_segments[a]
    BY <2>1, <2>5 DEF PreviewInv
  <2>7. ASSUME NEW a \in DOMAIN pp_segments', NEW e \in Preview!Edges(pp_segments'[a])
        PROVE  e[2] \in 2 .. pp_i' - 1
    <3>1. CASE a = N + 1
      <4>1. PICK k \in {m \in pp_i .. j - 1 : m >= 2} : e = <<k - 1, k>>
        BY <2>4, <2>6, <3>1
      <4> QED BY <4>1, <2>1, <2>2, <2>3
    <3>2. CASE a # N + 1
      <4>1. a \in DOMAIN pp_segments /\ e \in Preview!Edges(pp_segments[a])
        BY <2>6, <3>2
      <4>2. e[2] \in 2 .. pp_i - 1
        BY <4>1 DEF PreviewInv
      <4> QED BY <4>2, <2>1, <2>2, <2>3
    <3> QED BY <3>1, <3>2
  <2>8. ASSUME NEW k \in 2 .. pp_i' - 1
        PROVE  /\ \E a \in DOMAIN pp_segments' :
                    /\ pp_segments'[a].type = pp_motion_types[k]
                    /\ <<k - 1, k>> \in Preview!Edges(pp_segments'[a])
               /\ \A a, b \in DOMAIN pp_segments' : a # b =>
                    <<k - 1, k>> \notin
                      Preview!Edges(pp_segments'[a]) \intersect Preview!Edges(pp_segments'[b])
    <3>1. CASE k < pp_i
      <4>1. k \in 2 .. pp_i - 1
        BY <2>2, <3>1
      <4>2. /\ \E r \in Preview!ToSet(pp_segments) :
                 r.type = pp_motion_types[k] /\ <<k - 1, k>> \in Preview!Edges(r)
            /\ \A a, b \in DOMAIN pp_segments : a # b =>
                 <<k - 1, k>> \notin
                   Preview!Edges(pp_segments[a]) \intersect Preview!Edges(pp_segments[b])
        BY <4>1 DEF PreviewInv, Preview!EachMoveDrawnOnce
      <4>3. PICK a \in DOMAIN pp_segments :
              /\ pp_segments[a].type = pp_motion_types[k]
              /\ <<k - 1, k>> \in Preview!Edges(pp_segments[a])
        BY <4>2 DEF Preview!ToSet
      <4>4. <<k - 1, k>> \notin Preview!Edges(s)
        <5>1. ASSUME NEW m \in {n \in pp_i .. j - 1 : n >= 2} PROVE <<k - 1, k>> # <<m - 1, m>>
          BY <3>1, <2>2, <2>3
        <5> QED BY <2>4, <5>1
      <4>5. a \in DOMAIN pp_segments' /\ pp_segments'[a] = pp_segments[a]
        BY <2>6, <4>3
      <4>6. ASSUME NEW c \in DOMAIN pp_segments', NEW d \in DOMAIN pp_segments', c # d
            PROVE  <<k - 1, k>> \notin
                     Preview!Edges(pp_segments'[c]) \intersect Preview!Edges(pp_segments'[d])
        <5>1. CASE c = N + 1 \/ d = N + 1
          BY <5>1, <2>6, <4>4
        <5>2. CASE c # N + 1 /\ d # N + 1
          <6>1. /\ c \in DOMAIN pp_segments /\ d \in DOMAIN pp_segments
                /\ pp_segments'[c] = pp_segments[c] /\ pp_segments'[d] = pp_segments[d]
            BY <5>2, <2>6
          <6> QED BY <6>1, <4>2, <4>6
        <5> QED BY <5>1, <5>2
      <4> QED BY <4>3, <4>5, <4>6
    <3>2. CASE k >= pp_i
      <4>1. k \in {m \in pp_i .. j - 1 : m >= 2}
        BY <2>1, <2>2, <2>3, <3>2
      <4>2. <<k - 1, k>> \in Preview!Edges(s)
        BY <2>4, <4>1
      <4>3. s.type = pp_motion_types[k]
        BY <2>3, <4>1 DEF s
      <4>4. ASSUME NEW a \in DOMAIN pp_segments', a # N + 1
            PROVE  <<k - 1, k>> \notin Preview!Edges(pp_segments'[a])
        <5>1. a \in DOMAIN pp_segments /\ pp_segments'[a] = pp_segments[a]
          BY <2>6, <4>4
        <5>2. \A e \in Preview!Edges(pp_segments[a]) : e[2] \in 2 .. pp_i - 1
          BY <5>1 DEF PreviewInv
        <5>3. <<k - 1, k>>[2] \notin 2 .. pp_i - 1
          BY <2>2, <3>2, <4>1
        <5> QED BY <5>1, <5>2, <5>3
      <4>5. N + 1 \in DOMAIN pp_segments'
        BY <2>6
      <4> QED BY <2>6, <4>2, <4>3, <4>4, <4>5
    <3>3. k < pp_i \/ k >= pp_i
      BY <2>1, <2>2, <2>3
    <3> QED BY <3>1, <3>2, <3>3, Zenon
  <2>9. Preview!EachMoveDrawnOnce'
    <3>1. \A a : Preview!Edges(pp_segments[a])' = Preview!Edges(pp_segments'[a])
      BY DEF Preview!Edges
    <3>2. Preview!ToSet(pp_segments)' = {pp_segments'[a] : a \in DOMAIN pp_segments'}
      BY DEF Preview!ToSet
    <3>3. \A t : Preview!Edges(t)' = Preview!Edges(t)
      BY DEF Preview!Edges
    <3>4. ASSUME NEW k \in 2 .. pp_i' - 1
          PROVE  /\ \E r \in Preview!ToSet(pp_segments)' :
                      r.type = pp_motion_types'[k] /\ <<k - 1, k>> \in Preview!Edges(r)'
                 /\ \A a, b \in DOMAIN pp_segments' : a # b =>
                      <<k - 1, k>> \notin
                        Preview!Edges(pp_segments[a])' \intersect Preview!Edges(pp_segments[b])'
      <4>1. PICK a \in DOMAIN pp_segments' :
              /\ pp_segments'[a].type = pp_motion_types[k]
              /\ <<k - 1, k>> \in Preview!Edges(pp_segments'[a])
        BY <2>8, Zenon
      <4>2. pp_segments'[a] \in Preview!ToSet(pp_segments)'
        BY <3>2, Zenon
      <4>3. \E r \in Preview!ToSet(pp_segments)' :
               r.type = pp_motion_types'[k] /\ <<k - 1, k>> \in Preview!Edges(r)'
        BY <2>1, <3>3, <4>1, <4>2, Zenon
      <4>4. \A c, b \in DOMAIN pp_segments' : c # b =>
              <<k - 1, k>> \notin
                Preview!Edges(pp_segments[c])' \intersect Preview!Edges(pp_segments[b])'
        BY <2>8, <3>1, Zenon
      <4> QED BY <4>3, <4>4
    <3> QED BY <3>4, Zenon DEF Preview!EachMoveDrawnOnce
  <2>10. pp_motion_types' \in Seq(pp_MotionType) /\ pp_i' \in 1 .. Len(pp_motion_types') + 1
    <3>1. pp_motion_types' \in Seq(pp_MotionType)
      BY <2>1 DEF PreviewInv
    <3> QED BY <3>1, <2>1, <2>2, <2>3
  <2>11. \A a \in DOMAIN pp_segments' : \A e \in Preview!Edges(pp_segments[a])' : e[2] \in 2 .. pp_i' - 1
    BY <2>7 DEF Preview!Edges
  <2> QED BY <2>6, <2>9, <2>10, <2>11 DEF PreviewInv, Preview!Edges
<1> QED BY <1>1, <1>2 DEF Preview!Next

\* It holds what the runs check.
LEMMA PreviewShows == ASSUME PreviewInv PROVE Preview!EachMoveDrawnOnce
BY DEF PreviewInv
-----------------------------------------------------------------------------
(* The view of a run (RunView)                                             *)

\* What is assumed of its constants.
LEMMA RunBounds ==
  /\ rv_MaxPrograms \in Nat \ {0} /\ rv_MaxRuns \in Nat /\ rv_MaxSteps \in Nat
  /\ rv_MaxGets \in Nat /\ rv_Queue \in Nat
  BY ProgramPagesAssumption

\* The element put last is the last one.
LEMMA SeqLast ==
  ASSUME NEW S, NEW s \in Seq(S), NEW x \in S
  PROVE  /\ Append(s, x) \in Seq(S) /\ Append(s, x) # <<>>
         /\ Append(s, x)[Len(Append(s, x))] = x
OBVIOUS

\* What is known of a run: at the Brain, in an update, and in a state or a
\* frame; the socket, the requests.  n is the number of runs.
RunStatus == {"running"} \union Run!PROGRAM_RUN_TERMINAL
RunRecord == [status : RunStatus, step : 0..rv_MaxSteps]
RunState ==
  [run : 0..rv_MaxRuns, status : RunStatus \union {"none", "undefined"}, step : 0..rv_MaxSteps]
RunSave(n) ==
  [by : {"stop", "executor"}, state : [run : 1..n, status : RunStatus, step : 0..rv_MaxSteps]]
RunSock(n) ==
  [run : 0..n, stage : {"closed", "connecting", "accepted", "open"}, frames : Seq(RunState)]
RunStart(n) == [run : 0..n, stage : {"none", "sent", "answered"}]
RunGet(n) == [id : 1..n, stage : {"sent", "answered", "failed"}, reply : RunState]

RunTypes ==
  /\ rv_runs \in Seq(RunRecord) /\ Len(rv_runs) <= rv_MaxRuns
  /\ rv_rows \in Seq(RunRecord) /\ Len(rv_rows) = Len(rv_runs)
  /\ rv_saves \subseteq RunSave(Len(rv_runs))
  /\ rv_listed \in BOOLEAN /\ rv_selectedId \in 0..rv_MaxPrograms
  /\ rv_runId \in 0..Len(rv_runs) /\ rv_stopping \subseteq 1..Len(rv_runs)
  /\ rv_start \in RunStart(Len(rv_runs))
  /\ rv_running \in BOOLEAN /\ rv_unmounted \in BOOLEAN
  /\ rv_state \in RunState
  /\ rv_sock \in RunSock(Len(rv_runs))
  /\ rv_gets \subseteq RunGet(Len(rv_runs))
  /\ rv_behind \subseteq {"window", "order", "full", "read"}

\* The hook listens to the run that is shown.
RunHook ==
  /\ rv_runId = 0 => rv_sock = Run!NoSocket
  /\ rv_runId # 0 => rv_sock.run = rv_runId /\ ~rv_unmounted

\* Where nothing keeps it behind, and the newest state is published, the
\* newest frame, or the state when all are taken, is that state; but a read
\* may hide it.
RunPublished == \A u \in rv_saves : u.state # Run!StateOf(rv_runId)
RunStreamed ==
  /\ rv_runId # 0 /\ rv_sock.stage \in {"accepted", "open"}
  /\ "window" \notin rv_behind /\ "order" \notin rv_behind /\ "full" \notin rv_behind
RunShown ==
  IF rv_sock.frames = <<>> THEN "read" \in rv_behind \/ rv_state = Run!StateOf(rv_runId)
  ELSE rv_sock.frames[Len(rv_sock.frames)] = Run!StateOf(rv_runId)
RunFrames == RunStreamed /\ RunPublished => RunShown

RunInv == RunTypes /\ RunHook /\ RunFrames

\* What is not there yet, or no more, is a state, a socket and a request too.
LEMMA RunNothing ==
  ASSUME NEW n \in Nat
  PROVE  /\ Run!NoState \in RunState /\ Run!BadBody \in RunState
         /\ Run!NoSocket \in RunSock(n) /\ Run!NoStart \in RunStart(n)
         /\ <<>> \in Seq(RunState)
<1>1. <<>> \in Seq(RunState)
  OBVIOUS
<1>2. Run!NoState \in RunState /\ Run!BadBody \in RunState
  BY RunBounds DEF Run!NoState, Run!BadBody, RunState
<1>3. Run!NoSocket \in RunSock(n)
  BY <1>1 DEF Run!NoSocket, RunSock
<1>4. Run!NoStart \in RunStart(n)
  BY DEF Run!NoStart, RunStart
<1> QED BY <1>1, <1>2, <1>3, <1>4

\* A run's state, as it is sent and saved.
LEMMA RunStateThere ==
  ASSUME RunTypes, NEW r \in 1..Len(rv_runs)
  PROVE  /\ Run!StateOf(r) \in RunState /\ rv_runs[r] \in RunRecord /\ r \in DOMAIN rv_runs
         /\ Run!StateOf(r).run = r
<1>1. rv_runs[r] \in RunRecord /\ r \in 0..rv_MaxRuns /\ r \in DOMAIN rv_runs
  BY RunBounds DEF RunTypes
<1> QED BY <1>1 DEF Run!StateOf, RunState, RunRecord

\* At first nothing is listed and no run shown.
LEMMA RunFirst ==
  ASSUME Run!Init
  PROVE  RunInv
<1>1. rv_listed \in BOOLEAN /\ rv_running \in BOOLEAN /\ rv_unmounted \in BOOLEAN
  BY DEF Run!Init
<1>2. /\ rv_runs \in Seq(RunRecord) /\ Len(rv_runs) = 0
      /\ rv_rows \in Seq(RunRecord) /\ Len(rv_rows) = 0
  BY DEF Run!Init
<1>3. /\ rv_runId = 0 /\ rv_selectedId = 0 /\ rv_start = Run!NoStart /\ rv_state = Run!NoState
      /\ rv_sock = Run!NoSocket /\ rv_gets = {} /\ rv_saves = {} /\ rv_stopping = {}
      /\ rv_behind = {}
  BY DEF Run!Init
<1>4. RunTypes
  BY RunBounds, RunNothing, <1>1, <1>2, <1>3 DEF RunTypes
<1> QED BY <1>3, <1>4 DEF RunInv, RunHook, RunFrames, RunStreamed

\* Where the run shown and its socket are as they were, so is what is known
\* of them.
LEMMA RunKept ==
  ASSUME RunInv, UNCHANGED <<rv_runs, rv_saves, rv_runId, rv_state, rv_unmounted, rv_sock, rv_behind>>
  PROVE  RunHook' /\ RunFrames'
BY DEF RunInv, RunHook, RunFrames, RunStreamed, RunPublished, RunShown, Run!StateOf

\* The list, the choice of a program, the click that starts one, and the
\* click on "Stop" leave the run.
LEMMA RunPanel ==
  ASSUME RunInv, Run!Listed \/ Run!handleRun \/ Run!StopButton
  PROVE  RunInv'
<1> USE DEF Run!hook, Run!panel, Run!brain
<1>1. UNCHANGED <<rv_runs, rv_rows, rv_saves, rv_runId, rv_state, rv_unmounted, rv_sock, rv_gets, rv_behind>>
  BY DEF Run!Listed, Run!handleRun, Run!StopButton
<1>2. rv_listed' \in BOOLEAN /\ rv_running' \in BOOLEAN
  BY DEF Run!Listed, Run!handleRun, Run!StopButton, RunInv, RunTypes
<1>3. rv_selectedId' \in 0..rv_MaxPrograms
  BY RunBounds DEF Run!Listed, Run!handleRun, Run!StopButton, RunInv, RunTypes
<1>4. rv_start' \in RunStart(Len(rv_runs))
  <2>1. rv_start' = rv_start \/ rv_start' = [run |-> 0, stage |-> "sent"]
    BY DEF Run!Listed, Run!handleRun, Run!StopButton
  <2>2. 0 \in 0..Len(rv_runs) /\ rv_start \in RunStart(Len(rv_runs))
    BY DEF RunInv, RunTypes
  <2> QED BY <2>1, <2>2 DEF RunStart
<1>5. rv_stopping' \subseteq 1..Len(rv_runs)
  <2>1. rv_stopping' = rv_stopping \/ (rv_runId # 0 /\ rv_stopping' = rv_stopping \union {rv_runId})
    BY DEF Run!Listed, Run!handleRun, Run!StopButton, Run!Rendered
  <2>2. rv_runId # 0 => rv_runId \in 1..Len(rv_runs)
    BY DEF RunInv, RunTypes
  <2> QED BY <2>1, <2>2 DEF RunInv, RunTypes
<1>6. RunTypes'
  BY <1>1, <1>2, <1>3, <1>4, <1>5 DEF RunInv, RunTypes
<1> QED BY <1>1, <1>6, RunKept DEF RunInv

\* The view goes, and its run with it.
LEMMA RunLeft ==
  ASSUME RunInv, Run!Selector \/ Run!CloseButton
  PROVE  RunInv'
<1> USE DEF Run!hook, Run!panel, Run!brain
<1>1. /\ rv_runId' = 0 /\ Run!Unfollow
      /\ UNCHANGED <<rv_runs, rv_rows, rv_saves, rv_listed, rv_running, rv_start, rv_stopping, rv_gets>>
  BY DEF Run!Selector, Run!CloseButton
<1>2. rv_selectedId' \in 0..rv_MaxPrograms
  BY RunBounds DEF Run!Selector, Run!CloseButton, Run!Program, RunInv, RunTypes
<1>3. /\ rv_unmounted' = TRUE /\ rv_state' = Run!NoState /\ rv_sock' = Run!NoSocket
      /\ rv_behind' = {}
  BY <1>1 DEF Run!Unfollow
<1>4. Run!NoState \in RunState /\ Run!NoSocket \in RunSock(Len(rv_runs)) /\ 0 \in 0..Len(rv_runs)
  BY RunNothing DEF RunInv, RunTypes
<1>5. RunTypes'
  BY <1>1, <1>2, <1>3, <1>4 DEF RunInv, RunTypes
<1>6. RunHook' /\ RunFrames'
  BY <1>1, <1>3 DEF RunHook, RunFrames, RunStreamed, Run!NoSocket
<1> QED BY <1>5, <1>6 DEF RunInv

\* A start is answered: its run is read and followed from its snapshot on.
LEMMA RunStarted ==
  ASSUME RunInv, Run!StartAnswered
  PROVE  RunInv'
<1> USE DEF Run!hook, Run!panel, Run!brain
<1>1. /\ rv_running' = FALSE /\ rv_start' = Run!NoStart
      /\ UNCHANGED <<rv_runs, rv_rows, rv_saves, rv_listed, rv_selectedId, rv_stopping>>
  BY DEF Run!StartAnswered
<1>2. rv_start' \in RunStart(Len(rv_runs)) /\ rv_running' \in BOOLEAN
  <2>1. Run!NoStart \in RunStart(Len(rv_runs))
    BY RunNothing DEF RunInv, RunTypes
  <2> QED BY <1>1, <2>1
<1>3. CASE rv_start.run = 0
  <2>1. UNCHANGED <<rv_runId, rv_state, rv_unmounted, rv_sock, rv_gets, rv_behind>>
    BY <1>3 DEF Run!StartAnswered
  <2>2. RunTypes'
    BY <1>1, <1>2, <2>1 DEF RunInv, RunTypes
  <2> QED BY <1>1, <2>1, <2>2, RunKept DEF RunInv
<1>4. CASE rv_start.run # 0
  <2>1. PICK r : r = rv_start.run
    OBVIOUS
  <2>2. r \in 1..Len(rv_runs) /\ r \in 0..Len(rv_runs)
    BY <1>4, <2>1 DEF RunInv, RunTypes, RunStart
  <2>3. /\ rv_runId' = r /\ rv_state' = rv_state /\ rv_unmounted' = FALSE
        /\ rv_gets' = rv_gets \union {Run!Get(r)}
        /\ rv_sock' = [run |-> r, stage |-> "connecting", frames |-> <<>>]
        /\ rv_behind' = {}
    BY <1>4, <2>1 DEF Run!StartAnswered, Run!setRunId, Run!Follow
  <2>4. Run!NoState \in RunState /\ <<>> \in Seq(RunState)
    BY RunNothing DEF RunInv, RunTypes
  <2>5. PICK g : g = Run!Get(r)
    OBVIOUS
  <2>6. g \in RunGet(Len(rv_runs))
    BY <2>2, <2>4, <2>5 DEF Run!Get, RunGet
  <2>7. rv_sock' \in RunSock(Len(rv_runs)) /\ rv_sock'.run = r /\ rv_sock'.stage = "connecting"
    BY <2>2, <2>3, <2>4 DEF RunSock
  <2>8. rv_unmounted' \in BOOLEAN
    BY <2>3
  <2>9. RunTypes'
    BY <1>1, <1>2, <2>2, <2>3, <2>5, <2>6, <2>7, <2>8 DEF RunInv, RunTypes
  <2>10. RunHook' /\ RunFrames'
    BY <2>2, <2>3, <2>7 DEF RunHook, RunFrames, RunStreamed
  <2> QED BY <2>9, <2>10 DEF RunInv
<1> QED BY <1>3, <1>4

\* A frame is taken: the state is that of the newest one when it was the last.
LEMMA RunHears ==
  ASSUME RunInv, Run!ws_onmessage
  PROVE  RunInv'
<1> USE DEF Run!hook, Run!panel, Run!brain
<1>1. /\ rv_sock.frames # <<>>
      /\ rv_sock' = [rv_sock EXCEPT !.frames = Tail(rv_sock.frames)]
      /\ rv_unmounted \/ (rv_state' = Head(rv_sock.frames) /\ rv_behind' = rv_behind \ {"read"})
      /\ UNCHANGED <<rv_runs, rv_rows, rv_saves, rv_listed, rv_selectedId, rv_runId, rv_running, rv_start,
                     rv_stopping, rv_unmounted, rv_gets>>
  BY DEF Run!ws_onmessage
<1>2. PICK f : f = rv_sock.frames
  OBVIOUS
<1>3. f \in Seq(RunState) /\ f # <<>> /\ rv_sock \in RunSock(Len(rv_runs))
  BY <1>1, <1>2 DEF RunInv, RunTypes, RunSock
<1>4. /\ Tail(f) \in Seq(RunState) /\ Head(f) \in RunState /\ Len(Tail(f)) = Len(f) - 1 /\ Len(f) > 0
      /\ \A i \in 1..Len(f) - 1 : Tail(f)[i] = f[i + 1]
      /\ Head(f) = f[1]
  BY <1>3
<1>5. rv_sock' = [rv_sock EXCEPT !.frames = Tail(f)]
  BY <1>1, <1>2
<1>6. rv_sock'.frames = Tail(f) /\ rv_sock'.run = rv_sock.run /\ rv_sock'.stage = rv_sock.stage
      /\ rv_sock' \in RunSock(Len(rv_runs))
  BY <1>3, <1>4, <1>5 DEF RunSock
<1>7. rv_runId # 0 /\ ~rv_unmounted
  <2>1. rv_sock # Run!NoSocket
    BY <1>1 DEF Run!NoSocket
  <2> QED BY <2>1 DEF RunInv, RunHook
<1>8. rv_state' = Head(f) /\ rv_behind' = rv_behind \ {"read"}
  BY <1>1, <1>2, <1>7
<1>9. (IF Tail(f) = <<>> THEN Head(f) ELSE Tail(f)[Len(Tail(f))]) = f[Len(f)]
  <2>1. CASE Tail(f) = <<>>
    <3>1. Len(<<>>) = 0
      OBVIOUS
    <3>2. Len(f) = 1
      BY <1>4, <2>1, <3>1
    <3> QED BY <1>4, <2>1, <3>2
  <2>2. CASE Tail(f) # <<>>
    <3>1. Len(Tail(f)) # 0
      BY <1>4, <2>2, EmptySeq
    <3>2. Len(Tail(f)) \in 1..Len(f) - 1 /\ Len(Tail(f)) + 1 = Len(f)
      BY <1>3, <1>4, <3>1
    <3> QED BY <1>4, <2>2, <3>2
  <2> QED BY <2>1, <2>2
<1>10. RunTypes'
  BY <1>1, <1>4, <1>6, <1>8 DEF RunInv, RunTypes
<1>11. RunHook'
  BY <1>1, <1>6, <1>7 DEF RunInv, RunHook
<1>12. RunFrames'
  <2>1. SUFFICES ASSUME RunStreamed', RunPublished' PROVE RunShown'
    BY DEF RunFrames
  <2>2. RunStreamed /\ RunPublished
    BY <1>1, <1>6, <1>8, <2>1 DEF RunStreamed, RunPublished, Run!StateOf
  <2>3. f[Len(f)] = Run!StateOf(rv_runId)
    BY <1>2, <1>3, <2>2 DEF RunInv, RunFrames, RunShown
  <2>4. Run!StateOf(rv_runId)' = Run!StateOf(rv_runId)
    BY <1>1 DEF Run!StateOf
  <2> QED BY <1>6, <1>8, <1>9, <2>3, <2>4 DEF RunShown
<1> QED BY <1>10, <1>11, <1>12 DEF RunInv

\* The connection fails, and nothing more is awaited from it.
LEMMA RunFails ==
  ASSUME RunInv, Run!ws_onerror
  PROVE  RunInv'
<1> USE DEF Run!hook, Run!panel, Run!brain
<1>1. UNCHANGED <<rv_runs, rv_rows, rv_saves, rv_listed, rv_selectedId, rv_runId, rv_running, rv_start,
                  rv_stopping, rv_state, rv_unmounted, rv_gets, rv_behind>>
  BY DEF Run!ws_onerror
<1>2. /\ rv_sock.stage # "closed"
      /\ rv_sock' = [rv_sock EXCEPT !.stage = "closed", !.frames = <<>>]
      /\ rv_sock \in RunSock(Len(rv_runs)) /\ <<>> \in Seq(RunState)
  BY RunNothing DEF Run!ws_onerror, RunInv, RunTypes
<1>3. rv_sock' \in RunSock(Len(rv_runs)) /\ rv_sock'.run = rv_sock.run /\ rv_sock'.stage = "closed"
  BY <1>2 DEF RunSock
<1>4. rv_runId # 0
  BY <1>2 DEF RunInv, RunHook, Run!NoSocket
<1>5. RunTypes'
  BY <1>1, <1>3 DEF RunInv, RunTypes
<1>6. RunHook' /\ RunFrames'
  BY <1>1, <1>3, <1>4 DEF RunInv, RunHook, RunFrames, RunStreamed
<1> QED BY <1>5, <1>6 DEF RunInv

\* A read is answered: what it brought is the run's state, or hides it.
LEMMA RunAnswer ==
  ASSUME RunInv, Run!Answer
  PROVE  RunInv'
<1> USE DEF Run!hook, Run!panel, Run!brain
<1>1. PICK g \in rv_gets : g.stage # "sent" /\ Run!RunFetched(g)
  BY DEF Run!Answer
<1>2. UNCHANGED <<rv_runs, rv_rows, rv_saves, rv_listed, rv_selectedId, rv_runId, rv_running, rv_start,
                  rv_stopping>>
  BY DEF Run!Answer
<1>3. /\ \/ UNCHANGED <<rv_state, rv_behind>>
         \/ /\ rv_state' = g.reply
            /\ rv_behind' = IF g.reply = Run!StateOf(rv_runId) THEN rv_behind ELSE rv_behind \union {"read"}
      /\ rv_gets' = rv_gets \ {g}
      /\ UNCHANGED <<rv_unmounted, rv_sock>>
  BY <1>1 DEF Run!RunFetched
<1>4. g.reply \in RunState
  BY <1>1 DEF RunInv, RunTypes, RunGet
<1>5. rv_state' \in RunState /\ rv_behind' \subseteq {"window", "order", "full", "read"}
  BY <1>3, <1>4 DEF RunInv, RunTypes
<1>6. RunTypes'
  BY <1>2, <1>3, <1>5 DEF RunInv, RunTypes
<1>7. RunHook'
  BY <1>2, <1>3 DEF RunInv, RunHook
<1>8. RunFrames'
  <2>1. CASE UNCHANGED <<rv_state, rv_behind>>
    BY <1>2, <1>3, <2>1, RunKept
  <2>2. CASE /\ rv_state' = g.reply
             /\ rv_behind' = IF g.reply = Run!StateOf(rv_runId) THEN rv_behind ELSE rv_behind \union {"read"}
    <3>1. SUFFICES ASSUME RunStreamed', RunPublished' PROVE RunShown'
      BY DEF RunFrames
    <3>2. RunStreamed /\ RunPublished
      BY <1>2, <1>3, <2>2, <3>1 DEF RunStreamed, RunPublished, Run!StateOf
    <3>3. Run!StateOf(rv_runId)' = Run!StateOf(rv_runId)
      BY <1>2 DEF Run!StateOf
    <3>4. rv_sock.frames # <<>> => rv_sock.frames[Len(rv_sock.frames)] = Run!StateOf(rv_runId)
      BY <3>2 DEF RunInv, RunFrames, RunShown
    <3>5. "read" \in rv_behind' \/ rv_state' = Run!StateOf(rv_runId)
      BY <2>2
    <3> QED BY <1>3, <3>3, <3>4, <3>5 DEF RunShown
  <2> QED BY <1>3, <2>1, <2>2
<1> QED BY <1>6, <1>7, <1>8 DEF RunInv

\* A run is changed: until that is published, the panel may be behind.
LEMMA RunWritten ==
  ASSUME RunInv, NEW r \in 1..Len(rv_runs), NEW status \in RunStatus, NEW step \in 0..rv_MaxSteps,
         NEW by \in {"stop", "executor"}, Run!Write(r, status, step, by),
         UNCHANGED <<rv_listed, rv_selectedId, rv_runId, rv_running, rv_start, rv_state, rv_unmounted,
                     rv_sock, rv_gets, rv_behind>>,
         rv_stopping' \subseteq 1..Len(rv_runs)
  PROVE  RunInv'
<1>1. PICK s : s = [run |-> r, status |-> status, step |-> step]
  OBVIOUS
<1>2. /\ rv_runs' = [rv_runs EXCEPT ![r] = [status |-> status, step |-> step]]
      /\ rv_saves' = rv_saves \union {[by |-> by, state |-> s]} /\ rv_rows' = rv_rows
  BY <1>1 DEF Run!Write
<1>3. [status |-> status, step |-> step] \in RunRecord
  BY DEF RunRecord
<1>4. /\ rv_runs' \in Seq(RunRecord) /\ Len(rv_runs') = Len(rv_runs)
      /\ rv_runs'[r] = [status |-> status, step |-> step]
      /\ \A q \in 1..Len(rv_runs) : q # r => rv_runs'[q] = rv_runs[q]
  BY <1>2, <1>3 DEF RunInv, RunTypes
<1>5. [by |-> by, state |-> s] \in RunSave(Len(rv_runs))
  BY <1>1 DEF RunSave
<1>6. RunTypes'
  <2>1. rv_saves' \subseteq RunSave(Len(rv_runs'))
    BY <1>2, <1>4, <1>5 DEF RunInv, RunTypes
  <2> QED BY <1>2, <1>4, <2>1 DEF RunInv, RunTypes
<1>7. RunHook'
  BY DEF RunInv, RunHook
<1>8. RunFrames'
  <2>1. CASE rv_runId = r
    <3>1. Run!StateOf(rv_runId)' = s
      BY <1>1, <1>4, <2>1 DEF Run!StateOf
    <3>2. \E u \in rv_saves' : u.state = s
      <4>1. PICK u : u = [by |-> by, state |-> s]
        OBVIOUS
      <4>2. u.state = s /\ u \in rv_saves'
        BY <1>2, <4>1
      <4> QED BY <4>2
    <3> QED BY <3>1, <3>2 DEF RunFrames, RunPublished
  <2>2. CASE rv_runId # r /\ rv_runId # 0
    <3>1. Run!StateOf(rv_runId)' = Run!StateOf(rv_runId)
      BY <1>4, <2>2 DEF RunInv, RunTypes, Run!StateOf
    <3>2. RunPublished' => RunPublished
      BY <1>2, <3>1 DEF RunPublished
    <3>3. RunStreamed' = RunStreamed
      BY DEF RunStreamed
    <3>4. RunShown => RunShown'
      BY <3>1 DEF RunShown
    <3> QED BY <3>2, <3>3, <3>4 DEF RunInv, RunFrames
  <2>3. CASE rv_runId = 0
    BY <2>3 DEF RunFrames, RunStreamed
  <2> QED BY <2>1, <2>2, <2>3
<1> QED BY <1>6, <1>7, <1>8 DEF RunInv

\* "Stop" is served, or refused or lost.
LEMMA RunStops ==
  ASSUME RunInv, Run!stop_run
  PROVE  RunInv'
<1> USE DEF Run!hook, Run!panel, Run!brain
<1>1. UNCHANGED <<rv_listed, rv_selectedId, rv_runId, rv_running, rv_start, rv_state, rv_unmounted,
                  rv_sock, rv_gets, rv_behind>>
  BY DEF Run!stop_run
<1>2. PICK r \in rv_stopping :
        /\ rv_stopping' = rv_stopping \ {r}
        /\ \/ Run!Write(r, "stopped", rv_runs[r].step, "stop")
           \/ UNCHANGED <<rv_runs, rv_rows, rv_saves>>
  BY DEF Run!stop_run
<1>3. rv_stopping' \subseteq 1..Len(rv_runs) /\ r \in 1..Len(rv_runs)
  BY <1>2 DEF RunInv, RunTypes
<1>4. CASE Run!Write(r, "stopped", rv_runs[r].step, "stop")
  <2>1. rv_runs[r].step \in 0..rv_MaxSteps /\ "stopped" \in RunStatus
    BY <1>3, RunStateThere DEF RunInv, RunRecord, RunStatus, Run!PROGRAM_RUN_TERMINAL
  <2> QED BY <1>1, <1>3, <1>4, <2>1, RunWritten
<1>5. CASE UNCHANGED <<rv_runs, rv_rows, rv_saves>>
  <2>1. RunTypes'
    BY <1>1, <1>3, <1>5 DEF RunInv, RunTypes
  <2> QED BY <1>1, <1>5, <2>1, RunKept DEF RunInv
<1> QED BY <1>2, <1>4, <1>5

\* The executor gets a run further.
LEMMA RunExecutes ==
  ASSUME RunInv, Run!Execute
  PROVE  RunInv'
<1> USE DEF Run!hook, Run!panel, Run!brain
<1>1. /\ UNCHANGED <<rv_listed, rv_selectedId, rv_runId, rv_running, rv_start, rv_state, rv_unmounted,
                     rv_sock, rv_gets, rv_behind>>
      /\ rv_stopping' = rv_stopping
  BY DEF Run!Execute
<1>2. PICK r \in DOMAIN rv_runs :
        \/ rv_runs[r].step < rv_MaxSteps /\ Run!Write(r, "running", rv_runs[r].step + 1, "executor")
        \/ Run!Write(r, "completed", rv_MaxSteps, "executor")
        \/ Run!Write(r, "faulted", rv_runs[r].step, "executor")
  BY DEF Run!Execute
<1>3. r \in 1..Len(rv_runs) /\ rv_stopping' \subseteq 1..Len(rv_runs)
  BY <1>1 DEF RunInv, RunTypes
<1>4. rv_runs[r].step \in 0..rv_MaxSteps
  BY <1>3, RunStateThere DEF RunInv, RunRecord
<1>5. "running" \in RunStatus /\ "completed" \in RunStatus /\ "faulted" \in RunStatus
  BY DEF RunStatus, Run!PROGRAM_RUN_TERMINAL
<1>6. PICK k : k = rv_runs[r].step
  OBVIOUS
<1>7. k < rv_MaxSteps => k + 1 \in 0..rv_MaxSteps
  BY <1>4, <1>6, RunBounds
<1>8. rv_MaxSteps \in 0..rv_MaxSteps
  BY RunBounds
<1>9. CASE k < rv_MaxSteps /\ Run!Write(r, "running", k + 1, "executor")
  BY <1>1, <1>3, <1>5, <1>7, <1>9, RunWritten
<1>10. CASE Run!Write(r, "completed", rv_MaxSteps, "executor")
  BY <1>1, <1>3, <1>5, <1>8, <1>10, RunWritten
<1>11. CASE Run!Write(r, "faulted", k, "executor")
  BY <1>1, <1>3, <1>4, <1>5, <1>6, <1>11, RunWritten
<1> QED BY <1>2, <1>6, <1>9, <1>10, <1>11

\* A row is saved: its update goes on the socket, or the panel is behind, or
\* an update that is not the newest leaves it as it was.
LEMMA RunPublishes ==
  ASSUME RunInv, Run!persist_and_publish
  PROVE  RunInv'
<1> USE DEF Run!hook, Run!panel, Run!brain
<1>1. UNCHANGED <<rv_runs, rv_listed, rv_selectedId, rv_runId, rv_running, rv_start, rv_stopping, rv_state,
                  rv_unmounted, rv_gets>>
  BY DEF Run!persist_and_publish
<1>2. PICK u \in rv_saves, full \in BOOLEAN :
        LET s == u.state
            newest == s = Run!StateOf(s.run)
        IN
        /\ full => Len(rv_sock.frames) >= rv_Queue
        /\ rv_saves' = rv_saves \ {u}
        /\ rv_rows' = [rv_rows EXCEPT ![s.run] = [status |-> s.status, step |-> s.step]]
        /\ IF rv_sock.run = s.run /\ rv_sock.stage = "open" /\ ~full
           THEN /\ rv_sock' = [rv_sock EXCEPT !.frames = Append(@, s)]
                /\ rv_behind' = IF newest THEN rv_behind \ {"window", "order", "full"}
                                          ELSE rv_behind \union {"order"}
           ELSE /\ UNCHANGED rv_sock
                /\ rv_behind' = IF newest /\ rv_sock.run = s.run
                                THEN rv_behind \union (CASE rv_sock.stage = "accepted" -> {"window"}
                                                         [] rv_sock.stage = "open" -> {"full"}
                                                         [] OTHER -> {})
                                ELSE rv_behind
  BY DEF Run!persist_and_publish
<1>3. PICK s : s = u.state
  OBVIOUS
<1>4. s \in [run : 1..Len(rv_runs), status : RunStatus, step : 0..rv_MaxSteps]
  BY <1>3 DEF RunInv, RunTypes, RunSave
<1>5. s \in RunState /\ s.run \in 1..Len(rv_runs)
  <2>1. 1..Len(rv_runs) \subseteq 0..rv_MaxRuns
    BY RunBounds DEF RunInv, RunTypes
  <2> QED BY <1>4, <2>1 DEF RunState
<1>6. PICK f : f = rv_sock.frames
  OBVIOUS
<1>7. f \in Seq(RunState) /\ rv_sock \in RunSock(Len(rv_runs))
  BY <1>6 DEF RunInv, RunTypes, RunSock
<1>8. /\ Append(f, s) \in Seq(RunState) /\ Append(f, s) # <<>>
      /\ Append(f, s)[Len(Append(f, s))] = s
  BY <1>5, <1>7, SeqLast
<1>9. rv_rows' \in Seq(RunRecord) /\ Len(rv_rows') = Len(rv_rows)
  <2>1. [status |-> s.status, step |-> s.step] \in RunRecord
    BY <1>4 DEF RunRecord
  <2>2. rv_rows' = [rv_rows EXCEPT ![s.run] = [status |-> s.status, step |-> s.step]]
    BY <1>2, <1>3
  <2>3. rv_rows \in Seq(RunRecord) /\ s.run \in 1..Len(rv_rows)
    BY <1>5 DEF RunInv, RunTypes
  <2> QED BY <2>1, <2>2, <2>3, SeqReplace
<1>10. rv_saves' = rv_saves \ {u} /\ Run!StateOf(rv_runId)' = Run!StateOf(rv_runId)
  BY <1>1, <1>2 DEF Run!StateOf
<1>11. CASE rv_sock.run = s.run /\ rv_sock.stage = "open" /\ ~full
  <2>1. /\ rv_sock' = [rv_sock EXCEPT !.frames = Append(f, s)]
        /\ rv_behind' = IF s = Run!StateOf(s.run) THEN rv_behind \ {"window", "order", "full"}
                                                  ELSE rv_behind \union {"order"}
    BY <1>2, <1>3, <1>6, <1>11
  <2>2. /\ rv_sock' \in RunSock(Len(rv_runs)) /\ rv_sock'.frames = Append(f, s)
        /\ rv_sock'.run = rv_sock.run /\ rv_sock'.stage = "open"
    BY <1>7, <1>8, <1>11, <2>1 DEF RunSock
  <2>3. rv_behind' \subseteq {"window", "order", "full", "read"}
    BY <2>1 DEF RunInv, RunTypes
  <2>4. RunTypes'
    BY <1>1, <1>9, <1>10, <2>2, <2>3 DEF RunInv, RunTypes
  <2>5. rv_runId = s.run
    BY <1>5, <1>11 DEF RunInv, RunHook, Run!NoSocket
  <2>6. RunHook'
    BY <1>1, <1>5, <2>2, <2>5 DEF RunInv, RunHook
  <2>7. RunFrames'
    <3>1. CASE s = Run!StateOf(s.run)
      BY <1>1, <1>8, <1>10, <2>2, <2>5, <3>1 DEF RunFrames, RunShown
    <3>2. CASE s # Run!StateOf(s.run)
      BY <2>1, <3>2 DEF RunFrames, RunStreamed
    <3> QED BY <3>1, <3>2
  <2> QED BY <2>4, <2>6, <2>7 DEF RunInv
<1>12. CASE ~(rv_sock.run = s.run /\ rv_sock.stage = "open" /\ ~full)
  <2>1. /\ rv_sock' = rv_sock
        /\ rv_behind' = IF s = Run!StateOf(s.run) /\ rv_sock.run = s.run
                        THEN rv_behind \union (CASE rv_sock.stage = "accepted" -> {"window"}
                                                 [] rv_sock.stage = "open" -> {"full"}
                                                 [] OTHER -> {})
                        ELSE rv_behind
    BY <1>2, <1>3, <1>12
  <2>2. /\ rv_behind \subseteq rv_behind' /\ rv_behind' \subseteq {"window", "order", "full", "read"}
        /\ "read" \in rv_behind' => "read" \in rv_behind
    BY <2>1 DEF RunInv, RunTypes
  <2>3. RunTypes'
    BY <1>1, <1>9, <1>10, <2>1, <2>2 DEF RunInv, RunTypes
  <2>4. RunHook'
    BY <1>1, <2>1 DEF RunInv, RunHook
  <2>5. RunFrames'
    <3>1. CASE s = Run!StateOf(s.run) /\ rv_runId = s.run
      <4>1. CASE rv_sock.stage = "accepted" \/ rv_sock.stage = "open"
        <5>1. rv_sock.run = s.run
          BY <1>5, <3>1 DEF RunInv, RunHook
        <5>2. "window" \in rv_behind' \/ "full" \in rv_behind'
          BY <2>1, <3>1, <4>1, <5>1
        <5> QED BY <5>2 DEF RunFrames, RunStreamed
      <4>2. CASE ~(rv_sock.stage = "accepted" \/ rv_sock.stage = "open")
        BY <2>1, <4>2 DEF RunFrames, RunStreamed
      <4> QED BY <4>1, <4>2
    <3>2. CASE ~(s = Run!StateOf(s.run) /\ rv_runId = s.run)
      <4>1. SUFFICES ASSUME RunStreamed', RunPublished' PROVE RunShown'
        BY DEF RunFrames
      <4>2. RunStreamed
        BY <1>1, <2>1, <2>2, <4>1 DEF RunStreamed
      <4>3. rv_runId \in 1..Len(rv_runs)
        BY <4>2 DEF RunStreamed, RunInv, RunTypes
      <4>4. u.state # Run!StateOf(rv_runId)
        <5>1. Run!StateOf(rv_runId).run = rv_runId
          BY <4>3, RunStateThere DEF RunInv
        <5> QED BY <1>3, <3>2, <5>1
      <4>5. RunPublished
        BY <1>1, <1>10, <4>1, <4>4 DEF RunPublished
      <4>6. RunShown
        BY <4>2, <4>5 DEF RunInv, RunFrames
      <4> QED BY <1>1, <1>10, <2>1, <2>2, <4>6 DEF RunShown
    <3> QED BY <3>1, <3>2
  <2> QED BY <2>3, <2>4, <2>5 DEF RunInv
<1> QED BY <1>11, <1>12

\* The Brain starts a run, which is none of those there are.
LEMMA RunStarts ==
  ASSUME RunInv, Run!Starts
  PROVE  RunInv'
<1> USE DEF Run!hook, Run!panel, Run!brain
<1>1. UNCHANGED <<rv_saves, rv_listed, rv_selectedId, rv_runId, rv_running, rv_stopping, rv_state,
                  rv_unmounted, rv_sock, rv_gets, rv_behind>>
  BY DEF Run!Starts
<1>2. rv_start \in RunStart(Len(rv_runs)) /\ Len(rv_runs) \in Nat
  BY DEF RunInv, RunTypes
<1>3. CASE rv_start' = [rv_start EXCEPT !.stage = "answered"] /\ UNCHANGED <<rv_runs, rv_rows>>
  <2>1. rv_start' \in RunStart(Len(rv_runs))
    BY <1>2, <1>3 DEF RunStart
  <2>2. RunTypes'
    BY <1>1, <1>3, <2>1 DEF RunInv, RunTypes
  <2> QED BY <1>1, <1>3, <2>2, RunKept DEF RunInv
<1>4. CASE /\ Len(rv_runs) < rv_MaxRuns
           /\ rv_runs' = Append(rv_runs, [status |-> "running", step |-> 0])
           /\ rv_rows' = Append(rv_rows, [status |-> "running", step |-> 0])
           /\ rv_start' = [rv_start EXCEPT !.run = Len(rv_runs) + 1, !.stage = "answered"]
  <2>1. [status |-> "running", step |-> 0] \in RunRecord
    BY RunBounds DEF RunRecord, RunStatus
  <2>2. /\ rv_runs' \in Seq(RunRecord) /\ Len(rv_runs') = Len(rv_runs) + 1
        /\ rv_rows' \in Seq(RunRecord) /\ Len(rv_rows') = Len(rv_runs) + 1
        /\ \A q \in 1..Len(rv_runs) : rv_runs'[q] = rv_runs[q]
    BY <1>4, <2>1 DEF RunInv, RunTypes
  <2>3. PICK n : n = Len(rv_runs) + 1
    OBVIOUS
  <2>4. Len(rv_runs') = n /\ n <= rv_MaxRuns /\ 0..Len(rv_runs) \subseteq 0..n
        /\ 1..Len(rv_runs) \subseteq 1..n /\ n \in 0..n
    BY RunBounds, <1>2, <1>4, <2>2, <2>3
  <2>5. rv_start' \in RunStart(n)
    BY <1>2, <1>4, <2>3, <2>4 DEF RunStart
  <2>6. rv_sock' \in RunSock(n)
    BY <1>1, <2>4 DEF RunInv, RunTypes, RunSock
  <2>7. rv_gets' \subseteq RunGet(n)
    BY <1>1, <2>4 DEF RunInv, RunTypes, RunGet
  <2>8. rv_saves' \subseteq RunSave(n)
    BY <1>1, <2>4 DEF RunInv, RunTypes, RunSave
  <2>9. RunTypes'
    BY <1>1, <2>2, <2>3, <2>4, <2>5, <2>6, <2>7, <2>8 DEF RunInv, RunTypes
  <2>10. RunHook'
    BY <1>1 DEF RunInv, RunHook
  <2>11. RunFrames'
    <3>1. rv_runId # 0 => Run!StateOf(rv_runId)' = Run!StateOf(rv_runId)
      BY <1>1, <2>2 DEF RunInv, RunTypes, Run!StateOf
    <3> QED BY <1>1, <3>1 DEF RunInv, RunFrames, RunStreamed, RunPublished, RunShown
  <2> QED BY <2>9, <2>10, <2>11 DEF RunInv
<1> QED BY <1>3, <1>4 DEF Run!Starts

\* After a restart no socket that was accepted is connected.
LEMMA RunRestarts ==
  ASSUME RunInv, Run!Restart
  PROVE  RunInv'
<1> USE DEF Run!hook, Run!panel, Run!brain
<1>1. /\ UNCHANGED <<rv_listed, rv_selectedId, rv_runId, rv_running, rv_start, rv_state, rv_unmounted,
                     rv_gets, rv_behind>>
      /\ rv_rows' = rv_runs' /\ rv_saves' = {} /\ rv_stopping' = {}
  BY DEF Run!Restart
<1>2. rv_runs' = [r \in DOMAIN rv_rows |->
                    IF rv_rows[r].status \in Run!PROGRAM_RUN_TERMINAL THEN rv_rows[r]
                    ELSE [rv_rows[r] EXCEPT !.status = "interrupted"]]
  BY DEF Run!Restart
<1>3. rv_runs' \in Seq(RunRecord) /\ Len(rv_runs') = Len(rv_runs)
  <2>1. PICK n \in Nat : n = Len(rv_runs)
    BY DEF RunInv, RunTypes
  <2>2. DOMAIN rv_rows = 1..n /\ \A r \in 1..n : rv_rows[r] \in RunRecord
    BY <2>1 DEF RunInv, RunTypes
  <2>3. \A r \in 1..n : [rv_rows[r] EXCEPT !.status = "interrupted"] \in RunRecord
    BY <2>2 DEF RunRecord, RunStatus, Run!PROGRAM_RUN_TERMINAL
  <2>4. rv_runs' \in [1..n -> RunRecord]
    BY <1>2, <2>2, <2>3
  <2> QED BY <2>1, <2>4
<1>4. /\ rv_sock' = IF rv_sock.stage \in {"accepted", "open"}
                    THEN [rv_sock EXCEPT !.stage = "closed", !.frames = <<>>] ELSE rv_sock
      /\ rv_sock \in RunSock(Len(rv_runs)) /\ <<>> \in Seq(RunState)
  BY RunNothing DEF Run!Restart, RunInv, RunTypes
<1>5. /\ rv_sock' \in RunSock(Len(rv_runs)) /\ rv_sock'.run = rv_sock.run
      /\ rv_sock'.stage \notin {"accepted", "open"}
      /\ rv_sock = Run!NoSocket => rv_sock' = rv_sock
  <2>1. CASE rv_sock.stage \in {"accepted", "open"}
    <3>1. rv_sock # Run!NoSocket /\ rv_sock' = [rv_sock EXCEPT !.stage = "closed", !.frames = <<>>]
      BY <1>4, <2>1 DEF Run!NoSocket
    <3> QED BY <1>4, <3>1 DEF RunSock
  <2>2. CASE rv_sock.stage \notin {"accepted", "open"}
    BY <1>4, <2>2
  <2> QED BY <2>1, <2>2
<1>6. RunTypes'
  BY <1>1, <1>3, <1>5 DEF RunInv, RunTypes
<1>7. RunHook' /\ RunFrames'
  BY <1>1, <1>5 DEF RunInv, RunHook, RunFrames, RunStreamed
<1> QED BY <1>6, <1>7 DEF RunInv

\* The socket gets its snapshot, then subscribes.
LEMMA RunSocket ==
  ASSUME RunInv, Run!run_ws
  PROVE  RunInv'
<1> USE DEF Run!panel, Run!brain
<1>1. UNCHANGED <<rv_runs, rv_rows, rv_saves, rv_listed, rv_selectedId, rv_runId, rv_running, rv_start,
                  rv_stopping, rv_state, rv_unmounted, rv_gets, rv_behind>>
  BY DEF Run!run_ws
<1>2. rv_sock \in RunSock(Len(rv_runs))
  BY DEF RunInv, RunTypes
<1>3. rv_sock.stage # "closed" /\ rv_runId # 0 /\ rv_sock.run = rv_runId
  BY DEF Run!run_ws, Run!NoSocket, RunInv, RunHook
<1>4. CASE rv_sock.stage = "accepted" /\ rv_sock' = [rv_sock EXCEPT !.stage = "open"]
  <2>1. /\ rv_sock' \in RunSock(Len(rv_runs))
        /\ rv_sock'.run = rv_sock.run /\ rv_sock'.stage = "open" /\ rv_sock'.frames = rv_sock.frames
    BY <1>2, <1>4 DEF RunSock
  <2>2. RunTypes' /\ RunHook'
    BY <1>1, <1>3, <2>1 DEF RunInv, RunTypes, RunHook
  <2>3. RunFrames'
    BY <1>1, <1>4, <2>1 DEF RunInv, RunFrames, RunStreamed, RunPublished, RunShown, Run!StateOf
  <2> QED BY <2>2, <2>3 DEF RunInv
<1>5. CASE /\ rv_sock.stage = "connecting"
           /\ rv_sock' = [rv_sock EXCEPT !.stage = "accepted", !.frames = <<Run!StateOf(rv_sock.run)>>]
  <2>1. PICK s : s = Run!StateOf(rv_runId)
    OBVIOUS
  <2>2. s \in RunState
    <3>1. rv_runId \in 1..Len(rv_runs)
      BY <1>3 DEF RunInv, RunTypes
    <3> QED BY <2>1, <3>1, RunStateThere DEF RunInv
  <2>3. rv_sock' = [rv_sock EXCEPT !.stage = "accepted", !.frames = <<s>>]
    BY <1>3, <1>5, <2>1
  <2>4. <<s>> \in Seq(RunState) /\ <<s>> # <<>> /\ <<s>>[Len(<<s>>)] = s
    BY <2>2
  <2>5. /\ rv_sock' \in RunSock(Len(rv_runs))
        /\ rv_sock'.run = rv_sock.run /\ rv_sock'.stage = "accepted" /\ rv_sock'.frames = <<s>>
    BY <1>2, <2>3, <2>4 DEF RunSock
  <2>6. RunTypes' /\ RunHook'
    BY <1>1, <1>3, <2>5 DEF RunInv, RunTypes, RunHook
  <2>7. Run!StateOf(rv_runId)' = s
    BY <1>1, <2>1 DEF Run!StateOf
  <2>8. RunFrames'
    BY <1>1, <2>4, <2>5, <2>7 DEF RunFrames, RunShown
  <2> QED BY <2>6, <2>8 DEF RunInv
<1> QED BY <1>4, <1>5 DEF Run!run_ws

\* A read is served with the run as it is, refused, or lost.
LEMMA RunRead ==
  ASSUME RunInv, Run!get_run
  PROVE  RunInv'
<1> USE DEF Run!panel, Run!brain
<1>1. PICK g \in rv_gets :
        \E h \in {[g EXCEPT !.stage = "answered", !.reply = Run!StateOf(g.id)],
                  [g EXCEPT !.stage = "answered", !.reply = Run!BadBody],
                  [g EXCEPT !.stage = "failed"]} :
          rv_gets' = (rv_gets \ {g}) \union {h}
  BY DEF Run!get_run
<1>2. UNCHANGED <<rv_runs, rv_rows, rv_saves, rv_listed, rv_selectedId, rv_runId, rv_running, rv_start,
                  rv_stopping, rv_state, rv_unmounted, rv_sock, rv_behind>>
  BY DEF Run!get_run
<1>3. g \in RunGet(Len(rv_runs))
  BY DEF RunInv, RunTypes
<1>4. Run!StateOf(g.id) \in RunState /\ Run!BadBody \in RunState
  <2>1. g.id \in 1..Len(rv_runs)
    BY <1>3 DEF RunGet
  <2> QED BY <2>1, RunStateThere, RunNothing DEF RunInv, RunTypes
<1>5. PICK h \in RunGet(Len(rv_runs)) : rv_gets' = (rv_gets \ {g}) \union {h}
  <2>1. /\ [g EXCEPT !.stage = "answered", !.reply = Run!StateOf(g.id)] \in RunGet(Len(rv_runs))
        /\ [g EXCEPT !.stage = "answered", !.reply = Run!BadBody] \in RunGet(Len(rv_runs))
        /\ [g EXCEPT !.stage = "failed"] \in RunGet(Len(rv_runs))
    BY <1>3, <1>4 DEF RunGet
  <2> QED BY <1>1, <2>1
<1>6. RunTypes'
  BY <1>2, <1>5 DEF RunInv, RunTypes
<1> QED BY <1>2, <1>6, RunKept DEF RunInv

\* Every step keeps the invariant.
LEMMA RunNext ==
  ASSUME RunInv, [Run!Next]_(Run!vars)
  PROVE  RunInv'
<1>1. CASE UNCHANGED Run!vars
  <2>1. RunTypes'
    BY <1>1 DEF Run!vars, RunInv, RunTypes
  <2>2. RunHook' /\ RunFrames'
    BY <1>1, RunKept DEF Run!vars
  <2> QED BY <2>1, <2>2 DEF RunInv
<1> QED BY <1>1, RunPanel, RunLeft, RunStarted, RunHears, RunFails, RunAnswer, RunStops, RunExecutes,
        RunPublishes, RunStarts, RunRestarts, RunSocket, RunRead DEF Run!Next

\* What the invariant says of the properties.
LEMMA RunShows ==
  ASSUME RunInv
  PROVE  Run!TypeOK /\ Run!PanelCurrent
<1>1. Run!TypeOK
  <2>1. 0..Len(rv_runs) \subseteq 0..rv_MaxRuns
    BY RunBounds DEF RunInv, RunTypes
  <2>2. {rv_runId, rv_state.run, rv_sock.run, rv_start.run} \subseteq 0..rv_MaxRuns
    BY <2>1 DEF RunInv, RunTypes, RunState, RunSock, RunStart
  <2>3. {rv_running, rv_unmounted} \subseteq BOOLEAN
    BY DEF RunInv, RunTypes
  <2> QED BY <2>2, <2>3 DEF RunInv, RunTypes, RunRecord, RunStatus, Run!TypeOK
<1>2. Run!PanelCurrent
  BY DEF RunInv, RunFrames, RunStreamed, RunPublished, RunShown, Run!PanelCurrent
<1> QED BY <1>1, <1>2
=============================================================================
