-------------------------- MODULE WireClientProofs --------------------------
(***************************************************************************)
(* For any number of tasks, calls and connections, whatever breaks and     *)
(* whatever is dropped: no call is executed more than twice and no         *)
(* response returned twice.  Until a call is dropped in the middle of an   *)
(* exchange, the connection in use carries one request at a time and every *)
(* call returns the response to itself.                                    *)
(***************************************************************************)
EXTENDS WireClient, FiniteSetTheorems, TLAPS

-----------------------------------------------------------------------------
(* Streams of frames.                                                      *)

\* Frames of a stream, none of them twice.
LEMMA EmptyStream ==
  /\ << >> \in Seq(Calls) /\ Range(<< >>) = {} /\ IsInjective(<< >>)
  /\ \A c \in Calls : /\ <<c>> \in Seq(Calls)
                      /\ Range(<<c>>) = {c} /\ IsInjective(<<c>>)
BY DEF Range, IsInjective

LEMMA AppendStream ==
  ASSUME NEW s \in Seq(Calls), NEW c \in Calls
  PROVE  /\ Append(s, c) \in Seq(Calls)
         /\ Range(Append(s, c)) = Range(s) \cup {c}
         /\ IsInjective(s) /\ c \notin Range(s) => IsInjective(Append(s, c))
<1> DEFINE a == Append(s, c)
           n == Len(s)
<1>1. /\ a \in Seq(Calls) /\ DOMAIN a = 1 .. (n + 1) /\ n \in Nat
      /\ a[n + 1] = c /\ \A i \in 1 .. n : a[i] = s[i]
      /\ DOMAIN s = 1 .. n
  OBVIOUS
<1> HIDE DEF a, n
<1>2. Range(a) = Range(s) \cup {c}
  <2>1. \A x \in Range(a) : x \in Range(s) \cup {c}
    BY <1>1 DEF Range
  <2>2. c \in Range(a) /\ \A x \in Range(s) : x \in Range(a)
    BY <1>1 DEF Range
  <2> QED BY <2>1, <2>2
<1>3. IsInjective(s) /\ c \notin Range(s) => IsInjective(a)
  <2> SUFFICES ASSUME IsInjective(s), c \notin Range(s),
                      NEW i \in DOMAIN a, NEW j \in DOMAIN a, a[i] = a[j]
               PROVE  i = j
    BY DEF IsInjective
  <2>1. \A m \in 1 .. n : a[m] # c
    BY <1>1 DEF Range
  <2>2. (i = n + 1 /\ j = n + 1) \/ (i \in 1 .. n /\ j \in 1 .. n)
    BY <1>1, <2>1
  <2> QED BY <1>1, <2>2 DEF IsInjective
<1> QED BY <1>1, <1>2, <1>3 DEF a

LEMMA TailStream ==
  ASSUME NEW s \in Seq(Calls), s # << >>
  PROVE  /\ Head(s) \in Calls /\ Head(s) \in Range(s)
         /\ Tail(s) \in Seq(Calls) /\ Range(Tail(s)) \subseteq Range(s)
         /\ IsInjective(s) =>
              IsInjective(Tail(s)) /\ Head(s) \notin Range(Tail(s))
<1> DEFINE a == Tail(s)
           n == Len(s)
<1>1. /\ a \in Seq(Calls) /\ n \in Nat /\ n > 0 /\ DOMAIN s = 1 .. n
      /\ DOMAIN a = 1 .. (n - 1) /\ \A i \in 1 .. (n - 1) : a[i] = s[i + 1]
      /\ Head(s) = s[1]
  OBVIOUS
<1> HIDE DEF a, n
<1>2. Head(s) \in Range(s) /\ Head(s) \in Calls
  BY <1>1 DEF Range
<1>3. Range(a) \subseteq Range(s)
  BY <1>1 DEF Range
<1>4. ASSUME IsInjective(s) PROVE IsInjective(a) /\ Head(s) \notin Range(a)
  <2>0. \A x, y \in 1 .. n : s[x] = s[y] => x = y
    BY <1>1, <1>4 DEF IsInjective
  <2>1. \A i, j \in 1 .. (n - 1) : a[i] = a[j] => i = j
    <3> TAKE i, j \in 1 .. (n - 1)
    <3>1. i + 1 \in 1 .. n /\ j + 1 \in 1 .. n
      BY <1>1
    <3>2. s[i + 1] = s[j + 1] => i + 1 = j + 1
      BY <2>0, <3>1
    <3> QED BY <1>1, <3>2
  <2>2. \A i \in DOMAIN a : a[i] # s[1]
    BY <1>1, <2>0
  <2> QED BY <1>1, <2>1, <2>2 DEF IsInjective, Range
<1> QED BY <1>1, <1>2, <1>3, <1>4 DEF a

-----------------------------------------------------------------------------
(* What holds whatever is dropped.                                         *)

Exchanging == {"first", "second"}
PCs        == {"idle", "waiting", "connecting", "first", "second"}

\* The mutex: its holder is the one task inside call_raw.
LockInv ==
  /\ \A t \in Tasks : pc[t] \in {"idle", "waiting"} <=> holder # t
  /\ \A t \in Tasks : pc[t] # "idle" => call[t] \in Calls

\* Streams not opened yet are clean, and there is none while connecting.
OpenedInv ==
  /\ inner <= opened
  /\ \A k \in Conns : k > opened =>
       k \notin broken /\ requests[k] = << >> /\ responses[k] = << >>
  /\ \A t \in Tasks : pc[t] = "connecting" => inner = None
  /\ \A t \in Tasks : pc[t] \in Exchanging => inner # None

BaseInv == TypeOK /\ LockInv /\ OpenedInv

LEMMA Indices ==
  /\ Conns \subseteq Nat /\ None \notin Conns /\ None \notin Calls
  /\ \A k \in Conns : k > None
BY WireAssumption DEF Conns, Calls, None

\* What replacing the frames of one stream does.
LEMMA StreamUpdate ==
  ASSUME NEW f \in [Conns -> Seq(Calls)], NEW k \in Conns, NEW s \in Seq(Calls)
  PROVE  LET g == [f EXCEPT ![k] = s]
         IN /\ g \in [Conns -> Seq(Calls)] /\ g[k] = s
            /\ \A j \in Conns \ {k} : g[j] = f[j]
OBVIOUS

LEMMA InitBase == Init => BaseInv
<1> SUFFICES ASSUME Init PROVE BaseInv
  OBVIOUS
<1> USE WireAssumption DEF Init, PCs
<1>1. TypeOK
  <2>1. dropped \in BOOLEAN
    OBVIOUS
  <2>2. executed \in [Calls -> Nat] /\ answer \in [Calls -> Calls \cup {None}]
    OBVIOUS
  <2>3. /\ requests \in [Conns -> Seq(Calls)]
        /\ responses \in [Conns -> Seq(Calls)]
    OBVIOUS
  <2>4. /\ inner \in Conns \cup {None} /\ holder \in Tasks \cup {NoTask}
        /\ opened \in Conns \cup {None} /\ broken \subseteq Conns
        /\ pc \in [Tasks -> PCs]
        /\ call \in [Tasks -> Calls \cup {None}]
        /\ calls \in Calls \cup {None} /\ kind \in [Calls -> Kinds]
    BY DEF None
  <2> QED BY <2>1, <2>2, <2>3, <2>4 DEF TypeOK
<1>2. LockInv /\ OpenedInv
  BY DEF LockInv, OpenedInv, Exchanging, None, Conns
<1> QED BY <1>1, <1>2 DEF BaseInv

\* A task that returns, or whose call is dropped, releases the mutex.
LEMMA Leaves ==
  ASSUME BaseInv, NEW t \in Tasks, pc' = [pc EXCEPT ![t] = "idle"],
         holder' = IF holder = t THEN NoTask ELSE holder,
         UNCHANGED <<inner, opened, broken, requests, call>>,
         \A k \in Conns : responses[k] = << >> => responses'[k] = << >>
  PROVE  LockInv' /\ OpenedInv'
<1>1. /\ pc'[t] = "idle" /\ \A u \in Tasks \ {t} : pc'[u] = pc[u]
      /\ \A u \in Tasks : u # NoTask
  BY WireAssumption DEF BaseInv, TypeOK
<1>2. LockInv'
  BY <1>1 DEF BaseInv, LockInv
<1>3. OpenedInv'
  BY <1>1 DEF BaseInv, OpenedInv, Exchanging
<1> QED BY <1>2, <1>3

LEMMA BaseStep == BaseInv /\ [Next]_vars => BaseInv'
<1> SUFFICES ASSUME BaseInv, [Next]_vars PROVE BaseInv'
  OBVIOUS
<1>0. TypeOK /\ LockInv /\ OpenedInv /\ NoTask \notin Tasks
  BY WireAssumption DEF BaseInv
<1>1. ASSUME NEW t \in Tasks, Call(t) PROVE BaseInv'
  <2>1. calls + 1 \in Calls /\ calls' = calls + 1
    BY <1>0, <1>1, WireAssumption DEF Call, TypeOK, Calls, None
  <2>2. TypeOK'
    BY <1>0, <1>1, <2>1 DEF Call, streams, TypeOK
  <2>3. LockInv' /\ OpenedInv'
    BY <1>0, <1>1, <2>1
       DEF Call, streams, TypeOK, LockInv, OpenedInv, Exchanging
  <2> QED BY <2>2, <2>3 DEF BaseInv
<1>2. ASSUME NEW t \in Tasks, Lock(t) PROVE BaseInv'
  <2>1. call[t] \in Calls /\ holder = NoTask /\ pc[t] = "waiting"
    BY <1>0, <1>2 DEF Lock, MayLock, LockInv
  <2>2. PICK x \in {"connecting", "first"} :
          pc' = [pc EXCEPT ![t] = x] /\ (x = "connecting" <=> inner = None)
    BY <1>2 DEF Lock
  <2>3. LockInv'
    <3>1. holder' = t /\ call' = call
      BY <1>2 DEF Lock
    <3>2. \A u \in Tasks : pc[u] \in {"idle", "waiting"}
      BY <1>0, <2>1 DEF LockInv
    <3> QED BY <1>0, <2>1, <2>2, <3>1, <3>2 DEF LockInv, TypeOK
  <2>4. /\ requests' \in [Conns -> Seq(Calls)]
        /\ \A k \in Conns : k # inner => requests'[k] = requests[k]
    <3>1. CASE requests' = requests
      BY <1>0, <3>1 DEF TypeOK
    <3>2. CASE /\ inner # None
               /\ requests' = [requests EXCEPT
                                 ![inner] = Append(@, call[t])]
      BY <1>0, <2>1, <3>2, AppendStream, StreamUpdate DEF TypeOK
    <3> QED BY <1>2, <3>1, <3>2 DEF Lock
  <2>5. TypeOK'
    BY <1>0, <1>2, <2>2, <2>4 DEF Lock, TypeOK
  <2>6. OpenedInv'
    <3>1. UNCHANGED <<inner, opened, broken, responses>>
      BY <1>2 DEF Lock
    <3>2. \A u \in Tasks : pc'[u] = (IF u = t THEN pc'[t] ELSE pc[u])
      BY <1>0, <2>2 DEF TypeOK
    <3>3. \A k \in Conns : k > opened => k # inner
      BY <1>0, Indices DEF OpenedInv, TypeOK, None
    <3> QED BY <1>0, <2>1, <2>2, <2>4, <3>1, <3>2, <3>3
            DEF OpenedInv, Exchanging, TypeOK
  <2> QED BY <2>3, <2>5, <2>6 DEF BaseInv
<1>3. ASSUME NEW t \in Tasks, FirstFails(t) PROVE BaseInv'
  <2>1. /\ holder = t /\ inner' = None
        /\ UNCHANGED <<holder, streams, call, calls, kind, executed, answer,
                       dropped>>
    BY <1>0, <1>3 DEF FirstFails, LockInv
  <2>2. /\ pc' \in [Tasks -> PCs]
        /\ pc' = [pc EXCEPT ![t] = "connecting"]
        /\ \A u \in Tasks \ {t} : pc[u] \in {"idle", "waiting"}
    BY <1>0, <1>3, <2>1 DEF FirstFails, TypeOK, LockInv, PCs
  <2>3. TypeOK'
    BY <1>0, <2>1, <2>2 DEF streams, TypeOK, PCs
  <2>4. LockInv'
    BY <1>0, <1>3, <2>1, <2>2 DEF LockInv, TypeOK, FirstFails
  <2>5. OpenedInv'
    <3>1. inner' <= opened'
      BY <1>0, <2>1, Indices DEF streams, TypeOK, None
    <3> QED BY <1>0, <2>1, <2>2, <3>1
            DEF streams, TypeOK, OpenedInv, Exchanging
  <2> QED BY <2>3, <2>4, <2>5 DEF BaseInv
<1>4. ASSUME NEW t \in Tasks, Connect(t) PROVE BaseInv'
  <2> DEFINE k == opened + 1
  <2>1. /\ k \in Conns /\ holder = t /\ call[t] \in Calls /\ k > opened
        /\ opened' = k /\ inner' = k
    BY <1>0, <1>4, WireAssumption DEF Connect, TypeOK, LockInv, Conns, None
  <2>2. /\ requests' \in [Conns -> Seq(Calls)]
        /\ \A j \in Conns \ {k} : requests'[j] = requests[j]
    BY <1>0, <1>4, <2>1, StreamUpdate, EmptyStream DEF Connect, TypeOK
  <2>3. TypeOK'
    BY <1>0, <1>4, <2>1, <2>2 DEF Connect, TypeOK
  <2>4. /\ UNCHANGED <<holder, broken, responses, call>>
        /\ pc' = [pc EXCEPT ![t] = "second"]
        /\ \A u \in Tasks \ {t} : pc[u] \in {"idle", "waiting"}
    BY <1>0, <1>4, <2>1 DEF Connect, LockInv
  <2>5. LockInv'
    BY <1>0, <1>4, <2>1, <2>4 DEF Connect, LockInv, TypeOK
  <2>6. OpenedInv'
    <3>1. \A j \in Conns : j > k => j > opened /\ j # k
      BY <1>0, <2>1, Indices DEF TypeOK, None
    <3>2. k <= k /\ k # None
      BY <2>1, Indices
    <3> QED BY <1>0, <2>1, <2>2, <2>4, <3>1, <3>2
            DEF OpenedInv, Exchanging, TypeOK
  <2> QED BY <2>3, <2>5, <2>6 DEF BaseInv
<1>5. ASSUME NEW t \in Tasks, ConnectFails(t) \/ SecondFails(t) PROVE BaseInv'
  <2>1. /\ holder = t /\ holder' = NoTask
        /\ pc' = [pc EXCEPT ![t] = "idle"]
        /\ UNCHANGED <<inner, streams, call, calls, kind, executed, answer,
                       dropped>>
    BY <1>0, <1>5 DEF ConnectFails, SecondFails, Return, LockInv
  <2>2. TypeOK'
    BY <1>0, <2>1 DEF TypeOK, streams
  <2> QED BY <1>0, <2>1, <2>2, Leaves DEF BaseInv, streams
<1>6. ASSUME NEW t \in Tasks, Receive(t) \/ TimeOut(t) PROVE BaseInv'
  <2>1. \/ UNCHANGED responses
        \/ /\ inner \in Conns /\ responses[inner] # << >> /\ Consume(inner)
    BY <1>0, <1>6 DEF Receive, TimeOut, OpenedInv, TypeOK, Exchanging
  <2>2. /\ responses' \in [Conns -> Seq(Calls)]
        /\ \A k \in Conns : responses[k] = << >> => responses'[k] = << >>
    <3>1. CASE UNCHANGED responses
      BY <1>0, <3>1 DEF TypeOK
    <3>2. CASE inner \in Conns /\ responses[inner] # << >> /\ Consume(inner)
      BY <1>0, <3>2, TailStream, StreamUpdate DEF Consume, TypeOK
    <3> QED BY <2>1, <3>1, <3>2
  <2>3. /\ holder' = (IF holder = t THEN NoTask ELSE holder)
        /\ pc' = [pc EXCEPT ![t] = "idle"]
        /\ UNCHANGED <<inner, opened, broken, requests, call, calls, kind,
                       executed>>
    BY <1>0, <1>6 DEF Receive, TimeOut, Return, LockInv
  <2>4. answer' \in [Calls -> Calls \cup {None}]
    <3>1. CASE TimeOut(t)
      BY <1>0, <3>1 DEF TimeOut, TypeOK
    <3>2. CASE Receive(t)
      <4>1. inner \in Conns /\ call[t] \in Calls /\ responses[inner] # << >>
        BY <1>0, <3>2 DEF Receive, OpenedInv, TypeOK, Exchanging, LockInv
      <4>2. Head(responses[inner]) \in Calls
        BY <1>0, <4>1, TailStream DEF TypeOK
      <4> QED BY <1>0, <3>2, <4>1, <4>2 DEF Receive, TypeOK
    <3> QED BY <1>6, <3>1, <3>2
  <2>5. dropped' \in BOOLEAN
    BY <1>0, <1>6 DEF Receive, TimeOut, TypeOK
  <2>6. TypeOK'
    <3>1. holder' \in Tasks \cup {NoTask}
      BY <1>0, <2>3 DEF TypeOK
    <3>2. pc' \in [Tasks -> PCs]
      BY <1>0, <2>3 DEF TypeOK, PCs
    <3> QED BY <1>0, <2>2, <2>3, <2>4, <2>5, <3>1, <3>2, Zenon
            DEF TypeOK, PCs
  <2>7. LockInv' /\ OpenedInv'
    BY <2>2, <2>3, Leaves
  <2> QED BY <2>6, <2>7 DEF BaseInv
<1>7. ASSUME NEW k \in Conns, Serve(k) PROVE BaseInv'
  <2> DEFINE c == Head(requests[k])
  <2>1. /\ requests[k] # << >> /\ requests[k] \in Seq(Calls)
        /\ c \in Calls /\ Tail(requests[k]) \in Seq(Calls)
    BY <1>0, <1>7, TailStream DEF Serve, TypeOK
  <2>2. /\ requests' \in [Conns -> Seq(Calls)]
        /\ \A j \in Conns \ {k} : requests'[j] = requests[j]
    BY <1>0, <1>7, <2>1, StreamUpdate DEF Serve, TypeOK
  <2>3. ~ (k > opened)
    BY <1>0, <2>1 DEF OpenedInv
  <2>4. /\ responses' \in [Conns -> Seq(Calls)]
        /\ \A j \in Conns \ {k} : responses'[j] = responses[j]
    <3>1. CASE responses' = responses
      BY <1>0, <3>1 DEF TypeOK
    <3>2. CASE responses' = [responses EXCEPT ![k] = Append(@, c)]
      BY <1>0, <2>1, <3>2, AppendStream, StreamUpdate DEF TypeOK
    <3> QED BY <1>7, <3>1, <3>2 DEF Serve
  <2>5. /\ UNCHANGED <<inner, holder, pc, opened, broken, call, calls, kind,
                       answer, dropped>>
        /\ executed' \in [Calls -> Nat]
    BY <1>0, <1>7, <2>1 DEF Serve, client, TypeOK
  <2> QED BY <1>0, <2>2, <2>3, <2>4, <2>5
          DEF BaseInv, TypeOK, LockInv, OpenedInv
<1>8. ASSUME NEW k \in Conns, Break(k) PROVE BaseInv'
  <2>1. ~ (k > opened)
    BY <1>0, <1>8, Indices DEF Break, OpenedInv, TypeOK, None
  <2>2. /\ responses' \in [Conns -> Seq(Calls)]
        /\ \A j \in Conns \ {k} : responses'[j] = responses[j]
    BY <1>0, <1>8, StreamUpdate, EmptyStream DEF Break, TypeOK
  <2>3. /\ requests' \in [Conns -> Seq(Calls)]
        /\ \A j \in Conns \ {k} : requests'[j] = requests[j]
    <3>1. CASE requests' = requests
      BY <1>0, <3>1 DEF TypeOK
    <3>2. CASE requests' = [requests EXCEPT ![k] = << >>]
      BY <1>0, <3>2, EmptyStream, StreamUpdate DEF TypeOK
    <3> QED BY <1>8, <3>1, <3>2 DEF Break
  <2>4. /\ broken' = broken \cup {k}
        /\ UNCHANGED <<inner, holder, pc, opened, call, calls, kind, executed,
                       answer, dropped>>
    BY <1>8 DEF Break, client
  <2> QED BY <1>0, <2>1, <2>2, <2>3, <2>4
          DEF BaseInv, TypeOK, LockInv, OpenedInv
<1>9. CASE UNCHANGED vars
  BY <1>0, <1>9 DEF vars, client, streams, BaseInv, TypeOK, LockInv, OpenedInv
<1> QED BY <1>1, <1>2, <1>3, <1>4, <1>5, <1>6, <1>7, <1>8, <1>9 DEF Next, Step

-----------------------------------------------------------------------------
(* No call is executed more than twice, and none answered twice.           *)

\* The connections that still hold a request of call c, and how many times
\* it has been executed or may yet be.
Pending(c) == {k \in Conns : c \in Range(requests[k])}
Spent(c)   == executed[c] + Cardinality(Pending(c))

\* Every call has a number of its own, and one task at most makes it.
CallInv ==
  /\ \A t \in Tasks : call[t] <= calls
  /\ \A t, u \in Tasks :
       pc[t] # "idle" /\ pc[u] # "idle" /\ call[t] = call[u] => t = u

\* A call is sent once on the connection there is and once on a new one.
SpentInv ==
  \A c \in Calls :
    /\ Spent(c) <= 2
    /\ c > calls => Spent(c) = 0
    /\ \A t \in Tasks : call[t] = c =>
         /\ pc[t] = "waiting" => Spent(c) = 0
         /\ pc[t] \in {"connecting", "first"} => Spent(c) <= 1

\* A connection carries a call once, as a request or as a response.
FrameInv ==
  \A k \in Conns :
    /\ IsInjective(requests[k]) /\ IsInjective(responses[k])
    /\ \A c \in Range(requests[k]) : c \notin Range(responses[k])

\* Only the connection in use holds responses, until it breaks.
LiveInv ==
  \A k \in Conns : responses[k] # << >> => k = inner /\ k \notin broken

\* What has been returned is in no stream in use and in no task's hands.
FreshInv ==
  /\ \A k \in Conns : \A c \in Range(responses[k]) : executed[c] > 0
  /\ inner # None /\ inner \notin broken =>
       \A c \in Range(requests[inner]) \cup Range(responses[inner]) :
         \A d \in Calls : answer[d] # c
  /\ \A t \in Tasks : pc[t] # "idle" => \A d \in Calls : answer[d] # call[t]

OnceInv == /\ BaseInv /\ CallInv /\ SpentInv
           /\ FrameInv /\ LiveInv /\ FreshInv /\ NoAnswerTwice

LEMMA ConnsFinite ==
  \A S \in SUBSET Conns : IsFiniteSet(S) /\ Cardinality(S) \in Nat
<1>1. IsFiniteSet(Conns)
  BY WireAssumption, FS_Interval DEF Conns
<1> QED BY <1>1, FS_Subset, FS_CardinalityType

LEMMA PendingCount ==
  ASSUME BaseInv, NEW c \in Calls
  PROVE  /\ IsFiniteSet(Pending(c)) /\ Cardinality(Pending(c)) \in Nat
         /\ Spent(c) \in Nat
         /\ Spent(c) = 0 => executed[c] = 0 /\ Pending(c) = {}
<1>2. IsFiniteSet(Pending(c)) /\ Cardinality(Pending(c)) \in Nat
  BY ConnsFinite DEF Pending
<1>3. executed[c] \in Nat
  BY DEF BaseInv, TypeOK
<1>4. Cardinality(Pending(c)) = 0 => Pending(c) = {}
  BY <1>2, FS_EmptySet
<1> QED BY <1>2, <1>3, <1>4 DEF Spent

\* What the count becomes when requests leave streams ...
LEMMA SpentShrinks ==
  ASSUME BaseInv, BaseInv', NEW c \in Calls, executed'[c] = executed[c],
         \A k \in Conns : c \in Range(requests'[k]) => c \in Range(requests[k])
  PROVE  Spent(c)' <= Spent(c)
<1>1. Pending(c)' \subseteq Pending(c)
  BY DEF Pending
<1>2. Cardinality(Pending(c)') <= Cardinality(Pending(c))
  BY <1>1, PendingCount, FS_Subset
<1>3. /\ Cardinality(Pending(c)) \in Nat /\ executed[c] \in Nat
      /\ Spent(c)' = executed[c] + Cardinality(Pending(c)')
      /\ Cardinality(Pending(c)') \in Nat
  <2>1. IsFiniteSet(Pending(c)')
    BY <1>1, PendingCount, FS_Subset
  <2> QED BY <2>1, PendingCount, FS_CardinalityType DEF BaseInv, TypeOK, Spent
<1> QED BY <1>2, <1>3 DEF Spent

\* ... when one is sent ...
LEMMA SpentGrows ==
  ASSUME BaseInv, NEW c \in Calls, executed'[c] = executed[c],
         NEW k \in Conns, \A j \in Conns \ {k} : requests'[j] = requests[j]
  PROVE  Spent(c)' <= Spent(c) + 1
<1>1. Pending(c)' \subseteq Pending(c) \cup {k}
  BY DEF Pending
<1>2. /\ IsFiniteSet(Pending(c) \cup {k})
      /\ Cardinality(Pending(c) \cup {k}) <= Cardinality(Pending(c)) + 1
  <2>1. IsFiniteSet(Pending(c)) /\ Cardinality(Pending(c)) \in Nat
    BY PendingCount
  <2>2. Cardinality(Pending(c) \cup {k}) =
          IF k \in Pending(c) THEN Cardinality(Pending(c))
                              ELSE Cardinality(Pending(c)) + 1
    BY <2>1, FS_AddElement, Zenon
  <2>3. IsFiniteSet(Pending(c) \cup {k})
    BY <2>1, FS_AddElement
  <2> QED BY <2>1, <2>2, <2>3
<1>3. /\ Cardinality(Pending(c)') <= Cardinality(Pending(c)) + 1
      /\ Cardinality(Pending(c)') \in Nat
  <2>1. /\ IsFiniteSet(Pending(c)')
        /\ Cardinality(Pending(c)') <= Cardinality(Pending(c) \cup {k})
    BY <1>1, <1>2, FS_Subset
  <2>2. /\ Cardinality(Pending(c)') \in Nat
        /\ Cardinality(Pending(c) \cup {k}) \in Nat
    BY <1>2, <2>1, FS_CardinalityType
  <2> QED BY <1>2, <2>1, <2>2, PendingCount
<1>4. executed[c] \in Nat /\ Cardinality(Pending(c)) \in Nat
  BY PendingCount DEF BaseInv, TypeOK
<1> QED BY <1>3, <1>4 DEF Spent

\* ... and when one is served.
LEMMA SpentServed ==
  ASSUME BaseInv, NEW c \in Calls, executed'[c] = executed[c] + 1,
         NEW k \in Conns, \A j \in Conns \ {k} : requests'[j] = requests[j],
         c \in Range(requests[k]), c \notin Range(requests'[k])
  PROVE  Spent(c)' <= Spent(c)
<1>1. Pending(c)' = Pending(c) \ {k} /\ k \in Pending(c)
  BY DEF Pending
<1>2. Cardinality(Pending(c)') = Cardinality(Pending(c)) - 1
  BY <1>1, PendingCount, FS_RemoveElement
<1>3. executed[c] \in Nat /\ Cardinality(Pending(c)) \in Nat
  BY PendingCount DEF BaseInv, TypeOK
<1> QED BY <1>2, <1>3 DEF Spent

\* A request is sent on one connection, which is then the one in use.
Sends(t, k) ==
  /\ Lock(t) \/ Connect(t)
  /\ call[t] \in Calls
  /\ k = inner' /\ k \notin broken'
  /\ requests' = [requests EXCEPT ![k] = Append(@, call[t])]
  /\ inner' # inner => requests[k] = << >> /\ responses[k] = << >>
  /\ inner \in {inner', None}
  /\ UNCHANGED <<broken, responses, executed, answer, call, calls>>

LEMMA SendOrNot ==
  ASSUME BaseInv, NEW t \in Tasks, Lock(t) \/ Connect(t)
  PROVE  \/ \E k \in Conns : Sends(t, k)
         \/ /\ Lock(t)
            /\ UNCHANGED <<streams, inner, executed, answer, call, calls>>
<1>1. CASE Lock(t)
  <2>1. call[t] \in Calls
    BY <1>1 DEF Lock, MayLock, BaseInv, LockInv
  <2>2. CASE requests' = requests
    BY <1>1, <2>2 DEF Lock, streams
  <2>3. CASE /\ inner # None /\ inner \notin broken
             /\ requests' = [requests EXCEPT ![inner] = Append(@, call[t])]
    <3>1. inner \in Conns
      BY <2>3 DEF BaseInv, TypeOK
    <3> QED BY <1>1, <2>1, <2>3, <3>1 DEF Lock, Sends
  <2> QED BY <1>1, <2>2, <2>3 DEF Lock
<1>2. CASE Connect(t)
  <2> DEFINE k == opened + 1
  <2>1. k \in Conns /\ k > opened /\ call[t] \in Calls /\ inner = None
    BY <1>2, WireAssumption
       DEF Connect, BaseInv, TypeOK, LockInv, OpenedInv, Conns, None
  <2>2. k \notin broken /\ requests[k] = << >> /\ responses[k] = << >>
    BY <2>1 DEF BaseInv, OpenedInv
  <2>3. Append(requests[k], call[t]) = <<call[t]>>
    BY <2>2
  <2>4. requests' = [requests EXCEPT ![k] = Append(@, call[t])]
    BY <1>2, <2>1, <2>3 DEF Connect, BaseInv, TypeOK
  <2> QED BY <1>2, <2>1, <2>2, <2>4 DEF Connect, Sends
<1> QED BY <1>1, <1>2

\* The count of a call rises only when a task sends the request it makes.
LEMMA NextSpent ==
  ASSUME BaseInv, BaseInv', FrameInv, [Next]_vars, NEW c \in Calls
  PROVE  \/ Spent(c)' <= Spent(c)
         \/ /\ Spent(c)' <= Spent(c) + 1
            /\ \E t \in Tasks : call[t] = c /\ (Lock(t) \/ Connect(t))
<1> USE DEF BaseInv
<1>1. ASSUME NEW t \in Tasks, Lock(t) \/ Connect(t)
      PROVE  \/ Spent(c)' <= Spent(c)
             \/ /\ Spent(c)' <= Spent(c) + 1
                /\ \E u \in Tasks : call[u] = c /\ (Lock(u) \/ Connect(u))
  <2>1. CASE UNCHANGED <<streams, executed>>
    BY <2>1, SpentShrinks DEF streams
  <2>2. ASSUME NEW k \in Conns, Sends(t, k)
        PROVE  \/ Spent(c)' <= Spent(c)
               \/ Spent(c)' <= Spent(c) + 1 /\ call[t] = c
    <3>1. /\ executed'[c] = executed[c] /\ call[t] \in Calls
          /\ requests[k] \in Seq(Calls)
          /\ \A j \in Conns \ {k} : requests'[j] = requests[j]
          /\ requests'[k] = Append(requests[k], call[t])
      BY <2>2 DEF Sends, TypeOK
    <3>2. Range(requests'[k]) = Range(requests[k]) \cup {call[t]}
      BY <3>1, AppendStream
    <3>3. CASE call[t] = c
      BY <3>1, <3>3, SpentGrows
    <3>4. CASE call[t] # c
      BY <3>1, <3>2, <3>4, SpentShrinks
    <3> QED BY <3>3, <3>4
  <2> QED BY <1>1, <2>1, <2>2, SendOrNot
<1>2. ASSUME NEW k \in Conns, Serve(k) PROVE Spent(c)' <= Spent(c)
  <2> DEFINE d == Head(requests[k])
  <2>1. /\ requests[k] \in Seq(Calls) /\ requests[k] # << >>
        /\ requests'[k] = Tail(requests[k])
        /\ \A j \in Conns \ {k} : requests'[j] = requests[j]
        /\ executed' = [executed EXCEPT ![d] = @ + 1]
    BY <1>2 DEF Serve, TypeOK
  <2>2. /\ d \in Calls /\ d \in Range(requests[k])
        /\ d \notin Range(requests'[k])
        /\ Range(requests'[k]) \subseteq Range(requests[k])
    BY <2>1, TailStream DEF FrameInv
  <2>3. CASE c = d
    BY <2>1, <2>2, <2>3, SpentServed DEF TypeOK
  <2>4. CASE c # d
    BY <2>1, <2>2, <2>4, SpentShrinks DEF TypeOK
  <2> QED BY <2>3, <2>4
<1>3. ASSUME UNCHANGED executed,
             \A k \in Conns : requests'[k] \in {requests[k], << >>}
      PROVE  Spent(c)' <= Spent(c)
  BY <1>3, SpentShrinks, EmptyStream
<1>4. ASSUME NEW k \in Conns, Break(k)
      PROVE  /\ UNCHANGED executed
             /\ \A j \in Conns : requests'[j] \in {requests[j], << >>}
  BY <1>4 DEF Break, TypeOK
<1>5. ASSUME NEW t \in Tasks,
             \/ Call(t) \/ FirstFails(t) \/ ConnectFails(t) \/ SecondFails(t)
             \/ Receive(t) \/ TimeOut(t)
      PROVE  UNCHANGED <<executed, requests>>
  BY <1>5 DEF Call, FirstFails, ConnectFails, SecondFails, Receive, TimeOut,
              streams
<1>6. CASE UNCHANGED vars
  BY <1>3, <1>6 DEF vars, streams
<1> QED BY <1>1, <1>2, <1>3, <1>4, <1>5, <1>6 DEF Next, Step

\* How a step moves a task, as far as its call is concerned.
LEMMA NextTask ==
  ASSUME BaseInv, [Next]_vars, NEW u \in Tasks
  PROVE  \/ /\ Call(u) /\ pc'[u] = "waiting" /\ calls + 1 \in Calls
            /\ call'[u] = calls + 1 /\ calls' = calls + 1
            /\ \A t \in Tasks \ {u} : call'[t] = call[t] /\ pc'[t] = pc[t]
         \/ /\ call'[u] = call[u] /\ (pc'[u] # "idle" => pc[u] # "idle")
            /\ pc'[u] = "waiting" =>
                 pc[u] = "waiting" /\ ~ Lock(u) /\ ~ Connect(u)
            /\ pc'[u] \in {"connecting", "first"} =>
                 \/ pc[u] = "waiting"
                 \/ /\ pc[u] \in {"connecting", "first"}
                    /\ ~ Lock(u) /\ ~ Connect(u)
            /\ calls' \in {calls, calls + 1}
<1>1. ASSUME NEW t \in Tasks, Call(t) \/ Step(t) \/ TimeOut(t)
      PROVE  \A s \in Tasks \ {t} : pc'[s] = pc[s] /\ call'[s] = call[s]
  BY <1>1 DEF Step, Call, Lock, FirstFails, Connect, ConnectFails, SecondFails,
              Receive, TimeOut, Return, BaseInv, TypeOK
<1>2. ASSUME NEW k \in Conns, Serve(k) \/ Break(k)
      PROVE  UNCHANGED <<pc, call, calls>>
  BY <1>2 DEF Serve, Break, client
<1>3. Lock(u) => pc'[u] \in {"connecting", "first"} /\ pc[u] = "waiting"
  BY DEF Lock, MayLock, BaseInv, TypeOK
<1>4. Connect(u) => pc'[u] = "second"
  BY DEF Connect, BaseInv, TypeOK
<1>5. CASE Call(u)
  <2>1. calls + 1 \in Calls
    BY <1>5, WireAssumption DEF Call, BaseInv, TypeOK, Calls, None
  <2> QED BY <1>1, <1>5, <2>1 DEF Call, BaseInv, TypeOK
<1>6. CASE \/ UNCHANGED <<pc, call, calls>>
           \/ \E t \in Tasks \ {u} : Call(t) \/ Step(t) \/ TimeOut(t)
  <2>1. pc'[u] = pc[u] /\ call'[u] = call[u]
    BY <1>1, <1>6
  <2>2. calls' \in {calls, calls + 1}
    BY <1>6 DEF Step, Call, Lock, FirstFails, Connect, ConnectFails,
                SecondFails, Receive, TimeOut
  <2> QED BY <1>3, <1>4, <2>1, <2>2
<1>7. CASE Step(u) \/ TimeOut(u)
  BY <1>3, <1>4, <1>7
     DEF Step, Lock, MayLock, FirstFails, Connect, ConnectFails, SecondFails,
         Receive, TimeOut, Return, BaseInv, TypeOK
<1> QED BY <1>2, <1>5, <1>6, <1>7 DEF Next, vars, client

LEMMA CallStep == BaseInv /\ CallInv /\ [Next]_vars => CallInv'
<1> SUFFICES ASSUME BaseInv, CallInv, [Next]_vars PROVE CallInv'
  OBVIOUS
<1>1. calls \in Nat /\ \A t \in Tasks : call[t] \in Nat /\ call[t] <= calls
  BY WireAssumption DEF BaseInv, TypeOK, Calls, None, CallInv
<1>2. \A t \in Tasks : call'[t] <= calls'
  BY <1>1, NextTask
<1>3. ASSUME NEW t \in Tasks, NEW u \in Tasks,
             pc'[t] # "idle", pc'[u] # "idle", call'[t] = call'[u]
      PROVE  t = u
  <2>1. CASE Call(t)
    <3>1. call'[t] = calls + 1 /\ (u # t => call'[u] = call[u])
      BY <2>1, NextTask DEF Call, BaseInv, TypeOK
    <3> QED BY <1>1, <1>3, <3>1
  <2>3. CASE Call(u)
    <3>1. call'[u] = calls + 1 /\ (u # t => call'[t] = call[t])
      BY <2>3, NextTask DEF Call, BaseInv, TypeOK
    <3> QED BY <1>1, <1>3, <3>1
  <2>2. CASE ~ Call(t) /\ ~ Call(u)
    BY <1>3, <2>2, NextTask DEF CallInv
  <2> QED BY <2>1, <2>2, <2>3
<1> QED BY <1>2, <1>3 DEF CallInv

LEMMA SpentStep ==
  BaseInv /\ BaseInv' /\ CallInv /\ FrameInv /\ SpentInv /\ [Next]_vars
    => SpentInv'
<1> SUFFICES ASSUME BaseInv, BaseInv', CallInv, FrameInv, SpentInv,
                    [Next]_vars, NEW c \in Calls
             PROVE  /\ Spent(c)' <= 2
                    /\ c > calls' => Spent(c)' = 0
                    /\ \A u \in Tasks : call'[u] = c =>
                         /\ pc'[u] = "waiting" => Spent(c)' = 0
                         /\ pc'[u] \in {"connecting", "first"} =>
                              Spent(c)' <= 1
  BY DEF SpentInv
<1>1. Spent(c) \in Nat /\ Spent(c)' \in Nat
  <2>1. Cardinality(Pending(c)') \in Nat /\ executed'[c] \in Nat
    BY ConnsFinite DEF Pending, BaseInv, TypeOK
  <2> QED BY <2>1, PendingCount DEF Spent
<1>2. calls \in Nat /\ c \in Nat /\ \A t \in Tasks : call[t] <= calls
  BY WireAssumption DEF BaseInv, TypeOK, Calls, None, CallInv
<1>3. /\ Spent(c) <= 2 /\ (c > calls => Spent(c) = 0)
      /\ \A t \in Tasks : call[t] = c =>
           /\ pc[t] = "waiting" => Spent(c) = 0
           /\ pc[t] \in {"connecting", "first"} => Spent(c) <= 1
  BY DEF SpentInv
<1>4. \A t \in Tasks : Lock(t) => pc[t] = "waiting"
  BY DEF Lock, MayLock
<1>5. \A t \in Tasks : Connect(t) => pc[t] = "connecting"
  BY DEF Connect
<1>6. calls' \in {calls, calls + 1}
  <2>1. \A t \in Tasks : Call(t) \/ Step(t) \/ TimeOut(t) =>
          calls' \in {calls, calls + 1}
    BY DEF Step, Call, Lock, FirstFails, Connect, ConnectFails, SecondFails,
           Receive, TimeOut
  <2>2. \A k \in Conns : Serve(k) \/ Break(k) => calls' = calls
    BY DEF Serve, Break
  <2> QED BY <2>1, <2>2 DEF Next, vars
<1>7. Spent(c)' <= 2
  BY <1>1, <1>3, <1>4, <1>5, NextSpent
<1>8. c > calls => Spent(c)' = 0
  BY <1>1, <1>2, <1>3, NextSpent
<1>9. ASSUME NEW u \in Tasks, call'[u] = c
      PROVE  /\ pc'[u] = "waiting" => Spent(c)' = 0
             /\ pc'[u] \in {"connecting", "first"} => Spent(c)' <= 1
  <2>1. CASE Call(u)
    <3>1. c > calls /\ pc'[u] = "waiting"
      BY <1>2, <1>9, <2>1 DEF Call, BaseInv, TypeOK
    <3> QED BY <1>8, <3>1
  <2>2. CASE ~ Call(u)
    <3>1. /\ call[u] = c /\ (pc'[u] # "idle" => pc[u] # "idle")
          /\ pc'[u] = "waiting" =>
                 pc[u] = "waiting" /\ ~ Lock(u) /\ ~ Connect(u)
          /\ pc'[u] \in {"connecting", "first"} =>
                 \/ pc[u] = "waiting"
                 \/ /\ pc[u] \in {"connecting", "first"}
                    /\ ~ Lock(u) /\ ~ Connect(u)
      BY <1>9, <2>2, NextTask
    <3>2. pc'[u] # "idle" =>
            \A t \in Tasks : call[t] = c /\ (Lock(t) \/ Connect(t)) => t = u
      BY <1>4, <1>5, <3>1 DEF CallInv
    <3> QED BY <1>1, <1>3, <3>1, <3>2, NextSpent
  <2> QED BY <2>1, <2>2
<1> QED BY <1>2, <1>6, <1>7, <1>8, <1>9

\* A task whose call is not over makes a call no response has answered.
LEMMA FreshCalls ==
  ASSUME OnceInv, [Next]_vars, NEW t \in Tasks, pc'[t] # "idle"
  PROVE  \A d \in Calls : answer[d] # call'[t]
<1>1. CASE call'[t] = call[t] /\ pc[t] # "idle"
  BY <1>1 DEF OnceInv, FreshInv
<1>2. CASE call'[t] = calls + 1 /\ calls + 1 \in Calls
  <2>1. calls + 1 > calls
    BY WireAssumption DEF OnceInv, BaseInv, TypeOK, Calls, None
  <2>2. executed[calls + 1] = 0
    BY <1>2, <2>1, PendingCount DEF OnceInv, SpentInv
  <2>3. \A d \in Calls : answer[d] = calls + 1 => executed[calls + 1] > 0
    BY <1>2, Indices DEF OnceInv, NoAnswerTwice
  <2> QED BY <1>2, <2>2, <2>3
<1> QED BY <1>1, <1>2, NextTask DEF OnceInv

\* A call waiting for its turn has been sent nowhere.
LEMMA WaitingUnsent ==
  ASSUME OnceInv, NEW t \in Tasks, pc[t] = "waiting"
  PROVE  /\ call[t] \in Calls /\ executed[call[t]] = 0
         /\ \A k \in Conns : call[t] \notin Range(requests[k])
                             /\ call[t] \notin Range(responses[k])
<1>1. call[t] \in Calls
  BY DEF OnceInv, BaseInv, LockInv
<1>2. executed[call[t]] = 0 /\ Pending(call[t]) = {}
  BY <1>1, PendingCount DEF OnceInv, SpentInv
<1> QED BY <1>1, <1>2 DEF OnceInv, Pending, FreshInv

\* Streams that lose frames lose none of this.
LEMMA Quiet ==
  ASSUME OnceInv,
         \A k \in Conns : requests'[k] \in {requests[k], << >>},
         \A k \in Conns :
           \/ responses'[k] \in {responses[k], << >>}
           \/ responses[k] # << >> /\ responses'[k] = Tail(responses[k]),
         UNCHANGED <<executed, answer>>,
         inner' # None /\ inner' \notin broken' =>
           inner' = inner /\ inner \notin broken,
         \A t \in Tasks : pc'[t] # "idle" =>
           \A d \in Calls : answer[d] # call'[t]
  PROVE  FrameInv' /\ FreshInv' /\ NoAnswerTwice'
<1>1. \A k \in Conns :
        requests[k] \in Seq(Calls) /\ responses[k] \in Seq(Calls)
  BY DEF OnceInv, BaseInv, TypeOK
<1>2. \A k \in Conns : /\ IsInjective(requests'[k])
                       /\ Range(requests'[k]) \subseteq Range(requests[k])
  BY EmptyStream DEF OnceInv, FrameInv
<1>3. \A k \in Conns : /\ IsInjective(responses'[k])
                       /\ Range(responses'[k]) \subseteq Range(responses[k])
  <2> TAKE k \in Conns
  <2>1. IsInjective(responses[k])
    BY DEF OnceInv, FrameInv
  <2> QED BY <1>1, <2>1, EmptyStream, TailStream
<1>4. FrameInv'
  BY <1>2, <1>3 DEF OnceInv, FrameInv
<1>5. FreshInv'
  <2>1. inner \in Conns \cup {None}
    BY DEF OnceInv, BaseInv, TypeOK
  <2>2. \A k \in Conns : \A c \in Range(responses'[k]) : executed'[c] > 0
    BY <1>3 DEF OnceInv, FreshInv
  <2>3. inner' # None /\ inner' \notin broken' =>
          \A c \in Range(requests'[inner']) \cup Range(responses'[inner']) :
            \A d \in Calls : answer'[d] # c
    BY <1>2, <1>3, <2>1 DEF OnceInv, FreshInv
  <2> QED BY <2>2, <2>3 DEF FreshInv
<1>6. NoAnswerTwice'
  BY DEF OnceInv, NoAnswerTwice
<1> QED BY <1>4, <1>5, <1>6

LEMMA SendOnce ==
  ASSUME OnceInv, [Next]_vars, NEW t \in Tasks, NEW k \in Conns, Sends(t, k)
  PROVE  FrameInv' /\ LiveInv' /\ FreshInv' /\ NoAnswerTwice'
<1>1. /\ requests[k] \in Seq(Calls) /\ call[t] \in Calls
      /\ \A j \in Conns \ {k} : requests'[j] = requests[j]
      /\ requests'[k] = Append(requests[k], call[t])
      /\ k = inner' /\ k # None
      /\ UNCHANGED <<broken, responses, executed, answer, call>>
  BY Indices DEF Sends, OnceInv, BaseInv, TypeOK
<1>2. call[t] \notin Range(requests[k]) /\ call[t] \notin Range(responses[k])
  <2>1. CASE inner' # inner
    BY <2>1, EmptyStream DEF Sends
  <2>2. CASE inner' = inner
    <3>1. ~ Connect(t)
      BY <1>1, <2>2 DEF Connect, OnceInv, BaseInv, OpenedInv
    <3> QED BY <3>1, WaitingUnsent DEF Sends, Lock, MayLock
  <2> QED BY <2>1, <2>2
<1>3. pc[t] # "idle"
  BY DEF Sends, Lock, MayLock, Connect
<1>4. /\ Range(requests'[k]) = Range(requests[k]) \cup {call[t]}
      /\ IsInjective(requests'[k])
  BY <1>1, <1>2, AppendStream DEF OnceInv, FrameInv
<1>5. FrameInv'
  BY <1>1, <1>2, <1>4 DEF OnceInv, FrameInv
<1>6. LiveInv'
  BY <1>1, Indices DEF OnceInv, LiveInv, Sends
<1>7. FreshInv'
  <2>1. \A c \in Range(requests[k]) \cup Range(responses[k]) :
          \A d \in Calls : answer[d] # c
    <3>1. CASE inner' = inner
      BY <1>1, <3>1 DEF Sends, OnceInv, FreshInv
    <3>2. CASE inner' # inner
      BY <3>2, EmptyStream DEF Sends
    <3> QED BY <3>1, <3>2
  <2>2. \A d \in Calls : answer[d] # call[t]
    BY <1>3 DEF OnceInv, FreshInv
  <2>3. \A c \in Range(requests'[inner']) \cup Range(responses'[inner']) :
          \A d \in Calls : answer'[d] # c
    BY <1>1, <1>4, <2>1, <2>2
  <2>4. \A u \in Tasks : pc'[u] # "idle" =>
          \A d \in Calls : answer'[d] # call'[u]
    BY <1>1, FreshCalls
  <2> QED BY <1>1, <2>3, <2>4 DEF OnceInv, FreshInv
<1>8. NoAnswerTwice'
  BY <1>1 DEF OnceInv, NoAnswerTwice
<1> QED BY <1>5, <1>6, <1>7, <1>8

LEMMA ServeOnce ==
  ASSUME OnceInv, [Next]_vars, NEW k \in Conns, Serve(k)
  PROVE  FrameInv' /\ LiveInv' /\ FreshInv' /\ NoAnswerTwice'
<1> DEFINE c == Head(requests[k])
<1>1. /\ requests[k] \in Seq(Calls) /\ responses[k] \in Seq(Calls)
      /\ requests[k] # << >> /\ requests'[k] = Tail(requests[k])
      /\ \A j \in Conns \ {k} : requests'[j] = requests[j]
      /\ executed' = [executed EXCEPT ![c] = @ + 1]
      /\ UNCHANGED <<inner, pc, broken, call, answer>>
  BY DEF Serve, OnceInv, BaseInv, TypeOK, client
<1>2. /\ c \in Calls /\ c \in Range(requests[k])
      /\ c \notin Range(requests'[k]) /\ IsInjective(requests'[k])
      /\ Range(requests'[k]) \subseteq Range(requests[k])
      /\ c \notin Range(responses[k])
  BY <1>1, TailStream DEF OnceInv, FrameInv
<1>3. executed'[c] > 0 /\ \A d \in Calls : executed[d] > 0 => executed'[d] > 0
  BY <1>1, <1>2 DEF OnceInv, BaseInv, TypeOK
<1>4. /\ \A j \in Conns \ {k} : responses'[j] = responses[j]
      /\ \/ responses'[k] = responses[k]
         \/ /\ k = inner /\ k \notin broken
            /\ responses'[k] = Append(responses[k], c)
  BY <1>1 DEF Serve, OnceInv, BaseInv, TypeOK
<1>5. /\ Range(responses'[k]) \subseteq Range(responses[k]) \cup {c}
      /\ IsInjective(responses'[k])
      /\ \A d \in Range(requests'[k]) : d \notin Range(responses'[k])
  <2>1. CASE responses'[k] = responses[k]
    BY <1>2, <2>1 DEF OnceInv, FrameInv
  <2>2. CASE responses'[k] = Append(responses[k], c)
    <3>1. /\ IsInjective(responses[k])
          /\ \A d \in Range(requests[k]) : d \notin Range(responses[k])
      BY DEF OnceInv, FrameInv
    <3>2. /\ Range(responses'[k]) = Range(responses[k]) \cup {c}
          /\ IsInjective(responses'[k])
      BY <1>1, <1>2, <2>2, <3>1, AppendStream
    <3> QED BY <1>2, <3>1, <3>2
  <2> QED BY <1>4, <2>1, <2>2
<1>6. FrameInv'
  BY <1>1, <1>2, <1>4, <1>5 DEF OnceInv, FrameInv
<1>7. LiveInv'
  BY <1>1, <1>4 DEF OnceInv, LiveInv
<1>8. FreshInv'
  <2>1. \A j \in Conns : \A d \in Range(responses'[j]) : executed'[d] > 0
    <3> TAKE j \in Conns
    <3>1. \A d \in Range(responses[j]) : d \in Calls /\ executed[d] > 0
      BY DEF OnceInv, FreshInv, BaseInv, TypeOK, Range
    <3> QED BY <1>3, <1>4, <1>5, <3>1
  <2>2. inner' # None /\ inner' \notin broken' =>
          \A d \in Range(requests'[inner']) \cup Range(responses'[inner']) :
            \A e \in Calls : answer'[e] # d
    <3>1. inner \in Conns \cup {None}
      BY DEF OnceInv, BaseInv, TypeOK
    <3>2. ASSUME NEW j \in Conns
          PROVE  Range(requests'[j]) \cup Range(responses'[j])
                   \subseteq Range(requests[j]) \cup Range(responses[j])
      BY <1>1, <1>2, <1>4, <1>5
    <3> QED BY <1>1, <3>1, <3>2 DEF OnceInv, FreshInv
  <2> QED BY <1>1, <2>1, <2>2 DEF OnceInv, FreshInv
<1>9. NoAnswerTwice'
  <2>1. \A d \in Calls : answer[d] # None => answer[d] \in Calls
    BY DEF OnceInv, BaseInv, TypeOK
  <2> QED BY <1>1, <1>3, <2>1 DEF OnceInv, NoAnswerTwice
<1> QED BY <1>6, <1>7, <1>8, <1>9

LEMMA ReceiveOnce ==
  ASSUME OnceInv, [Next]_vars, NEW t \in Tasks, Receive(t)
  PROVE  FrameInv' /\ LiveInv' /\ FreshInv' /\ NoAnswerTwice'
<1> DEFINE k == inner
           c == Head(responses[inner])
<1>1. /\ k \in Conns /\ k # None /\ k \notin broken /\ responses[k] # << >>
      /\ call[t] \in Calls /\ holder = t
      /\ responses[k] \in Seq(Calls)
  BY DEF Receive, OnceInv, BaseInv, OpenedInv, LockInv, TypeOK, Exchanging
<1>2. /\ responses'[k] = Tail(responses[k])
      /\ \A j \in Conns \ {k} : responses'[j] = responses[j]
      /\ UNCHANGED <<inner, broken, requests, executed, call>>
      /\ pc' = [pc EXCEPT ![t] = "idle"]
  BY <1>1 DEF Receive, Consume, Return, OnceInv, BaseInv, TypeOK
<1>3. /\ c \in Calls /\ c \in Range(responses[k])
      /\ c \notin Range(responses'[k])
      /\ Range(responses'[k]) \subseteq Range(responses[k])
      /\ c \notin Range(requests[k])
  BY <1>1, <1>2, TailStream DEF OnceInv, FrameInv
<1>4. LiveInv'
  BY <1>1, <1>2 DEF OnceInv, LiveInv
<1>5. CASE answer' = answer
  BY <1>1, <1>2, <1>4, <1>5, FreshCalls, Quiet
<1>6. CASE answer' = [answer EXCEPT ![call[t]] = c]
  <2>1. FrameInv'
    <3>1. IsInjective(responses'[k])
      BY <1>1, <1>2, TailStream DEF OnceInv, FrameInv
    <3> QED BY <1>2, <1>3, <3>1 DEF OnceInv, FrameInv
  <2>2. executed[c] > 0 /\ \A d \in Calls : answer[d] # c
    BY <1>1, <1>3 DEF OnceInv, FreshInv
  <2>3. \A d \in Calls : answer'[d] = (IF d = call[t] THEN c ELSE answer[d])
    BY <1>1, <1>6 DEF OnceInv, BaseInv, TypeOK
  <2>4. NoAnswerTwice'
    BY <1>2, <1>3, <2>2, <2>3 DEF OnceInv, NoAnswerTwice
  <2>5. FreshInv'
    <3>1. \A d \in Range(requests'[inner']) \cup Range(responses'[inner']) :
            d # c /\ \A e \in Calls : answer[e] # d
      BY <1>1, <1>2, <1>3 DEF OnceInv, FreshInv
    <3>2. ASSUME NEW u \in Tasks, pc'[u] # "idle"
          PROVE  call[u] # c /\ \A e \in Calls : answer[e] # call[u]
      <4>1. u # t /\ pc[u] # "idle"
        BY <1>2, <3>2 DEF OnceInv, BaseInv, TypeOK
      <4>2. pc[u] = "waiting"
        BY <1>1, <4>1 DEF OnceInv, BaseInv, LockInv
      <4> QED BY <1>1, <1>3, <4>1, <4>2, WaitingUnsent DEF OnceInv, FreshInv
    <3>3. \A j \in Conns : \A d \in Range(responses'[j]) : executed'[d] > 0
      BY <1>2, <1>3 DEF OnceInv, FreshInv
    <3> QED BY <1>2, <2>3, <3>1, <3>2, <3>3 DEF FreshInv
  <2> QED BY <1>4, <2>1, <2>4, <2>5
<1> QED BY <1>5, <1>6 DEF Receive

LEMMA OnceStep == OnceInv /\ [Next]_vars => OnceInv'
<1> SUFFICES ASSUME OnceInv, [Next]_vars PROVE OnceInv'
  OBVIOUS
<1> DEFINE Rest == FrameInv' /\ LiveInv' /\ FreshInv' /\ NoAnswerTwice'
<1>0. /\ TypeOK /\ LiveInv
      /\ \A k \in Conns : responses[k] \in Seq(Calls)
      /\ inner \in Conns \cup {None} /\ None \notin Conns
  BY Indices DEF OnceInv, BaseInv, TypeOK
<1>1. BaseInv' /\ CallInv' /\ SpentInv'
  BY BaseStep, CallStep, SpentStep DEF OnceInv
<1>2. ASSUME NEW t \in Tasks, Lock(t) \/ Connect(t) PROVE Rest
  <2>1. CASE \E k \in Conns : Sends(t, k)
    BY <2>1, SendOnce
  <2>2. CASE UNCHANGED <<streams, inner, executed, answer>>
    BY <1>0, <2>2, FreshCalls, Quiet DEF streams, LiveInv
  <2> QED BY <1>2, <2>1, <2>2, SendOrNot DEF OnceInv
<1>3. ASSUME NEW t \in Tasks,
             Call(t) \/ FirstFails(t) \/ ConnectFails(t) \/ SecondFails(t)
      PROVE  Rest
  <2>1. /\ UNCHANGED <<streams, executed, answer>>
        /\ inner' = inner \/ (inner' = None /\ inner \in broken)
    BY <1>3 DEF Call, FirstFails, ConnectFails, SecondFails
  <2>2. LiveInv'
    BY <1>0, <2>1 DEF streams, LiveInv
  <2> QED BY <2>1, <2>2, FreshCalls, Quiet DEF streams
<1>4. ASSUME NEW t \in Tasks, TimeOut(t) PROVE Rest
  <2>1. UNCHANGED <<inner, broken, requests, executed, answer>>
    BY <1>4 DEF TimeOut
  <2>2. \A k \in Conns :
          \/ responses'[k] = responses[k]
          \/ responses[k] # << >> /\ responses'[k] = Tail(responses[k])
    BY <1>0, <1>4 DEF TimeOut, Consume, TypeOK
  <2>3. LiveInv'
    BY <1>0, <2>1, <2>2 DEF LiveInv
  <2> QED BY <2>1, <2>2, <2>3, FreshCalls, Quiet
<1>5. ASSUME NEW k \in Conns, Break(k) PROVE Rest
  <2>1. /\ UNCHANGED <<inner, executed, answer>> /\ k = inner
        /\ broken' = broken \cup {k}
    BY <1>5 DEF Break, client
  <2>2. \A j \in Conns : /\ requests'[j] \in {requests[j], << >>}
                         /\ responses'[j] =
                              IF j = k THEN << >> ELSE responses[j]
    BY <1>0, <1>5 DEF Break, TypeOK
  <2>3. LiveInv'
    BY <1>0, <2>1, <2>2 DEF LiveInv
  <2> QED BY <2>1, <2>2, <2>3, FreshCalls, Quiet
<1>6. ASSUME UNCHANGED vars PROVE Rest
  <2>1. UNCHANGED <<inner, broken, requests, responses, executed, answer>>
    BY <1>6 DEF vars, client, streams
  <2>2. LiveInv'
    BY <1>0, <2>1 DEF LiveInv
  <2> QED BY <2>1, <2>2, FreshCalls, Quiet
<1>7. Rest
  BY <1>2, <1>3, <1>4, <1>5, <1>6, ServeOnce, ReceiveOnce DEF Next, Step
<1> QED BY <1>1, <1>7 DEF OnceInv

LEMMA OnceInvariant == Spec => []OnceInv
<1>1. Init => OnceInv
  <2> SUFFICES ASSUME Init PROVE OnceInv
    OBVIOUS
  <2>1. BaseInv
    BY InitBase
  <2>2. \A k \in Conns : requests[k] = << >> /\ responses[k] = << >>
    BY DEF Init
  <2>3. \A c \in Calls : Spent(c) = 0
    <3> TAKE c \in Calls
    <3>1. Pending(c) = {}
      BY <2>2, EmptyStream DEF Pending
    <3> QED BY <3>1, FS_EmptySet DEF Spent, Init
  <2>4. CallInv /\ SpentInv
    BY <2>3, WireAssumption DEF Init, CallInv, SpentInv, None
  <2>5. FrameInv /\ LiveInv
    BY <2>2, EmptyStream DEF FrameInv, LiveInv
  <2>6. FreshInv /\ NoAnswerTwice
    BY <2>2, EmptyStream DEF Init, FreshInv, NoAnswerTwice
  <2> QED BY <2>1, <2>4, <2>5, <2>6 DEF OnceInv
<1> QED BY <1>1, OnceStep, PTL DEF Spec

\* However connections break and calls time out, the one resend of a call
\* never makes a third execution of it, for any number of tasks, calls and
\* connections.
THEOREM ExecutedAtMostTwiceTheorem == Spec => []ExecutedAtMostTwice
<1>1. OnceInv => ExecutedAtMostTwice
  <2> SUFFICES ASSUME OnceInv, NEW c \in Calls PROVE executed[c] <= 2
    BY DEF ExecutedAtMostTwice
  <2>1. /\ executed[c] \in Nat /\ Cardinality(Pending(c)) \in Nat
        /\ Spent(c) <= 2
    BY PendingCount DEF OnceInv, BaseInv, TypeOK, SpentInv
  <2> QED BY <2>1 DEF Spent
<1> QED BY <1>1, OnceInvariant, PTL

\* A response is returned by one call at most, and only after the request it
\* answers was executed, even when dropped exchanges have shifted responses.
THEOREM NoAnswerTwiceTheorem == Spec => []NoAnswerTwice
<1>1. OnceInv => NoAnswerTwice
  BY DEF OnceInv
<1> QED BY <1>1, OnceInvariant, PTL

-----------------------------------------------------------------------------
(* What holds until a call is dropped in the middle of an exchange.        *)

\* The stream in use: a broken one holds no response and at most one
\* request; an idle one nothing; otherwise the holder's request or response.
StreamInv ==
  inner # None =>
    /\ inner \in broken =>
         responses[inner] = << >> /\ Len(requests[inner]) <= 1
    /\ inner \notin broken /\ holder = NoTask =>
         requests[inner] = << >> /\ responses[inner] = << >>
    /\ inner \notin broken /\ holder # NoTask =>
         \/ /\ requests[inner] = <<call[holder]>>
            /\ responses[inner] = << >>
         \/ /\ requests[inner] = << >>
            /\ responses[inner] = <<call[holder]>>

WireInv == BaseInv /\ StreamInv /\ OwnAnswers

LEMMA Singleton ==
  ASSUME NEW c \in Calls
  PROVE  /\ <<c>> \in Seq(Calls) /\ Len(<<c>>) = 1 /\ <<c>> # << >>
         /\ Head(<<c>>) = c /\ Tail(<<c>>) = << >> /\ << >> \in Seq(Calls)
         /\ Append(<< >>, c) = <<c>>
OBVIOUS

\* The frames of the stream in use, by cases.
LEMMA InUse ==
  ASSUME WireInv, inner # None
  PROVE  /\ inner \in Conns
         /\ inner \notin broken /\ holder # NoTask =>
              holder \in Tasks /\ call[holder] \in Calls
         /\ Len(requests[inner]) <= 1 /\ Len(responses[inner]) <= 1
         /\ Len(requests[inner]) + Len(responses[inner]) <= 1
<1>1. inner \in Conns /\ holder \in Tasks \cup {NoTask}
  BY DEF WireInv, BaseInv, TypeOK
<1>2. holder # NoTask => call[holder] \in Calls
  BY <1>1 DEF WireInv, BaseInv, LockInv
<1>3. CASE inner \in broken \/ holder = NoTask
  <2>1. responses[inner] = << >> /\ Len(requests[inner]) <= 1
    BY <1>3 DEF WireInv, StreamInv
  <2>2. Len(requests[inner]) \in Nat
    BY <1>1 DEF WireInv, BaseInv, TypeOK
  <2> QED BY <1>1, <1>2, <2>1, <2>2
<1>4. CASE inner \notin broken /\ holder # NoTask
  <2>1. holder \in Tasks /\ call[holder] \in Calls
    BY <1>1, <1>2, <1>4
  <2>2. Len(<<call[holder]>>) = 1 /\ Len(<< >>) = 0
    BY <2>1, Singleton
  <2>3. \/ requests[inner] = <<call[holder]>> /\ responses[inner] = << >>
        \/ requests[inner] = << >> /\ responses[inner] = <<call[holder]>>
    BY <1>4 DEF WireInv, StreamInv
  <2>4. \/ Len(requests[inner]) = 1 /\ Len(responses[inner]) = 0
        \/ Len(requests[inner]) = 0 /\ Len(responses[inner]) = 1
    BY <2>2, <2>3, Zenon
  <2>5. /\ Len(requests[inner]) <= 1 /\ Len(responses[inner]) <= 1
        /\ Len(requests[inner]) + Len(responses[inner]) <= 1
    <3>1. \A a, b \in {0, 1} :
            ~ (a = 1 /\ b = 1) => a <= 1 /\ b <= 1 /\ a + b <= 1
      OBVIOUS
    <3>2. 0 # 1
      OBVIOUS
    <3> QED BY <2>4, <3>1, <3>2, Zenon
  <2> QED BY <1>1, <2>1, <2>5
<1> QED BY <1>3, <1>4

\* Every step of a task keeps the stream in use to the holder's exchange.
LEMMA StepWireInv ==
  ASSUME WireInv, NEW t \in Tasks, Call(t) \/ Step(t)
  PROVE  StreamInv' /\ OwnAnswers'
<1>0. /\ TypeOK /\ LockInv /\ OpenedInv /\ StreamInv /\ OwnAnswers
      /\ t # NoTask
  BY WireAssumption DEF WireInv, BaseInv
<1>1. CASE Call(t)
  <2>1. holder # NoTask => call'[holder] = call[holder]
    BY <1>0, <1>1 DEF Call, TypeOK, LockInv
  <2> QED BY <1>0, <1>1, <2>1 DEF Call, streams, StreamInv, OwnAnswers
<1>2. CASE Lock(t)
  <2>1. call[t] \in Calls /\ holder = NoTask
    BY <1>0, <1>2 DEF Lock, MayLock, LockInv
  <2>2. CASE inner = None \/ inner \in broken
    BY <1>0, <1>2, <2>2 DEF Lock, StreamInv, OwnAnswers
  <2>3. CASE inner # None /\ inner \notin broken
    <3>1. /\ inner \in Conns
          /\ requests[inner] = << >> /\ responses[inner] = << >>
      BY <1>0, <2>1, <2>3 DEF StreamInv, TypeOK
    <3>2. requests' = [requests EXCEPT ![inner] = <<call[t]>>]
      BY <1>2, <2>1, <2>3, <3>1, Singleton DEF Lock
    <3>3. requests'[inner] = <<call[t]>>
      BY <1>0, <2>1, <3>1, <3>2, StreamUpdate, Singleton DEF TypeOK
    <3> QED BY <1>0, <1>2, <2>3, <3>1, <3>3 DEF Lock, StreamInv, OwnAnswers
  <2> QED BY <2>2, <2>3
<1>3. CASE FirstFails(t)
  BY <1>0, <1>3 DEF FirstFails, OwnAnswers, StreamInv
<1>4. CASE Connect(t)
  <2> DEFINE k == opened + 1
  <2>1. /\ k \in Conns /\ holder = t /\ call[t] \in Calls /\ k > opened
        /\ opened' = k /\ inner' = k
    BY <1>0, <1>4, WireAssumption DEF Connect, TypeOK, LockInv, Conns, None
  <2>2. requests'[k] = <<call[t]>>
    BY <1>0, <1>4, <2>1, StreamUpdate, Singleton DEF Connect, TypeOK
  <2>3. k \notin broken /\ responses[k] = << >>
    BY <1>0, <2>1 DEF OpenedInv
  <2> QED BY <1>0, <1>4, <2>1, <2>2, <2>3 DEF Connect, StreamInv, OwnAnswers
<1>5. CASE ConnectFails(t) \/ SecondFails(t)
  <2>1. inner = None \/ inner \in broken
    BY <1>0, <1>5 DEF ConnectFails, SecondFails, OpenedInv
  <2>2. UNCHANGED <<inner, streams, call, answer>>
    BY <1>5 DEF ConnectFails, SecondFails
  <2> QED BY <1>0, <2>1, <2>2 DEF StreamInv, OwnAnswers, streams
<1>6. CASE Receive(t)
  <2>1. /\ holder = t /\ inner \in Conns /\ inner # None /\ call[t] \in Calls
        /\ inner \notin broken /\ responses[inner] # << >>
    BY <1>0, <1>6, Indices
       DEF Receive, LockInv, OpenedInv, TypeOK, Exchanging
  <2>2. requests[inner] = << >> /\ responses[inner] = <<call[t]>>
    BY <1>0, <2>1 DEF StreamInv
  <2>3. responses' = [responses EXCEPT ![inner] = << >>]
    BY <1>6, <2>1, <2>2, Singleton DEF Receive, Consume
  <2>4. responses'[inner] = << >>
    BY <1>0, <2>1, <2>3, StreamUpdate, Singleton DEF TypeOK
  <2>5. answer' = [answer EXCEPT ![call[t]] = call[t]]
    BY <1>6, <2>1, <2>2, Singleton DEF Receive
  <2>6. OwnAnswers'
    BY <1>0, <2>1, <2>5 DEF TypeOK, OwnAnswers
  <2> QED BY <1>6, <2>1, <2>2, <2>4, <2>6 DEF Receive, Return, StreamInv
<1> QED BY <1>1, <1>2, <1>3, <1>4, <1>5, <1>6 DEF Step

\* So does every step of the actuator and the network.
LEMMA NetworkWireInv ==
  ASSUME WireInv, NEW k \in Conns, Serve(k) \/ Break(k)
  PROVE  StreamInv' /\ OwnAnswers'
<1>0. TypeOK /\ LockInv /\ OpenedInv /\ StreamInv /\ OwnAnswers
  BY DEF WireInv, BaseInv
<1>1. CASE Serve(k)
  <2> DEFINE c == Head(requests[k])
  <2>1. /\ requests[k] # << >> /\ requests[k] \in Seq(Calls)
        /\ c \in Calls /\ Tail(requests[k]) \in Seq(Calls)
        /\ Len(Tail(requests[k])) = Len(requests[k]) - 1
        /\ Len(requests[k]) \in Nat
    BY <1>0, <1>1 DEF Serve, TypeOK
  <2>2. /\ requests'[k] = Tail(requests[k])
        /\ \A j \in Conns \ {k} : requests'[j] = requests[j]
    BY <1>0, <1>1, <2>1, StreamUpdate DEF Serve, TypeOK
  <2>3. UNCHANGED <<inner, holder, pc, opened, broken, call, answer>>
    BY <1>1 DEF Serve, client
  <2>4. CASE k = inner /\ k \notin broken
    <3>1. /\ holder # NoTask /\ holder \in Tasks /\ call[holder] \in Calls
          /\ requests[k] = <<call[holder]>> /\ responses[k] = << >>
      BY <1>0, <2>1, <2>4, InUse, Indices DEF StreamInv
    <3>2. requests'[k] = << >> /\ c = call[holder]
      BY <2>2, <3>1, Singleton
    <3>3. responses' = [responses EXCEPT ![k] = <<call[holder]>>]
      BY <1>1, <2>4, <3>1, <3>2, Singleton DEF Serve
    <3>4. responses'[k] = <<call[holder]>>
      BY <1>0, <3>1, <3>3, StreamUpdate, Singleton DEF TypeOK
    <3> QED BY <1>0, <2>3, <2>4, <3>1, <3>2, <3>4 DEF StreamInv, OwnAnswers
  <2>5. CASE ~ (k = inner /\ k \notin broken)
    <3>1. responses' = responses
      BY <1>1, <2>5 DEF Serve
    <3>2. inner # None /\ inner \in broken => Len(requests'[inner]) <= 1
      <4>1. CASE k = inner
        <5>1. Len(requests'[inner]) = Len(requests[inner]) - 1
          BY <2>1, <2>2, <4>1
        <5>2. inner # None /\ inner \in broken => Len(requests[inner]) <= 1
          BY <1>0 DEF StreamInv
        <5> QED BY <2>1, <4>1, <5>1, <5>2
      <4>2. CASE k # inner
        BY <1>0, <2>2, <4>2 DEF StreamInv, TypeOK
      <4> QED BY <4>1, <4>2
    <3>3. inner # None /\ inner \notin broken =>
            requests'[inner] = requests[inner]
      BY <1>0, <2>2, <2>5 DEF TypeOK
    <3> QED BY <1>0, <2>3, <3>1, <3>2, <3>3 DEF StreamInv, OwnAnswers
  <2> QED BY <2>4, <2>5
<1>2. CASE Break(k)
  <2>1. k = inner /\ inner # None /\ Len(requests[k]) <= 1
    BY <1>2, InUse, Indices DEF Break
  <2>2. responses'[k] = << >>
    BY <1>0, <1>2, StreamUpdate, EmptyStream DEF Break, TypeOK
  <2>3. requests'[k] = requests[k] \/ requests'[k] = << >>
    BY <1>0, <1>2 DEF Break, TypeOK
  <2>4. Len(requests'[k]) <= 1
    BY <2>1, <2>3
  <2> QED BY <1>0, <1>2, <2>1, <2>2, <2>4
          DEF Break, client, StreamInv, OwnAnswers
<1> QED BY <1>1, <1>2

\* A call dropped before its exchange, waiting or connecting, does no harm.
LEMMA EarlyTimeOut ==
  ASSUME WireInv, NEW t \in Tasks, TimeOut(t), ~ dropped'
  PROVE  StreamInv' /\ OwnAnswers'
<1>1. /\ pc[t] \in {"waiting", "connecting"}
      /\ UNCHANGED <<inner, broken, requests, responses, call, answer>>
      /\ holder' = IF holder = t THEN NoTask ELSE holder
  BY DEF TimeOut, WireInv, BaseInv, TypeOK
<1>2. CASE holder = t
  BY <1>1, <1>2 DEF WireInv, BaseInv, LockInv, OpenedInv, StreamInv, OwnAnswers
<1>3. CASE holder # t
  BY <1>1, <1>3 DEF WireInv, StreamInv, OwnAnswers
<1> QED BY <1>2, <1>3

UntilDropped == ~ dropped => WireInv

LEMMA WireInvariant == Spec => []UntilDropped
<1>1. Init => UntilDropped
  BY InitBase DEF Init, UntilDropped, WireInv, StreamInv, OwnAnswers
<1>2. BaseInv /\ UntilDropped /\ [Next]_vars => UntilDropped'
  <2> SUFFICES ASSUME BaseInv, UntilDropped, [Next]_vars, ~ dropped'
               PROVE  WireInv'
    BY DEF UntilDropped
  <2>1. ~ dropped
    BY DEF Next, Step, Call, Lock, FirstFails, Connect, ConnectFails,
           SecondFails, Receive, TimeOut, Serve, Break, vars
  <2>2. WireInv
    BY <2>1 DEF UntilDropped
  <2>3. UNCHANGED vars => StreamInv' /\ OwnAnswers'
    BY <2>2 DEF vars, client, streams, WireInv, StreamInv, OwnAnswers
  <2>4. StreamInv' /\ OwnAnswers'
    BY <2>2, <2>3, StepWireInv, NetworkWireInv, EarlyTimeOut DEF Next
  <2> QED BY <2>4, BaseStep DEF WireInv
<1>3. OnceInv => BaseInv
  BY DEF OnceInv
<1> QED BY <1>1, <1>2, <1>3, OnceInvariant, PTL DEF Spec

\* Until a call is dropped in the middle of an exchange, every call returns
\* its own response.
THEOREM AnswersOwnCallTheorem == Spec => []AnswersOwnCall
<1>1. UntilDropped => AnswersOwnCall
  BY DEF UntilDropped, WireInv, AnswersOwnCall
<1> QED BY <1>1, WireInvariant, PTL

\* Until then the wire protocol's no-pipelining rule holds.
THEOREM OneInFlightTheorem == Spec => []OneInFlight
<1>1. UntilDropped => OneInFlight
  BY InUse DEF UntilDropped, OneInFlight
<1> QED BY <1>1, WireInvariant, PTL
=============================================================================
