----------------------------- MODULE WireClient -----------------------------
(***************************************************************************)
(* One WireClient of actuator-proto, shared by the tasks of the sidecar,   *)
(* the connections it opens one after the other, and the actuator's        *)
(* per-connection handlers.                                                *)
(*                                                                         *)
(* A call takes the client's mutex for the whole exchange, writes one      *)
(* frame and reads one frame.  An exchange that fails on an existing       *)
(* connection drops it and is repeated once on a new one.  Callers put     *)
(* calls under a timeout; a call that times out is dropped wherever it is, *)
(* and drops the mutex, but not the connection.                            *)
(*                                                                         *)
(* Simplifications: a request stands for the number of its call, and a     *)
(* response for the number of the call it answers; a frame is written at   *)
(* once; a connection that breaks loses the responses not yet read; an     *)
(* error status is read like any other response.                           *)
(***************************************************************************)
EXTENDS Integers, Sequences

CONSTANTS
  Tasks,       \* tasks sharing the client
  NoTask,
  Kinds,       \* response messages that do not decode as one another
  MaxCalls,    \* bound: calls made
  MaxConns     \* bound: connections opened

ASSUME WireAssumption ==
  /\ NoTask \notin Tasks /\ Kinds # {}
  /\ MaxCalls \in Nat /\ MaxConns \in Nat

VARIABLES
  inner,      \* the connection behind the mutex, None if there is none
  holder,     \* the task holding the mutex
  opened,     \* connections opened so far: 1 .. opened
  broken,     \* those whose stream fails
  requests,   \* per connection: frames the actuator has not served
  responses,  \* per connection: frames the client has not read
  pc,         \* where each task is in call_raw
  call,       \* the call each task is making
  calls,      \* calls made so far: 1 .. calls
  kind,       \* the response message each call expects
  executed,   \* history: how often the actuator has executed each call
  answer,     \* history: whose response each call returned, None if none
  dropped     \* history: was a call dropped in the middle of an exchange?

client  == <<inner, holder, pc>>
streams == <<opened, broken, requests, responses>>
vars    == <<client, streams, call, calls, kind, executed, answer, dropped>>

None  == 0
Calls == 1 .. MaxCalls
Conns == 1 .. MaxConns

Init ==
  /\ inner = None /\ holder = NoTask
  /\ opened = 0 /\ broken = {}
  /\ requests = [k \in Conns |-> << >>] /\ responses = [k \in Conns |-> << >>]
  /\ pc = [t \in Tasks |-> "idle"] /\ call = [t \in Tasks |-> None]
  /\ calls = 0 /\ kind \in [Calls -> Kinds]
  /\ executed = [c \in Calls |-> 0] /\ answer = [c \in Calls |-> None]
  /\ dropped = FALSE

-----------------------------------------------------------------------------
(* WireClient::call and call_raw.                                          *)

\* Mutant of Call: the call carries the number of the one before.
CallUncounted(t) ==
  /\ pc[t] = "idle" /\ calls < MaxCalls
  /\ calls' = calls + 1
  /\ call' = [call EXCEPT ![t] = calls]
  /\ pc' = [pc EXCEPT ![t] = "waiting"]
  /\ UNCHANGED <<inner, holder, streams, kind, executed, answer, dropped>>

Call(t) ==
  /\ pc[t] = "idle" /\ calls < MaxCalls
  /\ calls' = calls + 1
  /\ call' = [call EXCEPT ![t] = calls + 1]
  /\ pc' = [pc EXCEPT ![t] = "waiting"]
  /\ UNCHANGED <<inner, holder, streams, kind, executed, answer, dropped>>

\* Mutant of MayLock: the mutex does not exclude other tasks.
MayAlwaysLock(t) == pc[t] = "waiting"

MayLock(t) == pc[t] = "waiting" /\ holder = NoTask

\* The first attempt uses the connection there is.
Lock(t) ==
  /\ MayLock(t)
  /\ holder' = t
  /\ \/ /\ inner = None
        /\ pc' = [pc EXCEPT ![t] = "connecting"]
        /\ UNCHANGED requests
     \/ /\ inner # None
        /\ pc' = [pc EXCEPT ![t] = "first"]
        /\ requests' = IF inner \in broken
                         THEN requests
                         ELSE [requests EXCEPT ![inner] = Append(@, call[t])]
  /\ UNCHANGED <<inner, opened, broken, responses, call, calls, kind, executed,
                 answer, dropped>>

\* Mutant of Return: the mutex is not released.
ReturnLocked(t) ==
  /\ pc' = [pc EXCEPT ![t] = "idle"]
  /\ UNCHANGED holder

Return(t) ==
  /\ pc' = [pc EXCEPT ![t] = "idle"]
  /\ holder' = NoTask

\* An I/O error of the first attempt drops the connection ...
FirstFails(t) ==
  /\ pc[t] = "first" /\ inner \in broken
  /\ inner' = None
  /\ pc' = [pc EXCEPT ![t] = "connecting"]
  /\ UNCHANGED <<holder, streams, call, calls, kind, executed, answer, dropped>>

\* ... and the request is sent again, once, on a new one.
Connect(t) ==
  /\ pc[t] = "connecting" /\ opened < MaxConns
  /\ opened' = opened + 1
  /\ inner' = opened + 1
  /\ requests' = [requests EXCEPT ![opened + 1] = <<call[t]>>]
  /\ pc' = [pc EXCEPT ![t] = "second"]
  /\ UNCHANGED <<holder, broken, responses, call, calls, kind, executed, answer, dropped>>

ConnectFails(t) ==
  /\ pc[t] = "connecting"
  /\ Return(t)
  /\ UNCHANGED <<inner, streams, call, calls, kind, executed, answer, dropped>>

\* Mutant of SecondFails: the request is sent again and again.
SecondFailsRetrying(t) ==
  /\ pc[t] = "second" /\ inner \in broken
  /\ inner' = None
  /\ pc' = [pc EXCEPT ![t] = "connecting"]
  /\ UNCHANGED <<holder, streams, call, calls, kind, executed, answer, dropped>>

\* An error of the second attempt is returned and the connection kept.
SecondFails(t) ==
  /\ pc[t] = "second" /\ inner \in broken
  /\ Return(t)
  /\ UNCHANGED <<inner, streams, call, calls, kind, executed, answer, dropped>>

\* Mutant of Consume: the frame stays in the stream.
ConsumeNothing(k) == UNCHANGED responses

Consume(k) == responses' = [responses EXCEPT ![k] = Tail(@)]

\* The next frame is taken for the response to this call.  If its body does
\* not decode, call returns an error, and the connection is kept.
Receive(t) ==
  /\ pc[t] \in {"first", "second"} /\ inner \notin broken
  /\ responses[inner] # << >>
  /\ Consume(inner)
  /\ LET read == Head(responses[inner])
     IN answer' = IF kind[read] = kind[call[t]]
                    THEN [answer EXCEPT ![call[t]] = read]
                    ELSE answer
  /\ Return(t)
  /\ UNCHANGED <<inner, opened, broken, requests, call, calls, kind, executed,
                 dropped>>

\* The caller's timeout expires and the call is dropped at an await: before
\* its turn, while connecting, or while reading, where a frame may have been
\* read in part; the next reader skips the rest of such a frame.
TimeOut(t) ==
  /\ pc[t] # "idle"
  /\ dropped' = (dropped \/ pc[t] \in {"first", "second"})
  /\ pc' = [pc EXCEPT ![t] = "idle"]
  /\ holder' = IF holder = t THEN NoTask ELSE holder
  /\ \/ UNCHANGED responses
     \/ /\ pc[t] \in {"first", "second"} /\ inner \notin broken
        /\ responses[inner] # << >>
        /\ Consume(inner)
  /\ UNCHANGED <<inner, opened, broken, requests, call, calls, kind, executed,
                 answer>>

-----------------------------------------------------------------------------
(* The actuator and the network.                                           *)

\* A connection's handler serves one request after the other.  It may still
\* be serving requests of a connection the client has dropped.
Serve(k) ==
  /\ requests[k] # << >>
  /\ LET c == Head(requests[k])
     IN /\ executed' = [executed EXCEPT ![c] = @ + 1]
        /\ responses' = IF k = inner /\ k \notin broken
                          THEN [responses EXCEPT ![k] = Append(@, c)]
                          ELSE responses
  /\ requests' = [requests EXCEPT ![k] = Tail(@)]
  /\ UNCHANGED <<client, opened, broken, call, calls, kind, answer, dropped>>

\* The stream fails; requests may or may not have reached the actuator.
Break(k) ==
  /\ k = inner /\ k \notin broken
  /\ broken' = broken \cup {k}
  /\ responses' = [responses EXCEPT ![k] = << >>]
  /\ requests' \in {requests, [requests EXCEPT ![k] = << >>]}
  /\ UNCHANGED <<client, opened, call, calls, kind, executed, answer, dropped>>

-----------------------------------------------------------------------------
Step(t) ==
  \/ Lock(t) \/ FirstFails(t) \/ Connect(t) \/ ConnectFails(t)
  \/ SecondFails(t) \/ Receive(t)

Next ==
  \/ \E t \in Tasks : Call(t) \/ Step(t) \/ TimeOut(t)
  \/ \E k \in Conns : Serve(k) \/ Break(k)

Spec == Init /\ [][Next]_vars

\* Tasks run when they can, the mutex is granted, and the actuator serves
\* what reaches it; nobody has to make a call, and no stream has to break.
FairSpec ==
  /\ Spec
  /\ \A t \in Tasks : WF_vars(Step(t))
  /\ \A k \in Conns : WF_vars(Serve(k))

-----------------------------------------------------------------------------
(* Properties.                                                             *)

\* Every variable keeps its type.
TypeOK ==
  /\ inner \in Conns \cup {None} /\ holder \in Tasks \cup {NoTask}
  /\ opened \in Conns \cup {None} /\ broken \subseteq Conns
  /\ requests \in [Conns -> Seq(Calls)] /\ responses \in [Conns -> Seq(Calls)]
  /\ pc \in [Tasks -> {"idle", "waiting", "connecting", "first", "second"}]
  /\ call \in [Tasks -> Calls \cup {None}]
  /\ calls \in Calls \cup {None} /\ kind \in [Calls -> Kinds]
  /\ executed \in [Calls -> Nat] /\ answer \in [Calls -> Calls \cup {None}]
  /\ dropped \in BOOLEAN

\* Resending on a new connection does not repeat a command at will: however
\* connections break and calls time out, no call is executed more than twice.
ExecutedAtMostTwice == \A c \in Calls : executed[c] <= 2

\* No response answers two calls, and none answers a call made before the
\* request it responds to was executed.
NoAnswerTwice ==
  /\ \A c, d \in Calls : answer[c] = answer[d] /\ answer[c] # None => c = d
  /\ \A c \in Calls : answer[c] # None => executed[answer[c]] > 0

\* Until a call is dropped in the middle of an exchange, a call returns the
\* response to itself, never another call's, whatever breaks.
OwnAnswers == \A c \in Calls : answer[c] \in {None, c}

AnswersOwnCall == ~ dropped => OwnAnswers

\* The doc of the wire format: no pipelining, at most one request is in
\* flight on the connection in use; again until an exchange is dropped.
OneInFlight ==
  ~ dropped /\ inner # None => Len(requests[inner]) + Len(responses[inner]) <= 1

\* A call returns, whatever breaks or is dropped on the way, as long as the
\* actuator serves the requests that reach it: no caller waits for a response
\* that another one has taken.
CallsReturn == \A t \in Tasks : pc[t] # "idle" ~> pc[t] = "idle"

\* What the comment in call_raw says: after a dropped exchange the next call
\* gets a clean start, so a call returns no other call's response.
CleanStart == OwnAnswers
=============================================================================
