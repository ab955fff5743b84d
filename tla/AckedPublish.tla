---------------------------- MODULE AckedPublish ----------------------------
(***************************************************************************)
(* What EmbeddedSerialFiller::PublishWait promises its callers, without    *)
(* packets, packet IDs, locks or condition variables: a call publishes and *)
(* waits; it returns SUCCESS exactly when the acknowledgement of its own   *)
(* packet reached this node and the time it allowed was not up before it   *)
(* could return, and TIMEOUT otherwise; a call is turned away only when    *)
(* Capacity calls are in progress already.                                 *)
(*                                                                         *)
(* Module PublishWait implements this specification (see Abstract there).  *)
(***************************************************************************)
EXTENDS Naturals

CONSTANTS
  Threads,   \* the threads that may call PublishWait
  Capacity   \* how many calls may wait at the same time

VARIABLES
  call,              \* call[t]: what has become of the call of thread t
  response,          \* response[t]: what the last call of thread t returned
  numThreadsWaiting  \* how many calls are in progress

vars == <<call, response, numThreadsWaiting>>

Calls == {"idle", "waiting", "acked", "expired"}

Responses == {"UNKNOWN", "SUCCESS", "TIMEOUT"}

TypeOK ==
  /\ call \in [Threads -> Calls]
  /\ response \in [Threads -> Responses]
  /\ numThreadsWaiting \in 0 .. Capacity

Init ==
  /\ call = [t \in Threads |-> "idle"]
  /\ response = [t \in Threads |-> "UNKNOWN"]
  /\ numThreadsWaiting = 0

\* The call is admitted and its packet published.
Begin(t) ==
  /\ call[t] = "idle"
  /\ numThreadsWaiting < Capacity
  /\ numThreadsWaiting' = numThreadsWaiting + 1
  /\ call' = [call EXCEPT ![t] = "waiting"]
  /\ response' = [response EXCEPT ![t] = "UNKNOWN"]

\* The call is turned away at once: nothing is published.
Refuse(t) ==
  /\ call[t] = "idle"
  /\ numThreadsWaiting = Capacity
  /\ response' = [response EXCEPT ![t] = "TIMEOUT"]
  /\ UNCHANGED <<call, numThreadsWaiting>>

\* The acknowledgement of the packet of this call arrives in time.
Acknowledge(t) ==
  /\ call[t] = "waiting"
  /\ call' = [call EXCEPT ![t] = "acked"]
  /\ UNCHANGED <<response, numThreadsWaiting>>

\* The time allowed by the caller runs out, maybe between the arrival of the
\* acknowledgement and the return of the call.
Expire(t) ==
  /\ call[t] \in {"waiting", "acked"}
  /\ call' = [call EXCEPT ![t] = "expired"]
  /\ UNCHANGED <<response, numThreadsWaiting>>

Finish(t) ==
  /\ call[t] \in {"acked", "expired"}
  /\ call' = [call EXCEPT ![t] = "idle"]
  /\ response' = [response EXCEPT ![t] = IF call[t] = "acked"
                                         THEN "SUCCESS" ELSE "TIMEOUT"]
  /\ numThreadsWaiting' = numThreadsWaiting - 1

Next == \E t \in Threads :
          Begin(t) \/ Refuse(t) \/ Acknowledge(t) \/ Expire(t) \/ Finish(t)

Fairness == \A t \in Threads : WF_vars(Expire(t)) /\ WF_vars(Finish(t))

SafetySpec == Init /\ [][Next]_vars

Spec == SafetySpec /\ Fairness
=============================================================================
