------------------------ MODULE NfpFileContextProofs ------------------------
(***************************************************************************)
(* Proofs, for every set of requests and every size of the message queue,  *)
(* of the invariants of NfpFileContext.                                    *)
(***************************************************************************)
EXTENDS NfpFileContext, SequenceTheorems, TLAPS

(***************************************************************************)
(* OnCreateFile gives a handle one of the roles of FileContext.h.          *)
(***************************************************************************)
LEMMA RoleOfType ==
  ASSUME NEW s \in Namespaces, NEW p \in Protocols
  PROVE  RoleOf(s, p) \in Roles \cup {"failed"}
BY DEF Namespaces, Protocols, RoleOf, Roles

(***************************************************************************)
(* What completing or pending a request does to the request's own state,   *)
(* whichever method asks for it.                                           *)
(***************************************************************************)
LEMMA CompleteRequestType ==
  ASSUME TypeOK, NEW r \in Requests, NEW status \in Outcomes,
         NEW aborted \in BOOLEAN, CompleteRequest(r, status, aborted)
  PROVE  /\ m_pWdfRequest' \in Requests \cup {NoRequest}
         /\ request' \in [Requests -> RequestStates]
         /\ outcome' \in [Requests -> Outcomes]
BY DEF TypeOK, CompleteRequest, RequestStates

LEMMA PendType ==
  ASSUME TypeOK, NEW r \in Requests, NEW aborted \in BOOLEAN, Pend(r, aborted)
  PROVE  /\ m_pWdfRequest' \in Requests \cup {NoRequest}
         /\ request' \in [Requests -> RequestStates]
         /\ outcome' \in [Requests -> Outcomes]
BY DEF TypeOK, Pend, RequestStates

LEMMA CompleteOneType ==
  ASSUME TypeOK, NEW r \in Requests, NEW b, NEW aborted \in BOOLEAN,
         CompleteOne(r, b, aborted)
  PROVE  /\ m_pWdfRequest' \in Requests \cup {NoRequest}
         /\ request' \in [Requests -> RequestStates]
         /\ outcome' \in [Requests -> Outcomes]
<1>1. CopyStatus(b) \in Outcomes
  BY DEF CopyStatus, Outcomes
<1>2. CASE b = "none"
  BY <1>2, PendType DEF CompleteOne
<1>3. CASE b # "none"
  BY <1>1, <1>3, CompleteRequestType DEF CompleteOne
<1> QED BY <1>2, <1>3

LEMMA CanceledAtOnceType ==
  ASSUME TypeOK, NEW r \in Requests, CanceledAtOnce(r)
  PROVE  /\ m_pWdfRequest' \in Requests \cup {NoRequest}
         /\ request' \in [Requests -> RequestStates]
         /\ outcome' \in [Requests -> Outcomes]
BY DEF TypeOK, CanceledAtOnce, Outcomes

\* The counter beside the list never wraps below zero.
LEMMA QueueSizeType ==
  ASSUME TypeOK, NEW b
  PROVE  QueueSizeAfterCopy(b) \in 0 .. MAX_MESSAGE_QUEUE_SIZE
BY BoundsAssumption DEF TypeOK, QueueSizeAfterCopy

\* The messages a purge loses.
LEMMA QueuedMessages ==
  ASSUME TypeOK
  PROVE  {m_SubscribedMessageQueue[i] : i \in DOMAIN m_SubscribedMessageQueue}
           \subseteq Nat
BY ElementOfSeq, LenProperties DEF TypeOK

LEMMA InitType == Init => TypeOK
<1> SUFFICES ASSUME Init PROVE TypeOK
  OBVIOUS
<1>1. m_Role \in Roles
  BY RoleOfType DEF Init
<1>2. 0 \in 0 .. MAX_MESSAGE_QUEUE_SIZE
  BY BoundsAssumption
<1>3. <<>> \in Seq(Nat)
  OBVIOUS
<1> QED
  BY <1>1, <1>2, <1>3 DEF Init, TypeOK, RequestStates, BufferClasses, Outcomes

LEMMA NextType == TypeOK /\ [Next]_vars => TypeOK'
<1> SUFFICES ASSUME TypeOK, [Next]_vars PROVE TypeOK'
  OBVIOUS
<1> USE DEF TypeOK
<1>1. ASSUME NEW r \in Requests, NEW b \in BufferClasses, NEW c \in CancelTiming,
             GetNextSubscribedMessage(r, b, c)
      PROVE  TypeOK'
  <2>1. /\ m_pWdfRequest' \in Requests \cup {NoRequest}
        /\ request' \in [Requests -> RequestStates]
        /\ outcome' \in [Requests -> Outcomes]
    BY <1>1, CanceledAtOnceType, PendType, CompleteOneType
       DEF GetNextSubscribedMessage
  <2>2. m_dwQueueSize' \in 0 .. MAX_MESSAGE_QUEUE_SIZE
    BY <1>1, QueueSizeType DEF GetNextSubscribedMessage, list
  <2>3. /\ m_SubscribedMessageQueue' \in Seq(Nat)
        /\ delivered' \in Seq(Nat)
    <3>1. m_SubscribedMessageQueue # <<>> =>
            /\ Head(m_SubscribedMessageQueue) \in Nat
            /\ Tail(m_SubscribedMessageQueue) \in Seq(Nat)
            /\ Append(delivered, Head(m_SubscribedMessageQueue)) \in Seq(Nat)
      BY HeadTailProperties, AppendProperties
    <3> QED BY <1>1, <3>1 DEF GetNextSubscribedMessage, list
  <2> QED BY <1>1, <2>1, <2>2, <2>3 DEF GetNextSubscribedMessage
<1>2. ASSUME NEW r \in Requests, NEW b \in BufferClasses, NEW c \in CancelTiming,
             GetNextProximityEvent(r, b, c)
      PROVE  TypeOK'
  <2>1. /\ m_pWdfRequest' \in Requests \cup {NoRequest}
        /\ request' \in [Requests -> RequestStates]
        /\ outcome' \in [Requests -> Outcomes]
    BY <1>2, CanceledAtOnceType, PendType, CompleteOneType
       DEF GetNextProximityEvent
  <2>2. m_cCompleteReady' \in Nat /\ reported' \in Nat
    BY <1>2 DEF GetNextProximityEvent
  <2> QED BY <1>2, <2>1, <2>2 DEF GetNextProximityEvent, list
<1>3. ASSUME NEW r \in Requests, NEW c \in CancelTiming,
             GetNextTransmittedMessage(r, c)
      PROVE  TypeOK'
  <2>1. "ok" \in Outcomes /\ "none" \in BufferClasses
    BY DEF Outcomes, BufferClasses
  <2>2. /\ m_pWdfRequest' \in Requests \cup {NoRequest}
        /\ request' \in [Requests -> RequestStates]
        /\ outcome' \in [Requests -> Outcomes]
    BY <1>3, <2>1, CanceledAtOnceType, PendType, CompleteRequestType
       DEF GetNextTransmittedMessage
  <2>3. m_cCompleteReady' \in Nat /\ reported' \in Nat
    <3>1. CASE m_cCompleteReady > 0
      BY <1>3, <3>1 DEF GetNextTransmittedMessage
    <3>2. CASE ~(m_cCompleteReady > 0)
      BY <1>3, <3>2 DEF GetNextTransmittedMessage
    <3> QED BY <3>1, <3>2
  <2> QED BY <1>3, <2>1, <2>2, <2>3 DEF GetNextTransmittedMessage, list
<1>4. ASSUME NEW r \in Requests, RejectGetNext(r) PROVE TypeOK'
  BY <1>4 DEF RejectGetNext, list, history, Outcomes
<1>5. ASSUME NEW r \in Requests, Cancel(r) PROVE TypeOK'
  BY <1>5 DEF Cancel, list, history, RequestStates
<1>6. ASSUME NEW r \in Requests, OnCancel(r) PROVE TypeOK'
  <2>1. "abort" \in Outcomes /\ m_pWdfRequest \in Requests
    BY <1>6 DEF OnCancel, Outcomes
  <2>2. /\ m_pWdfRequest' \in Requests \cup {NoRequest}
        /\ request' \in [Requests -> RequestStates]
        /\ outcome' \in [Requests -> Outcomes]
    BY <1>6, <2>1, CompleteRequestType DEF OnCancel
  <2> QED BY <1>6, <2>2 DEF OnCancel, list, history
<1>7. CASE SetPayload
  BY <1>7 DEF SetPayload, list, history, fxvars
<1>8. CASE BeginProximity
  BY <1>8 DEF BeginProximity, list, history, fxvars, Roles
<1>9. CASE Disable
  <2>1. "cancelled" \in Outcomes
    BY DEF Outcomes
  <2>2. /\ m_pWdfRequest' \in Requests \cup {NoRequest}
        /\ request' \in [Requests -> RequestStates]
        /\ outcome' \in [Requests -> Outcomes]
    BY <1>9, <2>1, CompleteRequestType DEF Disable
  <2>3. lost' \in SUBSET Nat /\ m_SubscribedMessageQueue' \in Seq(Nat)
    <3> DEFINE Q == {m_SubscribedMessageQueue[i] :
                       i \in DOMAIN m_SubscribedMessageQueue}
    <3>1. /\ lost' = lost \cup Q
          /\ m_SubscribedMessageQueue' = <<>>
      BY <1>9 DEF Disable
    <3>2. Q \subseteq Nat
      BY QueuedMessages
    <3> HIDE DEF Q
    <3> QED BY <3>1, <3>2
  <2> QED BY <1>9, <2>2, <2>3 DEF Disable
<1>10. CASE Enable
  BY <1>10 DEF Enable, list, history, fxvars
<1>11. ASSUME NEW oom \in BOOLEAN, HandleReceivedPublication(oom) PROVE TypeOK'
  <2>1. /\ m_pWdfRequest' \in Requests \cup {NoRequest}
        /\ request' \in [Requests -> RequestStates]
        /\ outcome' \in [Requests -> Outcomes]
    BY <1>11, CompleteOneType DEF HandleReceivedPublication
  <2>2. m_dwQueueSize' \in 0 .. MAX_MESSAGE_QUEUE_SIZE
    BY <1>11, QueueSizeType, BoundsAssumption DEF HandleReceivedPublication
  <2>3. /\ m_SubscribedMessageQueue' \in Seq(Nat)
        /\ delivered' \in Seq(Nat)
        /\ published' \in Nat
        /\ lost' \in SUBSET Nat
    BY <1>11 DEF HandleReceivedPublication
  <2> QED BY <1>11, <2>1, <2>2, <2>3 DEF HandleReceivedPublication
<1>12. CASE HandleProximityEvent
  <2>1. /\ m_pWdfRequest' \in Requests \cup {NoRequest}
        /\ request' \in [Requests -> RequestStates]
        /\ outcome' \in [Requests -> Outcomes]
    BY <1>12, CompleteOneType DEF HandleProximityEvent
  <2> QED BY <1>12, <2>1 DEF HandleProximityEvent, list
<1>13. CASE HandleMessageTransmitted
  <2>1. "ok" \in Outcomes
    BY DEF Outcomes
  <2>2. /\ m_pWdfRequest' \in Requests \cup {NoRequest}
        /\ request' \in [Requests -> RequestStates]
        /\ outcome' \in [Requests -> Outcomes]
    BY <1>13, <2>1, CompleteRequestType DEF HandleMessageTransmitted
  <2> QED BY <1>13, <2>2 DEF HandleMessageTransmitted, list
<1>14. CASE OnCloseFile
  <2>1. "abort" \in Outcomes
    BY DEF Outcomes
  <2>2. /\ m_pWdfRequest' \in Requests \cup {NoRequest}
        /\ request' \in [Requests -> RequestStates]
        /\ outcome' \in [Requests -> Outcomes]
    BY <1>14, <2>1, CompleteRequestType DEF OnCloseFile
  <2>3. lost' \in SUBSET Nat /\ m_SubscribedMessageQueue' \in Seq(Nat)
    <3> DEFINE Q == {m_SubscribedMessageQueue[i] :
                       i \in DOMAIN m_SubscribedMessageQueue}
    <3>1. /\ lost' = lost \cup Q
          /\ m_SubscribedMessageQueue' = <<>>
      BY <1>14 DEF OnCloseFile
    <3>2. Q \subseteq Nat
      BY QueuedMessages
    <3> HIDE DEF Q
    <3> QED BY <3>1, <3>2
  <2> QED BY <1>14, <2>2, <2>3 DEF OnCloseFile
<1>15. CASE UNCHANGED vars
  BY <1>15 DEF vars, list, history, fxvars
<1> QED
  BY <1>1, <1>2, <1>3, <1>4, <1>5, <1>6, <1>7, <1>8, <1>9, <1>10, <1>11,
     <1>12, <1>13, <1>14, <1>15 DEF Next

(***************************************************************************)
(* The types hold in every reachable state; in particular m_dwQueueSize    *)
(* stays between 0 and MAX_MESSAGE_QUEUE_SIZE, so the unguarded increment  *)
(* of HandleReceivedPublication and the decrement of                       *)
(* CompleteOneGetNextSubscribedMessage never wrap it.                      *)
(***************************************************************************)
THEOREM TypeCorrect == Spec => []TypeOK
<1>1. Init => TypeOK
  BY InitType
<1>2. TypeOK /\ [Next]_vars => TypeOK'
  BY NextType
<1> QED BY <1>1, <1>2, PTL DEF Spec

-----------------------------------------------------------------------------
(***************************************************************************)
(* Completing, pending or refusing a request keeps m_pWdfRequest and the   *)
(* framework's view of it in agreement.                                    *)
(***************************************************************************)
LEMMA CompleteRequestOwned ==
  ASSUME TypeOK, PendedRequestOwned, NEW r \in Requests, NEW status,
         NEW aborted \in BOOLEAN, m_pWdfRequest \in {r, NoRequest},
         CompleteRequest(r, status, aborted)
  PROVE  PendedRequestOwned'
BY NoRequestAssumption DEF TypeOK, PendedRequestOwned, CompleteRequest

LEMMA PendOwned ==
  ASSUME TypeOK, PendedRequestOwned, NEW r \in Requests,
         NEW aborted \in BOOLEAN, m_pWdfRequest \in {r, NoRequest},
         Pend(r, aborted)
  PROVE  PendedRequestOwned'
BY NoRequestAssumption DEF TypeOK, PendedRequestOwned, Pend

LEMMA CompleteOneOwned ==
  ASSUME TypeOK, PendedRequestOwned, NEW r \in Requests, NEW b,
         NEW aborted \in BOOLEAN, m_pWdfRequest \in {r, NoRequest},
         CompleteOne(r, b, aborted)
  PROVE  PendedRequestOwned'
BY PendOwned, CompleteRequestOwned DEF CompleteOne

LEMMA CanceledAtOnceOwned ==
  ASSUME TypeOK, PendedRequestOwned, NEW r \in Requests, request[r] = "free",
         m_pWdfRequest = NoRequest, CanceledAtOnce(r)
  PROVE  PendedRequestOwned'
BY NoRequestAssumption DEF TypeOK, PendedRequestOwned, CanceledAtOnce

LEMMA NextOwned ==
  TypeOK /\ PendedRequestOwned /\ [Next]_vars => PendedRequestOwned'
<1> SUFFICES ASSUME TypeOK, PendedRequestOwned, [Next]_vars
             PROVE  PendedRequestOwned'
  OBVIOUS
<1>0. m_pWdfRequest # NoRequest => m_pWdfRequest \in Requests
  BY DEF TypeOK
<1>1. ASSUME NEW r \in Requests, NEW b \in BufferClasses, NEW c \in CancelTiming,
             GetNextSubscribedMessage(r, b, c)
      PROVE  PendedRequestOwned'
  BY <1>1, CanceledAtOnceOwned, PendOwned, CompleteOneOwned
     DEF GetNextSubscribedMessage
<1>2. ASSUME NEW r \in Requests, NEW b \in BufferClasses, NEW c \in CancelTiming,
             GetNextProximityEvent(r, b, c)
      PROVE  PendedRequestOwned'
  BY <1>2, CanceledAtOnceOwned, PendOwned, CompleteOneOwned
     DEF GetNextProximityEvent
<1>3. ASSUME NEW r \in Requests, NEW c \in CancelTiming,
             GetNextTransmittedMessage(r, c)
      PROVE  PendedRequestOwned'
  BY <1>3, CanceledAtOnceOwned, PendOwned, CompleteRequestOwned
     DEF GetNextTransmittedMessage
<1>4. ASSUME NEW r \in Requests, RejectGetNext(r) PROVE PendedRequestOwned'
  BY <1>4 DEF RejectGetNext, PendedRequestOwned
<1>5. ASSUME NEW r \in Requests, Cancel(r) PROVE PendedRequestOwned'
  BY <1>5 DEF Cancel, PendedRequestOwned, TypeOK
<1>6. ASSUME NEW r \in Requests, OnCancel(r) PROVE PendedRequestOwned'
  BY <1>0, <1>6, CompleteRequestOwned DEF OnCancel
<1>7. CASE Disable
  <2>1. CASE m_pWdfRequest = NoRequest
    BY <1>7, <2>1 DEF Disable, PendedRequestOwned
  <2>2. CASE m_pWdfRequest # NoRequest
    BY <1>0, <1>7, <2>2, CompleteRequestOwned DEF Disable
  <2> QED BY <2>1, <2>2
<1>8. ASSUME NEW oom \in BOOLEAN, HandleReceivedPublication(oom)
      PROVE  PendedRequestOwned'
  <2>1. CASE m_pWdfRequest = NoRequest
    BY <1>8, <2>1 DEF HandleReceivedPublication, PendedRequestOwned
  <2>2. CASE m_pWdfRequest # NoRequest
    BY <1>0, <1>8, <2>2, CompleteOneOwned DEF HandleReceivedPublication
  <2> QED BY <2>1, <2>2
<1>9. CASE HandleProximityEvent
  <2>1. CASE m_pWdfRequest = NoRequest
    BY <1>9, <2>1 DEF HandleProximityEvent, PendedRequestOwned
  <2>2. CASE m_pWdfRequest # NoRequest
    BY <1>0, <1>9, <2>2, CompleteOneOwned DEF HandleProximityEvent
  <2> QED BY <2>1, <2>2
<1>10. CASE HandleMessageTransmitted
  <2>1. CASE m_pWdfRequest = NoRequest
    BY <1>10, <2>1 DEF HandleMessageTransmitted, PendedRequestOwned
  <2>2. CASE m_pWdfRequest # NoRequest
    BY <1>0, <1>10, <2>2, CompleteRequestOwned DEF HandleMessageTransmitted
  <2> QED BY <2>1, <2>2
<1>11. CASE OnCloseFile
  <2>1. CASE m_pWdfRequest = NoRequest
    BY <1>11, <2>1 DEF OnCloseFile, PendedRequestOwned
  <2>2. CASE m_pWdfRequest # NoRequest
    BY <1>0, <1>11, <2>2, CompleteRequestOwned DEF OnCloseFile
  <2> QED BY <2>1, <2>2
<1>12. CASE SetPayload \/ BeginProximity \/ Enable \/ UNCHANGED vars
  BY <1>12 DEF SetPayload, BeginProximity, Enable, vars, fxvars,
               PendedRequestOwned
<1> QED
  BY <1>1, <1>2, <1>3, <1>4, <1>5, <1>6, <1>7, <1>8, <1>9, <1>10, <1>11,
     <1>12 DEF Next

(***************************************************************************)
(* m_pWdfRequest names the one request the framework has given to this     *)
(* handle and not got back, and it names none exactly when there is none:  *)
(* whatever the order of deliveries, Disable, cancellation and close, no   *)
(* request is completed twice and none is forgotten.                       *)
(***************************************************************************)
THEOREM RequestsOwned == Spec => []PendedRequestOwned
<1>1. Init => TypeOK /\ PendedRequestOwned
  BY InitType, NoRequestAssumption DEF Init, PendedRequestOwned
<1>2. TypeOK /\ PendedRequestOwned /\ [Next]_vars
        => (TypeOK /\ PendedRequestOwned)'
  BY NextType, NextOwned
<1> QED BY <1>1, <1>2, PTL DEF Spec

-----------------------------------------------------------------------------
(***************************************************************************)
(* The three parts below need to know that the one pended request is the   *)
(* only one the framework may cancel.                                      *)
(***************************************************************************)
LEMMA NextWaits ==
  TypeOK /\ PendedRequestOwned /\ WaitsOnlyForNothing /\ [Next]_vars
    => WaitsOnlyForNothing'
<1> SUFFICES ASSUME TypeOK, PendedRequestOwned, WaitsOnlyForNothing, [Next]_vars
             PROVE  WaitsOnlyForNothing'
  OBVIOUS
<1> USE DEF WaitsOnlyForNothing
<1>1. ASSUME NEW r \in Requests, NEW b \in BufferClasses, NEW c \in CancelTiming,
             GetNextSubscribedMessage(r, b, c)
      PROVE  WaitsOnlyForNothing'
  <2>1. \A q \in Requests : q # r => request'[q] = "free"
    BY <1>1, NoRequestAssumption
       DEF GetNextSubscribedMessage, PendedRequestOwned, TypeOK, CompleteOne,
           CompleteRequest, Pend, CanceledAtOnce
  <2>2. request'[r] = "cancelable" /\ b # "none"
          => m_SubscribedMessageQueue = <<>> /\ m_SubscribedMessageQueue' = <<>>
    BY <1>1 DEF GetNextSubscribedMessage, TypeOK, CompleteOne, CompleteRequest,
           Pend, CanceledAtOnce, list
  <2>3. m_Role' = "subscription" /\ m_fEnabled' /\ buffer'[r] = b
    BY <1>1 DEF GetNextSubscribedMessage, TypeOK
  <2> QED BY <2>1, <2>2, <2>3
<1>2. ASSUME NEW r \in Requests, NEW b \in BufferClasses, NEW c \in CancelTiming,
             GetNextProximityEvent(r, b, c)
      PROVE  WaitsOnlyForNothing'
  <2>1. \A q \in Requests : q # r => request'[q] = "free"
    BY <1>2, NoRequestAssumption
       DEF GetNextProximityEvent, PendedRequestOwned, TypeOK, CompleteOne,
           CompleteRequest, Pend, CanceledAtOnce
  <2>2. request'[r] = "cancelable" /\ b # "none" => m_cCompleteReady' = 0
    BY <1>2 DEF GetNextProximityEvent, TypeOK, CompleteOne, CompleteRequest,
           Pend, CanceledAtOnce
  <2>3. /\ m_Role' \in {"arrived", "departed"}
        /\ m_fEnabled' /\ buffer'[r] = b
    BY <1>2 DEF GetNextProximityEvent, TypeOK
  <2> QED BY <2>1, <2>2, <2>3
<1>3. ASSUME NEW r \in Requests, NEW c \in CancelTiming,
             GetNextTransmittedMessage(r, c)
      PROVE  WaitsOnlyForNothing'
  <2>1. \A q \in Requests : q # r => request'[q] = "free"
    BY <1>3, NoRequestAssumption
       DEF GetNextTransmittedMessage, PendedRequestOwned, TypeOK,
           CompleteRequest, Pend, CanceledAtOnce
  <2>2. request'[r] = "cancelable" => m_cCompleteReady' = 0
    BY <1>3 DEF GetNextTransmittedMessage, TypeOK, CompleteRequest, Pend,
           CanceledAtOnce
  <2>3. m_Role' = "publication" /\ m_fEnabled'
    BY <1>3 DEF GetNextTransmittedMessage, TypeOK
  <2> QED BY <2>1, <2>2, <2>3
<1>4. ASSUME NEW r \in Requests, RejectGetNext(r) \/ Cancel(r)
      PROVE  WaitsOnlyForNothing'
  BY <1>4 DEF RejectGetNext, Cancel, list, TypeOK
<1>5. ASSUME NEW r \in Requests, OnCancel(r) PROVE WaitsOnlyForNothing'
  BY <1>5 DEF OnCancel, CompleteRequest, list, TypeOK
<1>6. CASE Disable \/ OnCloseFile
  <2>1. \A q \in Requests : request'[q] # "cancelable"
    BY <1>6, NoRequestAssumption
       DEF Disable, OnCloseFile, CompleteRequest, PendedRequestOwned, TypeOK,
           RequestStates
  <2> QED BY <2>1
<1>7. ASSUME NEW oom \in BOOLEAN, HandleReceivedPublication(oom)
      PROVE  WaitsOnlyForNothing'
  <2>1. ASSUME NEW q \in Requests, request'[q] = "cancelable"
        PROVE  q = m_pWdfRequest /\ buffer[q] = "none"
    BY <1>7, <2>1, NoRequestAssumption
       DEF HandleReceivedPublication, CompleteOne, CompleteRequest, Pend,
           PendedRequestOwned, TypeOK
  <2>2. m_Role' = "subscription" /\ m_fEnabled' /\ buffer' = buffer
    BY <1>7 DEF HandleReceivedPublication
  <2> QED BY <2>1, <2>2
<1>8. CASE HandleProximityEvent
  <2>1. ASSUME NEW q \in Requests, request'[q] = "cancelable"
        PROVE  q = m_pWdfRequest /\ buffer[q] = "none"
    BY <1>8, <2>1, NoRequestAssumption
       DEF HandleProximityEvent, CompleteOne, CompleteRequest, Pend,
           PendedRequestOwned, TypeOK
  <2>2. /\ m_Role' \in {"arrived", "departed"}
        /\ m_fEnabled' /\ buffer' = buffer
    BY <1>8 DEF HandleProximityEvent
  <2> QED BY <2>1, <2>2
<1>9. CASE HandleMessageTransmitted
  <2>1. \A q \in Requests : request'[q] # "cancelable"
    BY <1>9, NoRequestAssumption
       DEF HandleMessageTransmitted, CompleteRequest, PendedRequestOwned, TypeOK
  <2> QED BY <2>1
<1>10. CASE SetPayload \/ Enable \/ UNCHANGED vars
  BY <1>10 DEF SetPayload, Enable, vars, fxvars, list
<1>11. CASE BeginProximity
  BY <1>11 DEF BeginProximity, fxvars, list
<1> QED
  BY <1>1, <1>2, <1>3, <1>4, <1>5, <1>6, <1>7, <1>8, <1>9, <1>10, <1>11
     DEF Next

(***************************************************************************)
(* No lost wake-up: while a request waits there is nothing to complete it  *)
(* with, whatever interleaving of deliveries, short buffers, Disable,      *)
(* Enable and cancellations came before.                                   *)
(***************************************************************************)
THEOREM NoLostWakeup == Spec => []WaitsOnlyForNothing
<1>1. Init => TypeOK /\ PendedRequestOwned /\ WaitsOnlyForNothing
  BY InitType, NoRequestAssumption
     DEF Init, PendedRequestOwned, WaitsOnlyForNothing
<1>2. TypeOK /\ PendedRequestOwned /\ WaitsOnlyForNothing /\ [Next]_vars
        => (TypeOK /\ PendedRequestOwned /\ WaitsOnlyForNothing)'
  BY NextType, NextOwned, NextWaits
<1> QED BY <1>1, <1>2, PTL DEF Spec

-----------------------------------------------------------------------------
LEMMA NextConserved ==
  TypeOK /\ EventsConserved /\ [Next]_vars => EventsConserved'
<1> SUFFICES ASSUME TypeOK, EventsConserved, [Next]_vars
             PROVE  EventsConserved'
  OBVIOUS
<1> USE DEF EventsConserved
<1>0. /\ m_cCompleteReady \in Nat /\ reported \in Nat
      /\ \A b, a : Delivered(b, a) <=> Received(b, a)
  BY DEF TypeOK, Delivered, Received, CopyStatus
<1>1. ASSUME NEW r \in Requests, NEW b \in BufferClasses, NEW c \in CancelTiming,
             GetNextSubscribedMessage(r, b, c) \/ GetNextProximityEvent(r, b, c)
      PROVE  EventsConserved'
  BY <1>0, <1>1 DEF GetNextSubscribedMessage, GetNextProximityEvent
<1>2. ASSUME NEW r \in Requests, NEW c \in CancelTiming,
             GetNextTransmittedMessage(r, c)
      PROVE  EventsConserved'
  <2>1. CASE m_cCompleteReady > 0
    BY <1>0, <1>2, <2>1 DEF GetNextTransmittedMessage
  <2>2. CASE ~(m_cCompleteReady > 0)
    BY <1>0, <1>2, <2>2 DEF GetNextTransmittedMessage
  <2> QED BY <2>1, <2>2
<1>3. ASSUME NEW r \in Requests, RejectGetNext(r) \/ Cancel(r) \/ OnCancel(r)
      PROVE  EventsConserved'
  BY <1>3 DEF RejectGetNext, Cancel, OnCancel, history
<1>4. CASE HandleProximityEvent
  BY <1>0, <1>4 DEF HandleProximityEvent
<1>5. CASE HandleMessageTransmitted
  BY <1>0, <1>5 DEF HandleMessageTransmitted
<1>6. CASE \/ SetPayload \/ BeginProximity \/ Disable \/ Enable \/ OnCloseFile
           \/ \E oom \in BOOLEAN : HandleReceivedPublication(oom)
           \/ UNCHANGED vars
  BY <1>6 DEF SetPayload, BeginProximity, Disable, Enable, OnCloseFile,
              HandleReceivedPublication, history, vars
<1> QED BY <1>1, <1>2, <1>3, <1>4, <1>5, <1>6 DEF Next

(***************************************************************************)
(* Every arrival, departure or transmission counted in m_cCompleteReady is *)
(* reported to exactly one request or still counted, although a request    *)
(* may be cancelled between the count and its completion.                  *)
(***************************************************************************)
THEOREM EventsNeverLost == Spec => []EventsConserved
<1>1. Init => TypeOK /\ EventsConserved
  BY InitType DEF Init, EventsConserved
<1>2. TypeOK /\ EventsConserved /\ [Next]_vars => (TypeOK /\ EventsConserved)'
  BY NextType, NextConserved
<1> QED BY <1>1, <1>2, PTL DEF Spec

-----------------------------------------------------------------------------
(***************************************************************************)
(* The strengthening that makes DeliveredOnceInOrder inductive: whatever   *)
(* is delivered, queued or lost was received.                              *)
(***************************************************************************)
OnlyReceived ==
  /\ lost \subseteq 1 .. published
  /\ \A i \in DOMAIN Handled : Handled[i] \in 1 .. published

OrderInv == DeliveredOnceInOrder /\ OnlyReceived

LEMMA HandledType ==
  ASSUME TypeOK
  PROVE  /\ Handled \in Seq(Nat)
         /\ DOMAIN Handled = 1 .. Len(delivered) + Len(m_SubscribedMessageQueue)
         /\ \A i \in 1 .. Len(delivered) : Handled[i] = delivered[i]
         /\ \A i \in 1 .. Len(m_SubscribedMessageQueue) :
              Handled[Len(delivered) + i] = m_SubscribedMessageQueue[i]
BY ConcatProperties, LenProperties DEF TypeOK, Handled

\* Handing the head of the list to the application leaves Handled as it is.
LEMMA MoveHead ==
  ASSUME NEW d \in Seq(Nat), NEW q \in Seq(Nat), q # <<>>
  PROVE  Append(d, Head(q)) \o Tail(q) = d \o q
<1>1. Head(q) \in Nat /\ Tail(q) \in Seq(Nat) /\ Len(Tail(q)) = Len(q) - 1
  BY HeadTailProperties
<1> QED BY <1>1

\* Queueing a message appends it to Handled.
LEMMA AppendLast ==
  ASSUME NEW d \in Seq(Nat), NEW q \in Seq(Nat), NEW m \in Nat
  PROVE  d \o Append(q, m) = Append(d \o q, m)
OBVIOUS

(***************************************************************************)
(* The four ways a step can treat messages, each keeping OrderInv.         *)
(***************************************************************************)
LEMMA NewMessageHandled ==
  ASSUME TypeOK, OrderInv, published' = published + 1, lost' = lost,
         Handled' = Append(Handled, published')
  PROVE  OrderInv'
<1> DEFINE H == Handled
           n == Len(Handled)
<1>1. published \in Nat /\ H \in Seq(Nat) /\ n \in Nat /\ DOMAIN H = 1 .. n
  BY HandledType, LenProperties DEF TypeOK
<1>2. /\ DOMAIN Handled' = 1 .. n + 1
      /\ \A i \in 1 .. n : Handled'[i] = H[i]
      /\ Handled'[n + 1] = published + 1
  BY <1>1, AppendProperties
<1> HIDE DEF H, n
<1>3. /\ \A i \in 1 .. n : H[i] \in 1 .. published
      /\ lost \subseteq 1 .. published
      /\ \A i, j \in 1 .. n : i < j => H[i] < H[j]
      /\ \A m \in 1 .. published : m \in lost <=> ~ \E i \in 1 .. n : H[i] = m
  BY <1>1 DEF OrderInv, OnlyReceived, DeliveredOnceInOrder, H
<1>4. \A i, j \in 1 .. n + 1 : i < j => Handled'[i] < Handled'[j]
  BY <1>1, <1>2, <1>3
<1>5. ASSUME NEW m \in 1 .. published'
      PROVE  m \in lost' <=> ~ \E i \in 1 .. n + 1 : Handled'[i] = m
  <2>1. CASE m = published + 1
    BY <1>1, <1>2, <1>3, <2>1
  <2>2. CASE m # published + 1
    BY <1>1, <1>2, <1>3, <2>2
  <2> QED BY <2>1, <2>2
<1>6. /\ lost' \subseteq 1 .. published'
      /\ \A i \in 1 .. n + 1 : Handled'[i] \in 1 .. published'
  BY <1>1, <1>2, <1>3
<1> QED BY <1>2, <1>4, <1>5, <1>6 DEF OrderInv, OnlyReceived, DeliveredOnceInOrder

LEMMA NewMessageLost ==
  ASSUME TypeOK, OrderInv, published' = published + 1,
         lost' = lost \cup {published'}, Handled' = Handled
  PROVE  OrderInv'
<1>1. published \in Nat
  BY DEF TypeOK
<1> QED BY <1>1 DEF OrderInv, OnlyReceived, DeliveredOnceInOrder

LEMMA NoNewMessage ==
  ASSUME OrderInv, published' = published, lost' = lost, Handled' = Handled
  PROVE  OrderInv'
BY DEF OrderInv, OnlyReceived, DeliveredOnceInOrder

LEMMA Purge ==
  ASSUME TypeOK, OrderInv, published' = published, delivered' = delivered,
         m_SubscribedMessageQueue' = <<>>,
         lost' = lost \cup {m_SubscribedMessageQueue[i] :
                              i \in DOMAIN m_SubscribedMessageQueue}
  PROVE  OrderInv'
<1> DEFINE H == Handled
           q == m_SubscribedMessageQueue
           k == Len(delivered)
           n == k + Len(q)
<1>1. /\ k \in Nat /\ n \in Nat /\ n >= k /\ DOMAIN H = 1 .. n
      /\ \A i \in 1 .. k : delivered[i] = H[i]
      /\ DOMAIN q = 1 .. n - k
      /\ \A i \in 1 .. n - k : q[i] = H[k + i]
  BY HandledType, LenProperties DEF TypeOK
<1>2. Handled' = delivered /\ DOMAIN delivered = 1 .. k
  BY LenProperties, ConcatEmptySeq DEF Handled, TypeOK
<1>3. lost' = lost \cup {q[i] : i \in 1 .. n - k}
  BY <1>1
<1>4. /\ \A i \in 1 .. n : H[i] \in 1 .. published
      /\ lost \subseteq 1 .. published
      /\ \A i, j \in 1 .. n : i < j => H[i] < H[j]
      /\ \A m \in 1 .. published : m \in lost <=> ~ \E i \in 1 .. n : H[i] = m
  BY <1>1 DEF OrderInv, OnlyReceived, DeliveredOnceInOrder
<1> HIDE DEF H, q, k, n
<1>5. ASSUME NEW m
      PROVE  m \in lost' <=> m \in lost \/ \E j \in k + 1 .. n : H[j] = m
  <2>1. m \in {q[i] : i \in 1 .. n - k} => \E j \in k + 1 .. n : H[j] = m
    <3> SUFFICES ASSUME NEW i \in 1 .. n - k, q[i] = m
                 PROVE  \E j \in k + 1 .. n : H[j] = m
      OBVIOUS
    <3>1. k + i \in k + 1 .. n /\ H[k + i] = m
      BY <1>1
    <3> QED BY <3>1
  <2>2. (\E j \in k + 1 .. n : H[j] = m) => m \in {q[i] : i \in 1 .. n - k}
    <3> SUFFICES ASSUME NEW j \in k + 1 .. n, H[j] = m
                 PROVE  \E i \in 1 .. n - k : q[i] = m
      OBVIOUS
    <3>1. j - k \in 1 .. n - k /\ q[j - k] = m
      BY <1>1
    <3> QED BY <3>1
  <2> QED BY <1>3, <2>1, <2>2
<1>6. ASSUME NEW m \in 1 .. published
      PROVE  m \in lost' <=> ~ \E i \in 1 .. k : H[i] = m
  <2>1. ASSUME NEW i \in 1 .. k, NEW j \in k + 1 .. n
        PROVE  H[i] # H[j]
    BY <1>1, <1>4
  <2>2. (\E i \in 1 .. n : H[i] = m) <=>
          (\E i \in 1 .. k : H[i] = m) \/ (\E j \in k + 1 .. n : H[j] = m)
    BY <1>1
  <2> QED BY <1>4, <1>5, <2>1, <2>2
<1>7. ASSUME NEW m, m \in lost' PROVE m \in 1 .. published
  <2>1. k + 1 .. n \subseteq 1 .. n
    BY <1>1
  <2> QED BY <1>4, <1>5, <1>7, <2>1
<1>8. /\ \A i, j \in 1 .. k : i < j => delivered[i] < delivered[j]
      /\ \A i \in 1 .. k : delivered[i] \in 1 .. published
  BY <1>1, <1>4
<1>9. \A m \in 1 .. published :
         m \in lost' <=> ~ \E i \in 1 .. k : delivered[i] = m
  BY <1>1, <1>6
<1> QED BY <1>2, <1>7, <1>8, <1>9 DEF OrderInv, OnlyReceived, DeliveredOnceInOrder

LEMMA NextOrder ==
  TypeOK /\ TypeOK' /\ PendedRequestOwned /\ WaitsOnlyForNothing /\ OrderInv
    /\ [Next]_vars => OrderInv'
<1> SUFFICES ASSUME TypeOK, TypeOK', PendedRequestOwned, WaitsOnlyForNothing,
                    OrderInv, [Next]_vars
             PROVE  OrderInv'
  OBVIOUS
<1>0. \A b, a : Delivered(b, a) <=> Received(b, a)
  BY DEF Delivered, Received, CopyStatus
<1>1. ASSUME NEW r \in Requests, NEW b \in BufferClasses, NEW c \in CancelTiming,
             GetNextSubscribedMessage(r, b, c)
      PROVE  OrderInv'
  <2>1. published' = published /\ lost' = lost
    BY <1>1 DEF GetNextSubscribedMessage
  <2>2. \/ /\ delivered' = delivered
           /\ m_SubscribedMessageQueue' = m_SubscribedMessageQueue
        \/ /\ m_SubscribedMessageQueue # <<>>
           /\ delivered' = Append(delivered, Head(m_SubscribedMessageQueue))
           /\ m_SubscribedMessageQueue' = Tail(m_SubscribedMessageQueue)
    BY <1>0, <1>1 DEF GetNextSubscribedMessage, list
  <2>3. Handled' = Handled
    BY <2>2, MoveHead DEF Handled, TypeOK
  <2> QED BY <2>1, <2>3, NoNewMessage
<1>2. CASE Disable \/ OnCloseFile
  <2>1. /\ published' = published /\ delivered' = delivered
        /\ m_SubscribedMessageQueue' = <<>>
        /\ lost' = lost \cup {m_SubscribedMessageQueue[i] :
                                i \in DOMAIN m_SubscribedMessageQueue}
    BY <1>2 DEF Disable, OnCloseFile
  <2> QED BY <2>1, Purge
<1>3. ASSUME NEW oom \in BOOLEAN, HandleReceivedPublication(oom)
      PROVE  OrderInv'
  <2> DEFINE message == published + 1
             waiting == m_pWdfRequest # NoRequest
             aborted == request[m_pWdfRequest] = "canceling"
             done == waiting /\ Delivered(buffer[m_pWdfRequest], aborted)
             q == m_SubscribedMessageQueue
  <2>1. published' = message /\ message \in Nat
    BY <1>3 DEF HandleReceivedPublication, TypeOK
  <2>2. CASE done
    <3>1. q = <<>>
      BY <1>3, <2>2 DEF HandleReceivedPublication, Delivered, TypeOK,
           PendedRequestOwned, WaitsOnlyForNothing, RequestStates
    <3>2. /\ delivered' = Append(delivered, message)
          /\ m_SubscribedMessageQueue' = q
          /\ lost' = lost
      BY <1>0, <1>3, <2>2 DEF HandleReceivedPublication
    <3>3. Handled' = Append(Handled, published')
      BY <2>1, <3>1, <3>2, ConcatEmptySeq, AppendProperties DEF Handled, TypeOK
    <3> QED BY <2>1, <3>2, <3>3, NewMessageHandled
  <2>3. CASE ~done
    <3>1. /\ delivered' = delivered
          /\ \/ /\ m_SubscribedMessageQueue' = Append(q, message)
                /\ lost' = lost
             \/ /\ m_SubscribedMessageQueue' = q
                /\ lost' = lost \cup {message}
      BY <1>0, <1>3, <2>3 DEF HandleReceivedPublication
    <3>2. CASE m_SubscribedMessageQueue' = Append(q, message) /\ lost' = lost
      <4>1. Handled' = Append(Handled, published')
        BY <2>1, <3>1, <3>2, AppendLast DEF Handled, TypeOK
      <4> QED BY <2>1, <3>2, <4>1, NewMessageHandled
    <3>3. CASE m_SubscribedMessageQueue' = q /\ lost' = lost \cup {message}
      <4>1. Handled' = Handled
        BY <3>1, <3>3 DEF Handled
      <4> QED BY <2>1, <3>3, <4>1, NewMessageLost
    <3> QED BY <3>1, <3>2, <3>3
  <2> QED BY <2>2, <2>3
<1>4. CASE \/ \E r \in Requests, c \in CancelTiming :
                \/ \E b \in BufferClasses : GetNextProximityEvent(r, b, c)
                \/ GetNextTransmittedMessage(r, c)
           \/ \E r \in Requests : RejectGetNext(r) \/ Cancel(r) \/ OnCancel(r)
           \/ SetPayload \/ BeginProximity \/ Enable
           \/ HandleProximityEvent \/ HandleMessageTransmitted
           \/ UNCHANGED vars
  <2>1. /\ published' = published /\ lost' = lost /\ delivered' = delivered
        /\ m_SubscribedMessageQueue' = m_SubscribedMessageQueue
    BY <1>4 DEF GetNextProximityEvent, GetNextTransmittedMessage, RejectGetNext,
         Cancel, OnCancel, SetPayload, BeginProximity, Enable,
         HandleProximityEvent, HandleMessageTransmitted, vars, list, history
  <2> QED BY <2>1, NoNewMessage DEF Handled
<1> QED BY <1>1, <1>2, <1>3, <1>4 DEF Next

(***************************************************************************)
(* Messages reach the application in the order they were received, each at *)
(* most once, and one that is neither delivered nor queued was dropped by  *)
(* the queue limit, a failed allocation, Disable or the close of the       *)
(* handle.  A cancellation that races a delivery neither loses a message   *)
(* nor lets a later one overtake it.                                       *)
(***************************************************************************)
THEOREM InOrderOnce == Spec => []DeliveredOnceInOrder
<1> DEFINE I == TypeOK /\ PendedRequestOwned /\ WaitsOnlyForNothing /\ OrderInv
<1>1. Init => I
  <2> SUFFICES ASSUME Init PROVE I
    OBVIOUS
  <2>1. TypeOK /\ PendedRequestOwned /\ WaitsOnlyForNothing
    BY InitType, NoRequestAssumption
       DEF Init, PendedRequestOwned, WaitsOnlyForNothing
  <2>2. Handled = <<>> /\ lost = {} /\ published = 0
    BY ConcatEmptySeq DEF Init, Handled
  <2>3. OrderInv
    BY <2>2 DEF OrderInv, OnlyReceived, DeliveredOnceInOrder
  <2> QED BY <2>1, <2>3
<1>2. I /\ [Next]_vars => I'
  BY NextType, NextOwned, NextWaits, NextOrder
<1>3. I => DeliveredOnceInOrder
  BY DEF OrderInv
<1> QED BY <1>1, <1>2, <1>3, PTL DEF Spec
=============================================================================
