--------------------------- MODULE NfpFileContext ---------------------------
(***************************************************************************)
(* One CFileContext of the Near-Field Proximity driver                     *)
(* (driver/FileContext.cpp, driver/FileContext.h): the companion object of *)
(* an open handle.  A handle is a publication, a subscription, a           *)
(* subscription to arrivals or to departures, or (after BEGIN_PROXIMITY) a *)
(* proximity link.  It pends at most one "get next" request in             *)
(* m_pWdfRequest, and completes it when a message, an event, a transmit    *)
(* report, a Disable or a cancellation comes.                              *)
(*                                                                         *)
(* Every method holds m_RoleLock (a recursive critical section) from its   *)
(* first to its last access, so a method is one action.  What the lock     *)
(* does not stop is the framework's cancellation of a request: Cancel is   *)
(* an action of its own, and where a method marks a request cancelable and *)
(* then unmarks it the action chooses whether the cancellation came before *)
(* the mark, between the two, or not at all (CancelTiming).                *)
(***************************************************************************)
EXTENDS Naturals, Sequences

CONSTANTS
  Requests,               \* the "get next" I/O requests an application owns
  NoRequest,              \* m_pWdfRequest = NULL
  MAX_MESSAGE_QUEUE_SIZE, \* internal.h (50 in the build)
  AllocationFails,        \* whether operator new may return NULL
  MaxMessages,            \* bound: publications received in a behaviour
  MaxEvents               \* bound: proximity events and transmissions

ASSUME NoRequestAssumption == NoRequest \notin Requests

ASSUME BoundsAssumption == /\ MAX_MESSAGE_QUEUE_SIZE \in Nat \ {0}
                           /\ AllocationFails \in BOOLEAN
                           /\ MaxMessages \in Nat
                           /\ MaxEvents \in Nat

VARIABLES
  m_Role,                   \* enum ROLE
  m_fEnabled,
  m_dwQueueSize,            \* the counter kept beside the list
  m_SubscribedMessageQueue, \* the list itself, oldest first
  m_fPayload,               \* m_MyPayload.GetPayload() != NULL
  m_cCompleteReady,
  m_pWdfRequest,
  alive,                    \* the object is not yet deleted
  request,                  \* external: the framework's state of a request
  buffer,                   \* external: size class of its output buffer
  outcome,                  \* external: the status it was last completed with
  published,                \* history: how many publications matched
  delivered,                \* history: the ones requests were completed with
  lost,                     \* history: the ones dropped or purged
  events,                   \* history: arrivals, departures, transmissions
  reported                  \* history: those a request was completed for

list    == <<m_dwQueueSize, m_SubscribedMessageQueue>>
fxvars  == <<request, buffer, outcome>>
history == <<published, delivered, lost, events, reported>>
vars    == <<m_Role, m_fEnabled, list, m_fPayload, m_cCompleteReady,
             m_pWdfRequest, alive, fxvars, history>>

Roles == {"undefined", "subscription", "arrived", "departed", "publication",
          "proximity"}

(***************************************************************************)
(* External: a request handed to the driver may become cancelable, may     *)
(* then be claimed by the framework's cancel path (from which point        *)
(* UnmarkCancelable answers ERROR_OPERATION_ABORTED and OnCancel is called *)
(* once), and is completed, after which the application may send it again. *)
(***************************************************************************)
RequestStates == {"free", "cancelable", "canceling"}

(***************************************************************************)
(* Output buffers as CompleteOneGetNextSubscribedMessage tells them apart: *)
(* no memory object, too small for the 4-byte size hint, too small for the *)
(* payload, large enough.                                                  *)
(***************************************************************************)
BufferClasses == {"none", "tiny", "hint", "full"}

Outcomes == {"none", "ok", "overflow", "toosmall", "abort", "cancelled",
             "invalid"}

CancelTiming == {"before", "during", "never"}

(***************************************************************************)
(* CMyQueue::OnCreateFile: the role a handle gets from the two parts of    *)
(* its name, "failed" when the create is refused.  No name, or one longer  *)
(* than MaxCchType, skips the parsing.                                     *)
(***************************************************************************)
Namespaces == {"unnamed", "pubs", "subs", "otherspace"}
Protocols  == {"typed", "DeviceArrived", "DeviceDeparted", "ndefempty",
               "unknown"}

RoleOf(space, protocol) ==
  CASE space = "unnamed"    -> "undefined"
    [] space = "otherspace" -> "failed"
    [] protocol \in {"ndefempty", "unknown"} -> "failed"
    [] protocol = "typed" -> IF space = "pubs" THEN "publication"
                                               ELSE "subscription"
    [] space = "pubs" -> "failed"
    [] protocol = "DeviceArrived" -> "arrived"
    [] OTHER -> "departed"

Init ==
  /\ m_Role \in {RoleOf(s, p) : s \in Namespaces, p \in Protocols} \ {"failed"}
  /\ m_fEnabled = TRUE
  /\ m_dwQueueSize = 0
  /\ m_SubscribedMessageQueue = <<>>
  /\ m_fPayload = FALSE
  /\ m_cCompleteReady = 0
  /\ m_pWdfRequest = NoRequest
  /\ alive = TRUE
  /\ request = [r \in Requests |-> "free"]
  /\ buffer = [r \in Requests |-> "none"]
  /\ outcome = [r \in Requests |-> "none"]
  /\ published = 0
  /\ delivered = <<>>
  /\ lost = {}
  /\ events = 0
  /\ reported = 0

-----------------------------------------------------------------------------
(***************************************************************************)
(* CompleteRequest for the pended request r.  When the cancellation has    *)
(* already claimed r (UnmarkCancelable fails) r stays pended, and OnCancel *)
(* will complete it.                                                       *)
(***************************************************************************)
CompleteRequestForgets(r, status, aborted) == \* mutant: clears the pointer always
  /\ m_pWdfRequest' = NoRequest
  /\ request' = [request EXCEPT ![r] = IF aborted THEN "canceling" ELSE "free"]
  /\ outcome' = IF aborted THEN outcome ELSE [outcome EXCEPT ![r] = status]

CompleteRequest(r, status, aborted) ==
  IF aborted
  THEN /\ m_pWdfRequest' = r
       /\ request' = [request EXCEPT ![r] = "canceling"]
       /\ UNCHANGED outcome
  ELSE /\ m_pWdfRequest' = NoRequest
       /\ request' = [request EXCEPT ![r] = "free"]
       /\ outcome' = [outcome EXCEPT ![r] = status]

\* m_pWdfRequest = r, MarkCancelable, and nothing to complete it with yet.
Pend(r, aborted) ==
  /\ m_pWdfRequest' = r
  /\ request' = [request EXCEPT ![r] = IF aborted THEN "canceling"
                                                  ELSE "cancelable"]
  /\ UNCHANGED outcome

(***************************************************************************)
(* The status an output buffer of class b earns, and fDelivered, the value *)
(* CompleteOneGetNextSubscribedMessage returns.                            *)
(***************************************************************************)
CopyStatus(b) == CASE b = "full" -> "ok"
                   [] b = "hint" -> "overflow"
                   [] OTHER -> "toosmall"

DeliveredIfCopied(b, aborted) == b = "full" \* mutant: forgets CompleteRequest

Delivered(b, aborted) == b = "full" /\ ~aborted

\* What the application sees (for the history): a request completed with S_OK.
Received(b, aborted) == CopyStatus(b) = "ok" /\ ~aborted

(***************************************************************************)
(* CompleteOneGetNextSubscribedMessage: the counter drops as soon as the   *)
(* payload is copied, whether or not the request can then be completed.    *)
(***************************************************************************)
QueueSizeAfterCopy(b) ==
  IF b = "full" /\ m_dwQueueSize > 0 THEN m_dwQueueSize - 1 ELSE m_dwQueueSize

CompleteOne(r, b, aborted) ==
  IF b = "none" THEN Pend(r, aborted)
                ELSE CompleteRequest(r, CopyStatus(b), aborted)

\* MarkCancelable of a request already cancelled runs OnCancel in this thread.
CanceledAtOnce(r) ==
  /\ m_pWdfRequest' = NoRequest
  /\ outcome' = [outcome EXCEPT ![r] = "abort"]
  /\ UNCHANGED request

-----------------------------------------------------------------------------
(***************************************************************************)
(* IOCTL_NFP_GET_NEXT_SUBSCRIBED_MESSAGE on a subscription, with an output *)
(* buffer of class b and the cancellation at time c.                       *)
(***************************************************************************)
GetNextSubscribedMessage(r, b, c) ==
  LET aborted == c = "during"
      fill    == m_SubscribedMessageQueue # <<>>
  IN /\ alive /\ m_Role = "subscription"
     /\ request[r] = "free" /\ m_pWdfRequest = NoRequest /\ m_fEnabled
     /\ buffer' = [buffer EXCEPT ![r] = b]
     /\ \/ /\ c = "before"
           /\ CanceledAtOnce(r)
           /\ UNCHANGED <<list, delivered>>
        \/ /\ c # "before" /\ ~fill
           /\ Pend(r, aborted)
           /\ UNCHANGED <<list, delivered>>
        \/ /\ c # "before" /\ fill
           /\ CompleteOne(r, b, aborted)
           /\ m_dwQueueSize' = QueueSizeAfterCopy(b)
           /\ m_SubscribedMessageQueue' =
                IF Delivered(b, aborted) THEN Tail(m_SubscribedMessageQueue)
                                         ELSE m_SubscribedMessageQueue
           /\ delivered' =
                IF Received(b, aborted)
                THEN Append(delivered, Head(m_SubscribedMessageQueue))
                ELSE delivered
     /\ UNCHANGED <<m_Role, m_fEnabled, m_fPayload, m_cCompleteReady, alive,
                    published, lost, events, reported>>

(***************************************************************************)
(* The same IOCTL on a subscription to arrivals or departures, completed   *)
(* by CompleteOneArrivalEvent or CompleteOneRemovalEvent.                  *)
(***************************************************************************)
GetNextProximityEvent(r, b, c) ==
  LET aborted == c = "during"
      fill    == m_cCompleteReady > 0
  IN /\ alive /\ m_Role \in {"arrived", "departed"}
     /\ request[r] = "free" /\ m_pWdfRequest = NoRequest /\ m_fEnabled
     /\ buffer' = [buffer EXCEPT ![r] = b]
     /\ \/ /\ c = "before"
           /\ CanceledAtOnce(r)
           /\ UNCHANGED <<m_cCompleteReady, reported>>
        \/ /\ c # "before" /\ ~fill
           /\ Pend(r, aborted)
           /\ UNCHANGED <<m_cCompleteReady, reported>>
        \/ /\ c # "before" /\ fill
           /\ CompleteOne(r, b, aborted)
           /\ m_cCompleteReady' = IF Delivered(b, aborted)
                                  THEN m_cCompleteReady - 1
                                  ELSE m_cCompleteReady
           /\ reported' = IF Received(b, aborted) THEN reported + 1 ELSE reported
     /\ UNCHANGED <<m_Role, m_fEnabled, list, m_fPayload, alive, published,
                    delivered, lost, events>>

(***************************************************************************)
(* IOCTL_NFP_GET_NEXT_TRANSMITTED_MESSAGE: a counted transmission          *)
(* completes the request before it is ever marked cancelable.              *)
(***************************************************************************)
GetNextTransmittedPends(r, c) == \* mutant: m_cCompleteReady is not consulted
  /\ alive /\ m_Role = "publication"
  /\ request[r] = "free" /\ m_pWdfRequest = NoRequest /\ m_fEnabled
  /\ buffer' = [buffer EXCEPT ![r] = "none"]
  /\ IF c = "before" THEN CanceledAtOnce(r) ELSE Pend(r, c = "during")
  /\ UNCHANGED <<m_Role, m_fEnabled, list, m_fPayload, m_cCompleteReady,
                 alive, history>>

GetNextTransmittedMessage(r, c) ==
  /\ alive /\ m_Role = "publication"
  /\ request[r] = "free" /\ m_pWdfRequest = NoRequest /\ m_fEnabled
  /\ buffer' = [buffer EXCEPT ![r] = "none"]
  /\ IF m_cCompleteReady > 0
     THEN /\ CompleteRequest(r, "ok", FALSE)
          /\ m_cCompleteReady' = m_cCompleteReady - 1
          /\ reported' = reported + 1
     ELSE /\ IF c = "before" THEN CanceledAtOnce(r) ELSE Pend(r, c = "during")
          /\ UNCHANGED <<m_cCompleteReady, reported>>
  /\ UNCHANGED <<m_Role, m_fEnabled, list, m_fPayload, alive, published,
                 delivered, lost, events>>

(***************************************************************************)
(* Either "get next" IOCTL refused: a request already pended, the handle   *)
(* disabled, the wrong role, or (so that it may happen in every state) a   *)
(* buffer of the wrong shape.  The test of m_fEnabled comes last and its   *)
(* status wins.  The dispatch routine completes the request with the error *)
(* and the context keeps its state.                                        *)
(***************************************************************************)
RejectGetNext(r) ==
  /\ alive /\ request[r] = "free"
  /\ outcome' = [outcome EXCEPT ![r] = IF m_fEnabled THEN "invalid"
                                                     ELSE "cancelled"]
  /\ UNCHANGED <<m_Role, m_fEnabled, list, m_fPayload, m_cCompleteReady,
                 m_pWdfRequest, alive, request, buffer, history>>

\* IOCTL_NFP_SET_PAYLOAD: once per publication.
SetPayload ==
  /\ alive /\ m_Role = "publication" /\ ~m_fPayload
  /\ m_fPayload' = TRUE
  /\ UNCHANGED <<m_Role, m_fEnabled, list, m_cCompleteReady, m_pWdfRequest,
                 alive, fxvars, history>>

\* IOCTL_BEGIN_PROXIMITY keeps the role even when the connection then fails.
BeginProximity ==
  /\ alive /\ m_Role = "undefined"
  /\ m_Role' = "proximity"
  /\ UNCHANGED <<m_fEnabled, list, m_fPayload, m_cCompleteReady,
                 m_pWdfRequest, alive, fxvars, history>>

(***************************************************************************)
(* IOCTL_NFP_DISABLE purges the list and leaves the counter beside it as   *)
(* it was.                                                                 *)
(***************************************************************************)
Disable ==
  /\ alive /\ m_Role \notin {"undefined", "proximity"} /\ m_fEnabled
  /\ m_fEnabled' = FALSE
  /\ IF m_pWdfRequest = NoRequest
     THEN UNCHANGED <<m_pWdfRequest, request, outcome>>
     ELSE CompleteRequest(m_pWdfRequest, "cancelled",
                          request[m_pWdfRequest] = "canceling")
  /\ m_SubscribedMessageQueue' = <<>>
  /\ lost' = lost \cup {m_SubscribedMessageQueue[i] :
                          i \in DOMAIN m_SubscribedMessageQueue}
  /\ UNCHANGED <<m_Role, m_dwQueueSize, m_fPayload, m_cCompleteReady, alive,
                 buffer, published, delivered, events, reported>>

\* IOCTL_NFP_ENABLE.
Enable ==
  /\ alive /\ m_Role \notin {"undefined", "proximity"} /\ ~m_fEnabled
  /\ m_fEnabled' = TRUE
  /\ UNCHANGED <<m_Role, list, m_fPayload, m_cCompleteReady, m_pWdfRequest,
                 alive, fxvars, history>>

-----------------------------------------------------------------------------
(***************************************************************************)
(* HandleReceivedPublication, for a publication whose type matches this    *)
(* enabled subscription (any other, and a WindowsMime message whose copy   *)
(* cannot be allocated, leaves the context alone): complete the pended     *)
(* request with it, or queue it while the counter allows.                  *)
(***************************************************************************)
HandleReceivedPublication(oom) ==
  LET message   == published + 1
      waiting   == m_pWdfRequest # NoRequest
      aborted   == request[m_pWdfRequest] = "canceling"
      b         == buffer[m_pWdfRequest]
      done      == waiting /\ Delivered(b, aborted)
      size      == IF waiting THEN QueueSizeAfterCopy(b) ELSE m_dwQueueSize
      keep      == ~done /\ size < MAX_MESSAGE_QUEUE_SIZE /\ ~oom
  IN /\ alive /\ m_Role = "subscription" /\ m_fEnabled
     /\ published < MaxMessages
     /\ oom => AllocationFails
     /\ published' = message
     /\ IF waiting THEN CompleteOne(m_pWdfRequest, b, aborted)
                   ELSE UNCHANGED <<m_pWdfRequest, request, outcome>>
     /\ m_dwQueueSize' = IF keep THEN size + 1 ELSE size
     /\ m_SubscribedMessageQueue' = IF keep
                                    THEN Append(m_SubscribedMessageQueue, message)
                                    ELSE m_SubscribedMessageQueue
     /\ delivered' = IF waiting /\ Received(b, aborted)
                     THEN Append(delivered, message) ELSE delivered
     /\ lost' = IF done \/ keep THEN lost ELSE lost \cup {message}
     /\ UNCHANGED <<m_Role, m_fEnabled, m_fPayload, m_cCompleteReady, alive,
                    buffer, events, reported>>

(***************************************************************************)
(* HandleArrivalEvent and HandleRemovalEvent of an enabled handle: count   *)
(* the event, then CompleteOneArrivalEvent / CompleteOneRemovalEvent.      *)
(***************************************************************************)
HandleProximityEvent ==
  LET waiting == m_pWdfRequest # NoRequest
      aborted == request[m_pWdfRequest] = "canceling"
      done    == waiting /\ Delivered(buffer[m_pWdfRequest], aborted)
  IN /\ alive /\ m_Role \in {"arrived", "departed"} /\ m_fEnabled
     /\ events < MaxEvents
     /\ events' = events + 1
     /\ IF waiting THEN CompleteOne(m_pWdfRequest, buffer[m_pWdfRequest], aborted)
                   ELSE UNCHANGED <<m_pWdfRequest, request, outcome>>
     /\ m_cCompleteReady' = IF done THEN m_cCompleteReady
                                    ELSE m_cCompleteReady + 1
     /\ reported' = IF waiting /\ Received(buffer[m_pWdfRequest], aborted)
                    THEN reported + 1 ELSE reported
     /\ UNCHANGED <<m_Role, m_fEnabled, list, m_fPayload, alive, buffer,
                    published, delivered, lost>>

(***************************************************************************)
(* HandleMessageTransmitted: the payload went out on a connection.         *)
(***************************************************************************)
HandleMessageTransmitted ==
  LET aborted == request[m_pWdfRequest] = "canceling"
      done    == m_pWdfRequest # NoRequest /\ ~aborted
  IN /\ alive /\ m_Role = "publication" /\ m_fPayload
     /\ events < MaxEvents
     /\ events' = events + 1
     /\ IF m_pWdfRequest = NoRequest
        THEN UNCHANGED <<m_pWdfRequest, request, outcome>>
        ELSE CompleteRequest(m_pWdfRequest, "ok", aborted)
     /\ m_cCompleteReady' = IF done THEN m_cCompleteReady
                                    ELSE m_cCompleteReady + 1
     /\ reported' = IF done THEN reported + 1 ELSE reported
     /\ UNCHANGED <<m_Role, m_fEnabled, list, m_fPayload, alive, buffer,
                    published, delivered, lost>>

-----------------------------------------------------------------------------
\* External: the framework takes a cancelable request for cancellation.
Cancel(r) ==
  /\ request[r] = "cancelable"
  /\ request' = [request EXCEPT ![r] = "canceling"]
  /\ UNCHANGED <<m_Role, m_fEnabled, list, m_fPayload, m_cCompleteReady,
                 m_pWdfRequest, alive, buffer, outcome, history>>

(***************************************************************************)
(* CMyQueue::OnCancel for r, then CFileContext::OnCancel, which completes  *)
(* whatever request is pended.                                             *)
(***************************************************************************)
OnCancel(r) ==
  /\ alive /\ request[r] = "canceling" /\ m_pWdfRequest # NoRequest
  /\ CompleteRequest(m_pWdfRequest, "abort", FALSE)
  /\ UNCHANGED <<m_Role, m_fEnabled, list, m_fPayload, m_cCompleteReady,
                 alive, buffer, history>>

(***************************************************************************)
(* CMyQueue::OnCloseFile and the destructor.  The framework closes a file  *)
(* only when none of its requests is outstanding (external).               *)
(***************************************************************************)
OnCloseFile ==
  /\ alive
  /\ \A r \in Requests : request[r] = "free"
  /\ alive' = FALSE
  /\ m_SubscribedMessageQueue' = <<>>
  /\ lost' = lost \cup {m_SubscribedMessageQueue[i] :
                          i \in DOMAIN m_SubscribedMessageQueue}
  /\ IF m_pWdfRequest = NoRequest
     THEN UNCHANGED <<m_pWdfRequest, request, outcome>>
     ELSE CompleteRequest(m_pWdfRequest, "abort", FALSE)
  /\ UNCHANGED <<m_Role, m_fEnabled, m_dwQueueSize, m_fPayload,
                 m_cCompleteReady, buffer, published, delivered, events,
                 reported>>

Next ==
  \/ \E r \in Requests, c \in CancelTiming :
       \/ \E b \in BufferClasses : GetNextSubscribedMessage(r, b, c)
       \/ \E b \in BufferClasses : GetNextProximityEvent(r, b, c)
       \/ GetNextTransmittedMessage(r, c)
  \/ \E r \in Requests : RejectGetNext(r) \/ Cancel(r) \/ OnCancel(r)
  \/ SetPayload \/ BeginProximity \/ Disable \/ Enable
  \/ \E oom \in BOOLEAN : HandleReceivedPublication(oom)
  \/ HandleProximityEvent
  \/ HandleMessageTransmitted
  \/ OnCloseFile

(***************************************************************************)
(* The framework promises to call OnCancel for a request it has claimed;   *)
(* nobody promises that messages come or that the application cancels.     *)
(***************************************************************************)
Fairness == \A r \in Requests : WF_vars(OnCancel(r))

Spec == Init /\ [][Next]_vars /\ Fairness

-----------------------------------------------------------------------------
(***************************************************************************)
(* Types.                                                                  *)
(***************************************************************************)
TypeOK ==
  /\ m_Role \in Roles
  /\ m_fEnabled \in BOOLEAN
  /\ m_dwQueueSize \in 0 .. MAX_MESSAGE_QUEUE_SIZE
  /\ m_SubscribedMessageQueue \in Seq(Nat)
  /\ m_fPayload \in BOOLEAN
  /\ m_cCompleteReady \in Nat
  /\ m_pWdfRequest \in Requests \cup {NoRequest}
  /\ alive \in BOOLEAN
  /\ request \in [Requests -> RequestStates]
  /\ buffer \in [Requests -> BufferClasses]
  /\ outcome \in [Requests -> Outcomes]
  /\ published \in Nat
  /\ delivered \in Seq(Nat)
  /\ lost \in SUBSET Nat
  /\ events \in Nat
  /\ reported \in Nat

(***************************************************************************)
(* The driver holds exactly the requests that the framework thinks it      *)
(* holds: m_pWdfRequest names an uncompleted request (so no request is     *)
(* completed twice, whichever of Disable, OnCancel and a delivery comes    *)
(* first), and no uncompleted request has been forgotten.                  *)
(***************************************************************************)
PendedRequestOwned ==
  \A r \in Requests : request[r] # "free" <=> m_pWdfRequest = r

(***************************************************************************)
(* No lost wake-up: a request that waits, is not being cancelled and has   *)
(* an output buffer never coexists with something it could be completed    *)
(* with, nor with a disabled handle.                                       *)
(***************************************************************************)
WaitsOnlyForNothing ==
  \A r \in Requests :
    request[r] = "cancelable" =>
      /\ m_fEnabled
      /\ m_Role = "publication" => m_cCompleteReady = 0
      /\ m_Role = "subscription" /\ buffer[r] # "none" =>
           m_SubscribedMessageQueue = <<>>
      /\ m_Role \in {"arrived", "departed"} /\ buffer[r] # "none" =>
           m_cCompleteReady = 0

(***************************************************************************)
(* First in, first out, and each once: the messages handed to the          *)
(* application followed by those still queued are in the order they were   *)
(* received, without repetition, and every received message is one of      *)
(* these or was dropped.                                                   *)
(***************************************************************************)
Handled == delivered \o m_SubscribedMessageQueue

DeliveredOnceInOrder ==
  /\ \A i, j \in DOMAIN Handled : i < j => Handled[i] < Handled[j]
  /\ \A m \in 1 .. published :
       m \in lost <=> ~ \E i \in DOMAIN Handled : Handled[i] = m

(***************************************************************************)
(* Every arrival, departure or transmission that was counted is reported   *)
(* to exactly one request or still waits in m_cCompleteReady, whatever     *)
(* cancellations and short buffers come in between.                        *)
(***************************************************************************)
EventsConserved == events = reported + m_cCompleteReady

(***************************************************************************)
(* A request the framework has claimed for cancellation is completed: a    *)
(* method that meets ERROR_OPERATION_ABORTED leaves it to OnCancel, and    *)
(* OnCancel finds it.                                                      *)
(***************************************************************************)
CancellationCompletes ==
  \A r \in Requests : request[r] = "canceling" ~> request[r] = "free"

(***************************************************************************)
(* internal.h: MAX_MESSAGE_QUEUE_SIZE is "the maximum size of the message  *)
(* queue".  The code bounds the counter; a cancellation that beats         *)
(* UnmarkCancelable lowers the counter and leaves the message queued.      *)
(***************************************************************************)
QueueWithinMaximum == Len(m_SubscribedMessageQueue) <= MAX_MESSAGE_QUEUE_SIZE
=============================================================================
