------------------------------ MODULE LspSockets ------------------------------
(***************************************************************************)
(* The socket contexts of the layered service provider (chapter12/LSP,     *)
(* sockinfo.cpp).  The application holds a handle that ws2_32 maps to a    *)
(* SOCK_INFO; the SOCK_INFO holds the handle of the provider below.  The   *)
(* contexts of the provider are on a doubly linked list, head first here.  *)
(* A SOCK_INFO that was given back to the heap stays recognisable: memory  *)
(* is not handed out twice, so every use of a dangling pointer shows.      *)
(***************************************************************************)
EXTENDS Naturals, Sequences, FiniteSets, SequencesExt

CONSTANTS Infos, Handles, NoInfo, NoHandle, NoThread

ASSUME LspSocketsAssumption == NoInfo \notin Infos /\ NoHandle \notin Handles

VARIABLES info,     \* the SOCK_INFO structures
          list,     \* provider->SocketList
          handle    \* what WPUQuerySocketHandleContext answers for a handle

sockets == <<info, list, handle>>

Blank == [state |-> "none", ProviderSocket |-> "invalid", LayeredSocket |-> NoHandle,
          RefCount |-> 0, dwOutstandingAsync |-> 0, bClosing |-> FALSE,
          hIocp |-> FALSE, hWnd |-> FALSE, selected |-> FALSE, owner |-> NoThread,
          Bytes |-> 0,    \* BytesSent and BytesRecv
          moved |-> 0,    \* history: bytes the provider below has moved
          given |-> NoHandle]    \* history: the handle, kept when it is freed

(* What HeapFree leaves.                                                   *)
Remains(c) == [Blank EXCEPT !.state = "freed", !.given = info[c].given]

SocketsInit == /\ info = [c \in Infos |-> Blank]
               /\ list = <<>>
               /\ handle = [s \in Handles |-> NoInfo]

Live(c) == info[c].state = "used"

(* EnterCriticalSection(&SockCritSec): free, or already this thread's own. *)
CanLock(t, c) == info[c].owner \in {NoThread, t}

(***************************************************************************)
(* InsertSocketInfo writes the old head, RemoveSocketInfo the neighbours.  *)
(***************************************************************************)
InsertSocketInfo(l, c) == <<c>> \o l

RemoveSocketInfo(l, c) == RemoveAt(l, CHOOSE i \in DOMAIN l : l[i] = c)

InsertTouches(l) == {l[i] : i \in DOMAIN l \cap {1}}

RemoveTouches(l, c) == {l[i] : i \in {j \in DOMAIN l : \E k \in DOMAIN l :
                                        l[k] = c /\ (j = k + 1 \/ j = k - 1)}}

(***************************************************************************)
(* CreateSockInfo: a zeroed structure that inherits the window of the      *)
(* socket it was accepted on, on the list before it has a handle.          *)
(***************************************************************************)
CreateSockInfo(provider, layered, inherit) ==
  [Blank EXCEPT !.state = "used", !.ProviderSocket = provider,
                !.LayeredSocket = layered, !.given = layered, !.hWnd = inherit]

(* What a handle leads to that ws2_32 knows: a structure, or freed memory. *)
Known(s) == handle[s] # NoInfo /\ Live(handle[s])
Dangling(s) == handle[s] # NoInfo /\ ~Live(handle[s])

(* FindAndLockSocketContext, for a handle that leads to a structure.       *)
FindAndLockSocketContext(s) == [info EXCEPT ![handle[s]].RefCount = @ + 1]

(***************************************************************************)
(* UnlockSocketContext: the last reference to a socket that is being       *)
(* closed closes the handle, leaves the list, drops the lock whoever holds *)
(* it and frees the structure; outstanding I/O is not consulted.  A handle *)
(* that cannot be closed goes on leading to what was freed.                *)
(***************************************************************************)
LastReference(c) == info[c].RefCount = 1 /\ info[c].bClosing

UnlockSocketContext(c, closes) ==
  IF LastReference(c)
  THEN /\ info' = [info EXCEPT ![c] = Remains(c)]
       /\ handle' = [s \in Handles |-> IF closes /\ s = info[c].LayeredSocket THEN NoInfo ELSE handle[s]]
       /\ list' = RemoveSocketInfo(list, c)
  ELSE /\ info' = [info EXCEPT ![c].RefCount = @ - 1]
       /\ UNCHANGED <<handle, list>>

(* The neighbours that are written are its own, and alive: who leaves the  *)
(* list a second time follows the pointers it had.                         *)
RemoveSafe(c) == Contains(list, c) /\ \A d \in RemoveTouches(list, c) : Live(d)

UnlockSafe(c) == Live(c) /\ (LastReference(c) => RemoveSafe(c))

(***************************************************************************)
(* GetCallerSocket: the first structure of the list whose lower socket is  *)
(* the one the message names.  No reference is taken.                      *)
(***************************************************************************)
GetCallerSocket(c) == IF Contains(list, c) /\ info[c].ProviderSocket = "open" THEN c ELSE NoInfo
===============================================================================
