---------------------------- MODULE NfpRendezvous ----------------------------
(***************************************************************************)
(* How two machines on which Ctrl-F1 is pressed find each other            *)
(* (exe/NetNfpControl.cpp, Proximity and AcquireFileLock): through files   *)
(* in one directory of a network share.  A machine that finds a            *)
(* "*.available" marker renames it and becomes the client of the machine   *)
(* named in it; one that finds none places its own marker, sleeps for two  *)
(* seconds and then expires the marker if it is still there.  The          *)
(* directory is guarded by a lock file, opened without sharing.            *)
(*                                                                         *)
(* The directory is named after the hour; one hour is modelled.  A process *)
(* handles one press at a time (the hot key is a window message).  A       *)
(* process may be closed at any moment: its lock goes, its marker stays.   *)
(* Any call on a file of the share may fail; the code looks at few of the  *)
(* results.  (A lock that is held is not lost.)                            *)
(***************************************************************************)
EXTENDS Naturals, FiniteSets

CONSTANTS
  Machines,
  NoMachine,
  LockFails,   \* 200 attempts at the lock may not be enough
  Crashes,     \* a process may be closed between two steps
  MaxFailures, \* bound: presses in which calls on the share fail
  MaxPresses   \* bound: presses of the hot key in a behaviour

ASSUME MachinesAssumption == NoMachine \notin Machines

ASSUME ChoicesAssumption == /\ LockFails \in BOOLEAN
                            /\ Crashes \in BOOLEAN
                            /\ {MaxPresses, MaxFailures} \subseteq Nat

VARIABLES
  lock,            \* who has lock.txt open
  available,       \* the machines whose marker is in the directory
  written,         \* those whose marker has its content
  pc,
  found,           \* the machine whose marker FindFirstFile found
  presses,         \* how many times the key was pressed
  press,           \* which of them was the last on a machine
  placed,          \* history: the press that placed a machine's last marker
  claims,          \* history: <<machine, placed, client, its press>>
  left,            \* history: presses that left without expiring the marker
  failed,          \* history: presses in which a call on the share failed
  result           \* what the last press on a machine printed in the end

share   == <<lock, available, written>>
keys    == <<presses, press>>
history == <<placed, claims, left, failed>>
vars    == <<share, pc, found, keys, history, result>>

Init ==
  /\ lock = NoMachine
  /\ available = {}
  /\ written = {}
  /\ pc = [m \in Machines |-> "idle"]
  /\ found = [m \in Machines |-> NoMachine]
  /\ presses = 0
  /\ press = [m \in Machines |-> 0]
  /\ placed = [m \in Machines |-> 0]
  /\ claims = {}
  /\ left = {}
  /\ failed = {}
  /\ result = [m \in Machines |-> "none"]

Goto(m, place) == pc' = [pc EXCEPT ![m] = place]
Report(m, text) == result' = [result EXCEPT ![m] = text]

ShareCallFails(m) ==
  /\ Cardinality(failed \cup {<<m, press[m]>>}) <= MaxFailures
  /\ failed' = failed \cup {<<m, press[m]>>}

\* WM_HOTKEY without a machine name: Proximity begins.
Press(m) ==
  /\ pc[m] = "idle" /\ presses < MaxPresses
  /\ presses' = presses + 1
  /\ press' = [press EXCEPT ![m] = presses + 1]
  /\ Report(m, "none")
  /\ Goto(m, "lock")
  /\ UNCHANGED <<share, found, history>>

\* AcquireFileLock: CreateFile with no sharing, tried until it succeeds.
AcquireFileLock(m, from, to) ==
  /\ pc[m] = from
  /\ lock = NoMachine
  /\ lock' = m
  /\ Goto(m, to)

\* CloseHandle(hLock), which also deletes the file.
ReleaseFileLock == lock' = NoMachine

EnterProximity(m) ==
  /\ AcquireFileLock(m, "lock", "look")
  /\ UNCHANGED <<available, written, found, keys, history, result>>

\* "Proximity Lock Not Acquired": nothing was done yet.
LockNotAcquired(m) ==
  /\ LockFails /\ pc[m] = "lock"
  /\ Goto(m, "idle")
  /\ UNCHANGED <<share, found, keys, history, result>>

\* FindFirstFile("*.available"), which does not leave out the machine's own.
FindAvailable(m) ==
  /\ pc[m] = "look"
  /\ \/ /\ available = {}
        /\ Goto(m, "place")
        /\ UNCHANGED found
     \/ \E s \in available :
          /\ found' = [found EXCEPT ![m] = s]
          /\ Goto(m, "read")
  /\ UNCHANGED <<share, keys, history, result>>

\* FindFirstFile fails, and to the code that means that there is no marker.
SearchFails(m) ==
  /\ pc[m] = "look"
  /\ ShareCallFails(m)
  /\ Goto(m, "place")
  /\ UNCHANGED <<share, found, keys, placed, claims, left, result>>

ClaimMarkerCopies(m, s) == \* mutant: the marker copied, not renamed
  /\ pc[m] = "read" /\ found[m] = s
  /\ claims' = IF s \in written
               THEN claims \cup {<<s, placed[s], m, press[m]>>} ELSE claims
  /\ found' = [found EXCEPT ![m] = NoMachine]
  /\ ReleaseFileLock
  /\ Goto(m, "client")
  /\ UNCHANGED <<available, written, keys, placed, left, failed, result>>

\* The marker is read, and renamed unless it was empty.
ClaimMarker(m, s) ==
  /\ pc[m] = "read" /\ found[m] = s
  /\ IF s \in written
     THEN /\ available' = available \ {s}
          /\ written' = written \ {s}
          /\ claims' = claims \cup {<<s, placed[s], m, press[m]>>}
     ELSE UNCHANGED <<available, written, claims>>
  /\ found' = [found EXCEPT ![m] = NoMachine]
  /\ ReleaseFileLock
  /\ Goto(m, "client")
  /\ UNCHANGED <<keys, placed, left, failed, result>>

\* It is not read, or not renamed: then the client goes on all the same.
ClaimFails(m, s) ==
  /\ pc[m] = "read" /\ found[m] = s
  /\ ShareCallFails(m)
  /\ \/ UNCHANGED claims
     \/ s \in written /\ claims' = claims \cup {<<s, placed[s], m, press[m]>>}
  /\ found' = [found EXCEPT ![m] = NoMachine]
  /\ ReleaseFileLock
  /\ Goto(m, "client")
  /\ UNCHANGED <<available, written, keys, placed, left, result>>

\* No marker: CreateFile(CREATE_NEW) of its own, then WriteFile.
PlaceMarker(m) ==
  /\ pc[m] = "place" /\ m \notin available
  /\ available' = available \cup {m}
  /\ placed' = [placed EXCEPT ![m] = press[m]]
  /\ Goto(m, "write")
  /\ UNCHANGED <<lock, written, found, keys, claims, left, failed, result>>

WriteMarker(m) ==
  /\ pc[m] = "write"
  /\ written' = written \cup {m}
  /\ ReleaseFileLock
  /\ Goto(m, "sleep")
  /\ UNCHANGED <<available, found, keys, history, result>>

\* Neither call is checked: the other machine is awaited all the same.
PlaceFails(m) ==
  /\ pc[m] \in {"place", "write"}
  /\ ShareCallFails(m)
  /\ ReleaseFileLock
  /\ Goto(m, "sleep")
  /\ UNCHANGED <<available, written, found, keys, placed, claims, left, result>>

(***************************************************************************)
(* The client: BeginProximity succeeds, the link is up for a second, and   *)
(* the handle is closed; or it fails.                                      *)
(***************************************************************************)
BeginProximity(m) ==
  /\ pc[m] = "client"
  /\ \/ Goto(m, "linked") /\ UNCHANGED result
     \/ Goto(m, "idle") /\ Report(m, "failed")
  /\ UNCHANGED <<share, found, keys, history>>

EndProximity(m) ==
  /\ pc[m] = "linked"
  /\ Report(m, "complete")
  /\ Goto(m, "idle")
  /\ UNCHANGED <<share, found, keys, history>>

\* The other machine: Sleep(2000), then the lock again.
Wake(m) ==
  /\ pc[m] = "sleep"
  /\ Goto(m, "relock")
  /\ UNCHANGED <<share, found, keys, history, result>>

ReenterProximity(m) ==
  /\ AcquireFileLock(m, "relock", "expire")
  /\ UNCHANGED <<available, written, found, keys, history, result>>

\* It never gets the lock, leaves its marker, and fCompleted is still true.
ExpireSkipped(m) ==
  /\ LockFails /\ pc[m] = "relock"
  /\ left' = left \cup {<<m, press[m]>>}
  /\ Report(m, "successful")
  /\ Goto(m, "idle")
  /\ UNCHANGED <<share, found, keys, placed, claims, failed>>

ExpireAssumesSuccess(m) == \* mutant: the result of MoveFile ignored
  /\ pc[m] = "expire"
  /\ available' = available \ {m}
  /\ written' = written \ {m}
  /\ Report(m, "successful")
  /\ ReleaseFileLock
  /\ Goto(m, "idle")
  /\ UNCHANGED <<found, keys, history>>

\* MoveFile of the marker succeeds: nobody came.
Expire(m) ==
  /\ pc[m] = "expire"
  /\ available' = available \ {m}
  /\ written' = written \ {m}
  /\ Report(m, IF m \in available THEN "unsuccessful" ELSE "successful")
  /\ ReleaseFileLock
  /\ Goto(m, "idle")
  /\ UNCHANGED <<found, keys, history>>

\* MoveFile fails for another reason, and the marker stays: to the code that
\* is a marker that has been claimed.
ExpireFails(m) ==
  /\ pc[m] = "expire"
  /\ ShareCallFails(m)
  /\ Report(m, "successful")
  /\ ReleaseFileLock
  /\ Goto(m, "idle")
  /\ UNCHANGED <<available, written, found, keys, placed, claims, left>>

\* External: the process is closed, and the server releases its lock.
Crash(m) ==
  /\ Crashes /\ pc[m] # "idle"
  /\ lock' = IF lock = m THEN NoMachine ELSE lock
  /\ left' = left \cup {<<m, press[m]>>}
  /\ found' = [found EXCEPT ![m] = NoMachine]
  /\ Report(m, "none")
  /\ Goto(m, "idle")
  /\ UNCHANGED <<available, written, keys, placed, claims, failed>>

Proximity(m) ==
  \/ EnterProximity(m) \/ LockNotAcquired(m)
  \/ FindAvailable(m) \/ SearchFails(m)
  \/ \E s \in Machines : ClaimMarker(m, s) \/ ClaimFails(m, s)
  \/ PlaceMarker(m) \/ WriteMarker(m) \/ PlaceFails(m)
  \/ BeginProximity(m) \/ EndProximity(m)
  \/ Wake(m) \/ ReenterProximity(m)
  \/ ExpireSkipped(m) \/ Expire(m) \/ ExpireFails(m)

Next == \E m \in Machines : Press(m) \/ Proximity(m) \/ Crash(m)

(***************************************************************************)
(* A process that can run runs.  Nothing is asked of the lock: a process   *)
(* that does not get it gives up after 200 attempts.                       *)
(***************************************************************************)
Fairness == \A m \in Machines : WF_vars(Proximity(m))

Spec == Init /\ [][Next]_vars /\ Fairness

-----------------------------------------------------------------------------
(***************************************************************************)
(* Types; whoever has the lock is in the code between its acquisition and  *)
(* its release.                                                            *)
(***************************************************************************)
Locked == {"look", "read", "place", "write", "expire"}

TypeOK ==
  /\ lock \in {NoMachine} \cup {m \in Machines : pc[m] \in Locked}
  /\ available \subseteq Machines
  /\ written \subseteq available
  /\ pc \in [Machines -> {"idle", "lock", "look", "read", "place", "write",
                          "client", "linked", "sleep", "relock", "expire"}]
  /\ found \in [Machines -> Machines \cup {NoMachine}]
  /\ presses \in 0 .. MaxPresses
  /\ press \in [Machines -> 0 .. presses]
  /\ placed \in [Machines -> 0 .. MaxPresses]
  /\ claims \subseteq Machines \X (0 .. MaxPresses) \X Machines
                        \X (0 .. MaxPresses)
  /\ left \subseteq Machines \X (0 .. MaxPresses)
  /\ failed \subseteq Machines \X (0 .. MaxPresses)
  /\ result \in [Machines -> {"none", "failed", "complete", "successful",
                              "unsuccessful"}]

(***************************************************************************)
(* There is never more than one marker to choose from: the search and the  *)
(* placing of a marker are one step under the lock, and a marker somebody  *)
(* left behind is found before another is placed, as long as no search     *)
(* fails.                                                                  *)
(***************************************************************************)
AtMostOneMarker == failed = {} => Cardinality(available) <= 1

(***************************************************************************)
(* "In the event of a collision (two clients posting an event during the   *)
(* same interval), only one client 'wins'": no two presses claim the same  *)
(* press of a machine, but for a client whose call on the share has        *)
(* failed: it may not have renamed the marker it claims.                   *)
(***************************************************************************)
OneClientWins ==
  \A a, b \in claims :
    a[1] = b[1] /\ a[2] = b[2] => a = b \/ {<<a[3], a[4]>>, <<b[3], b[4]>>} \cap failed # {}

(***************************************************************************)
(* A client pairs with a machine that is waiting for it, and not with      *)
(* itself, unless the marker was left behind by a process that was closed, *)
(* never got the lock to expire it, or could not rename it.                *)
(***************************************************************************)
LeftBehind(s) == <<s, placed[s]>> \in left \cup failed

ClientFindsWaiting ==
  [][\A m, s \in Machines :
       ClaimMarker(m, s) /\ s \in written /\ ~LeftBehind(s)
         => pc[s] \in {"sleep", "relock"}]_vars

(***************************************************************************)
(* "Proximity Successful!" is printed on a machine only when a client has  *)
(* claimed the marker of that very press, or the machine itself could not  *)
(* look: the lock or a call on the share failed in that press, which the   *)
(* code takes for success.  What fails on the others does not matter.  And *)
(* a machine that is claimed is not told that nobody came, unless the call *)
(* of the client that renames the marker failed.                           *)
(***************************************************************************)
Claimed(m) == \E c \in claims : c[1] = m /\ c[2] = press[m]

SuccessMeansClaimed ==
  \A m \in Machines :
    /\ result[m] = "successful" => <<m, press[m]>> \in left \cup failed \/ Claimed(m)
    /\ result[m] = "unsuccessful" =>
         \A c \in claims : c[1] = m /\ c[2] = press[m] => <<c[3], c[4]>> \in failed

(***************************************************************************)
(* Every press comes to an end, whatever the others do.                    *)
(***************************************************************************)
ProximityEnds == \A m \in Machines : pc[m] = "lock" ~> pc[m] = "idle"
=============================================================================
