------------------------- MODULE NfpRendezvousProofs -------------------------
(***************************************************************************)
(* Proofs about NfpRendezvous, for every set of machines, every number of  *)
(* presses, and whether or not processes are closed and locks given up.    *)
(*                                                                         *)
(* The argument: whoever is between acquiring and releasing the lock file  *)
(* holds it (LockInv); so the search that finds no marker and the placing  *)
(* of one are not interrupted, and there is one marker at most (MarkerInv);*)
(* a press places one marker at most (PressInv), so a marker that is there *)
(* has not been claimed yet (ClaimInv); and whoever waits has its marker   *)
(* there or was claimed (WaitInv).                                         *)
(***************************************************************************)
EXTENDS NfpRendezvous, FiniteSetTheorems, TLAPS

(***************************************************************************)
(* The lock is held by exactly the machine that is in the code it guards.  *)
(***************************************************************************)
LockInv == \A m \in Machines : pc[m] \in Locked <=> lock = m

(***************************************************************************)
(* Between the search and the placing of a marker the directory has none,  *)
(* as long as no search has failed.                                        *)
(***************************************************************************)
MarkerInv ==
  /\ failed = {} => \A a, b \in available : a = b
  /\ failed = {} => \A m \in Machines : pc[m] = "place" => available = {}
  /\ \A m \in Machines : pc[m] = "write" => m \in available

(***************************************************************************)
(* A press has not placed a marker before it gets to PlaceMarker, and has  *)
(* placed the last one while it waits, unless a call has failed.           *)
(***************************************************************************)
Waiting == {"sleep", "relock", "expire"}

PressInv ==
  \A m \in Machines :
    /\ placed[m] <= press[m]
    /\ pc[m] \in {"lock", "look", "place"} => placed[m] < press[m]
    /\ pc[m] = "write" => placed[m] = press[m]
    /\ pc[m] \in Waiting => placed[m] = press[m] \/ <<m, press[m]>> \in failed

(***************************************************************************)
(* The marker that is in the directory has not been claimed, but for those *)
(* that could not be renamed.                                              *)
(***************************************************************************)
Past(c, places, markers, failures) ==
  /\ c[2] <= places[c[1]]
  /\ c[1] \in markers => c[2] # places[c[1]] \/ <<c[3], c[4]>> \in failures

ClaimInv == \A c \in claims : Past(c, placed, available, failed)

(***************************************************************************)
(* A machine whose marker has its content awaits its client, or has left   *)
(* it behind; one that waits still has its marker in the directory, or was *)
(* claimed, or could not place it.                                         *)
(***************************************************************************)
Awaits(m) == pc[m] \in Waiting /\ placed[m] = press[m]

WaitInv ==
  /\ \A m \in written : Awaits(m) \/ LeftBehind(m)
  /\ \A m \in Machines : pc[m] \in Waiting =>
       m \in written \/ Claimed(m) \/ <<m, press[m]>> \in failed
  /\ \A m \in Machines : result[m] = "unsuccessful" => pc[m] = "idle" /\ m \notin available

-----------------------------------------------------------------------------
(***************************************************************************)
(* A marker with content is in the directory because the machine that      *)
(* writes it placed it under the lock it still holds.                      *)
(***************************************************************************)
LEMMA NextType ==
  MarkerInv /\ TypeOK /\ [Next]_vars => TypeOK'
<1> SUFFICES ASSUME MarkerInv, TypeOK, [Next]_vars
             PROVE  TypeOK'
  OBVIOUS
<1> USE MachinesAssumption, ChoicesAssumption
    DEF MarkerInv, TypeOK, Locked
<1>1. ASSUME NEW m \in Machines, Press(m)
      PROVE  TypeOK'
  BY <1>1 DEF Press, Goto, share, history, Report
<1>2. ASSUME NEW m \in Machines, EnterProximity(m)
      PROVE  TypeOK'
  BY <1>2 DEF EnterProximity, AcquireFileLock, Goto, keys, history
<1>3. ASSUME NEW m \in Machines, LockNotAcquired(m)
      PROVE  TypeOK'
  BY <1>3 DEF LockNotAcquired, Goto, keys, share, history
<1>4. ASSUME NEW m \in Machines, FindAvailable(m)
      PROVE  TypeOK'
  BY <1>4 DEF FindAvailable, Goto, keys, share, history
<1>5. ASSUME NEW m \in Machines, NEW s \in Machines, ClaimMarker(m, s)
      PROVE  TypeOK'
  BY <1>5 DEF ClaimMarker, ReleaseFileLock, Goto, keys
<1>6. ASSUME NEW m \in Machines, PlaceMarker(m)
      PROVE  TypeOK'
  BY <1>6 DEF PlaceMarker, Goto, keys
<1>7. ASSUME NEW m \in Machines, WriteMarker(m)
      PROVE  TypeOK'
  BY <1>7 DEF WriteMarker, ReleaseFileLock, Goto, keys, history
<1>8. ASSUME NEW m \in Machines, BeginProximity(m)
      PROVE  TypeOK'
  BY <1>8 DEF BeginProximity, Goto, keys, share, history, Report
<1>9. ASSUME NEW m \in Machines, EndProximity(m)
      PROVE  TypeOK'
  BY <1>9 DEF EndProximity, Goto, keys, share, history, Report
<1>10. ASSUME NEW m \in Machines, Wake(m)
      PROVE  TypeOK'
  BY <1>10 DEF Wake, Goto, keys, share, history
<1>11. ASSUME NEW m \in Machines, ReenterProximity(m)
      PROVE  TypeOK'
  BY <1>11 DEF ReenterProximity, AcquireFileLock, Goto, keys, history
<1>12. ASSUME NEW m \in Machines, ExpireSkipped(m)
      PROVE  TypeOK'
  BY <1>12 DEF ExpireSkipped, Goto, keys, share, Report
<1>13. ASSUME NEW m \in Machines, Expire(m)
      PROVE  TypeOK'
  BY <1>13 DEF Expire, ReleaseFileLock, Goto, keys, history, Report
<1>14. ASSUME NEW m \in Machines, Crash(m)
      PROVE  TypeOK'
  BY <1>14 DEF Crash, Goto, keys, Report
<1>15. ASSUME NEW m \in Machines, SearchFails(m)
      PROVE  TypeOK'
  BY <1>15 DEF SearchFails, ShareCallFails, Goto, keys, share
<1>16. ASSUME NEW m \in Machines, NEW s \in Machines, ClaimFails(m, s)
      PROVE  TypeOK'
  BY <1>16 DEF ClaimFails, ShareCallFails, ReleaseFileLock, Goto, keys
<1>17. ASSUME NEW m \in Machines, PlaceFails(m)
      PROVE  TypeOK'
  BY <1>17 DEF PlaceFails, ShareCallFails, ReleaseFileLock, Goto, keys
<1>18. ASSUME NEW m \in Machines, ExpireFails(m)
      PROVE  TypeOK'
  BY <1>18 DEF ExpireFails, ShareCallFails, ReleaseFileLock, Goto, keys, Report
<1>19. CASE UNCHANGED vars
  BY <1>19 DEF vars, share, keys, history
<1> QED
  BY <1>1, <1>2, <1>3, <1>4, <1>5, <1>6, <1>7, <1>8, <1>9,
     <1>10, <1>11, <1>12, <1>13, <1>14, <1>15, <1>16, <1>17, <1>18, <1>19
     DEF Next, Proximity

(***************************************************************************)
(* AcquireFileLock takes the lock only when nobody has it, and every path  *)
(* out of the guarded code, the end of the process too, gives it back.     *)
(***************************************************************************)
LEMMA NextLock ==
  TypeOK /\ LockInv /\ [Next]_vars => LockInv'
<1> SUFFICES ASSUME TypeOK, LockInv, [Next]_vars
             PROVE  LockInv'
  OBVIOUS
<1> USE MachinesAssumption, ChoicesAssumption
    DEF LockInv, TypeOK, Locked
<1>1. ASSUME NEW m \in Machines, Press(m)
      PROVE  LockInv'
  BY <1>1 DEF Press, Goto, share, history, Report
<1>2. ASSUME NEW m \in Machines, EnterProximity(m)
      PROVE  LockInv'
  BY <1>2 DEF EnterProximity, AcquireFileLock, Goto, keys, history
<1>3. ASSUME NEW m \in Machines, LockNotAcquired(m)
      PROVE  LockInv'
  BY <1>3 DEF LockNotAcquired, Goto, keys, share, history
<1>4. ASSUME NEW m \in Machines, FindAvailable(m)
      PROVE  LockInv'
  BY <1>4 DEF FindAvailable, Goto, keys, share, history
<1>5. ASSUME NEW m \in Machines, NEW s \in Machines, ClaimMarker(m, s)
      PROVE  LockInv'
  BY <1>5 DEF ClaimMarker, ReleaseFileLock, Goto, keys
<1>6. ASSUME NEW m \in Machines, PlaceMarker(m)
      PROVE  LockInv'
  BY <1>6 DEF PlaceMarker, Goto, keys
<1>7. ASSUME NEW m \in Machines, WriteMarker(m)
      PROVE  LockInv'
  BY <1>7 DEF WriteMarker, ReleaseFileLock, Goto, keys, history
<1>8. ASSUME NEW m \in Machines, BeginProximity(m)
      PROVE  LockInv'
  BY <1>8 DEF BeginProximity, Goto, keys, share, history, Report
<1>9. ASSUME NEW m \in Machines, EndProximity(m)
      PROVE  LockInv'
  BY <1>9 DEF EndProximity, Goto, keys, share, history, Report
<1>10. ASSUME NEW m \in Machines, Wake(m)
      PROVE  LockInv'
  BY <1>10 DEF Wake, Goto, keys, share, history
<1>11. ASSUME NEW m \in Machines, ReenterProximity(m)
      PROVE  LockInv'
  BY <1>11 DEF ReenterProximity, AcquireFileLock, Goto, keys, history
<1>12. ASSUME NEW m \in Machines, ExpireSkipped(m)
      PROVE  LockInv'
  BY <1>12 DEF ExpireSkipped, Goto, keys, share, Report
<1>13. ASSUME NEW m \in Machines, Expire(m)
      PROVE  LockInv'
  BY <1>13 DEF Expire, ReleaseFileLock, Goto, keys, history, Report
<1>14. ASSUME NEW m \in Machines, Crash(m)
      PROVE  LockInv'
  BY <1>14 DEF Crash, Goto, keys, Report
<1>15. ASSUME NEW m \in Machines, SearchFails(m)
      PROVE  LockInv'
  BY <1>15 DEF SearchFails, ShareCallFails, Goto, keys, share
<1>16. ASSUME NEW m \in Machines, NEW s \in Machines, ClaimFails(m, s)
      PROVE  LockInv'
  BY <1>16 DEF ClaimFails, ShareCallFails, ReleaseFileLock, Goto, keys
<1>17. ASSUME NEW m \in Machines, PlaceFails(m)
      PROVE  LockInv'
  BY <1>17 DEF PlaceFails, ShareCallFails, ReleaseFileLock, Goto, keys
<1>18. ASSUME NEW m \in Machines, ExpireFails(m)
      PROVE  LockInv'
  BY <1>18 DEF ExpireFails, ShareCallFails, ReleaseFileLock, Goto, keys, Report
<1>19. CASE UNCHANGED vars
  BY <1>19 DEF vars, share, keys, history
<1> QED
  BY <1>1, <1>2, <1>3, <1>4, <1>5, <1>6, <1>7, <1>8, <1>9,
     <1>10, <1>11, <1>12, <1>13, <1>14, <1>15, <1>16, <1>17, <1>18, <1>19
     DEF Next, Proximity

(***************************************************************************)
(* While one machine is between its search and PlaceMarker no other can    *)
(* place one: it would have to hold the lock.                              *)
(***************************************************************************)
LEMMA NextMarker ==
  TypeOK /\ LockInv /\ MarkerInv /\ [Next]_vars => MarkerInv'
<1> SUFFICES ASSUME TypeOK, LockInv, MarkerInv, [Next]_vars
             PROVE  MarkerInv'
  OBVIOUS
<1> USE MachinesAssumption, ChoicesAssumption
    DEF MarkerInv, LockInv, TypeOK, Locked
<1>1. ASSUME NEW m \in Machines, Press(m)
      PROVE  MarkerInv'
  BY <1>1 DEF Press, Goto, share, history, Report
<1>2. ASSUME NEW m \in Machines, EnterProximity(m)
      PROVE  MarkerInv'
  BY <1>2 DEF EnterProximity, AcquireFileLock, Goto, keys, history
<1>3. ASSUME NEW m \in Machines, LockNotAcquired(m)
      PROVE  MarkerInv'
  BY <1>3 DEF LockNotAcquired, Goto, keys, share, history
<1>4. ASSUME NEW m \in Machines, FindAvailable(m)
      PROVE  MarkerInv'
  BY <1>4 DEF FindAvailable, Goto, keys, share, history
<1>5. ASSUME NEW m \in Machines, NEW s \in Machines, ClaimMarker(m, s)
      PROVE  MarkerInv'
  BY <1>5 DEF ClaimMarker, ReleaseFileLock, Goto, keys
<1>6. ASSUME NEW m \in Machines, PlaceMarker(m)
      PROVE  MarkerInv'
  BY <1>6 DEF PlaceMarker, Goto, keys
<1>7. ASSUME NEW m \in Machines, WriteMarker(m)
      PROVE  MarkerInv'
  BY <1>7 DEF WriteMarker, ReleaseFileLock, Goto, keys, history
<1>8. ASSUME NEW m \in Machines, BeginProximity(m)
      PROVE  MarkerInv'
  BY <1>8 DEF BeginProximity, Goto, keys, share, history, Report
<1>9. ASSUME NEW m \in Machines, EndProximity(m)
      PROVE  MarkerInv'
  BY <1>9 DEF EndProximity, Goto, keys, share, history, Report
<1>10. ASSUME NEW m \in Machines, Wake(m)
      PROVE  MarkerInv'
  BY <1>10 DEF Wake, Goto, keys, share, history
<1>11. ASSUME NEW m \in Machines, ReenterProximity(m)
      PROVE  MarkerInv'
  BY <1>11 DEF ReenterProximity, AcquireFileLock, Goto, keys, history
<1>12. ASSUME NEW m \in Machines, ExpireSkipped(m)
      PROVE  MarkerInv'
  BY <1>12 DEF ExpireSkipped, Goto, keys, share, Report
<1>13. ASSUME NEW m \in Machines, Expire(m)
      PROVE  MarkerInv'
  BY <1>13 DEF Expire, ReleaseFileLock, Goto, keys, history, Report
<1>14. ASSUME NEW m \in Machines, Crash(m)
      PROVE  MarkerInv'
  BY <1>14 DEF Crash, Goto, keys, Report
<1>15. ASSUME NEW m \in Machines, SearchFails(m)
      PROVE  MarkerInv'
  BY <1>15 DEF SearchFails, ShareCallFails, Goto, keys, share
<1>16. ASSUME NEW m \in Machines, NEW s \in Machines, ClaimFails(m, s)
      PROVE  MarkerInv'
  BY <1>16 DEF ClaimFails, ShareCallFails, ReleaseFileLock, Goto, keys
<1>17. ASSUME NEW m \in Machines, PlaceFails(m)
      PROVE  MarkerInv'
  BY <1>17 DEF PlaceFails, ShareCallFails, ReleaseFileLock, Goto, keys
<1>18. ASSUME NEW m \in Machines, ExpireFails(m)
      PROVE  MarkerInv'
  BY <1>18 DEF ExpireFails, ShareCallFails, ReleaseFileLock, Goto, keys, Report
<1>19. CASE UNCHANGED vars
  BY <1>19 DEF vars, share, keys, history
<1> QED
  BY <1>1, <1>2, <1>3, <1>4, <1>5, <1>6, <1>7, <1>8, <1>9,
     <1>10, <1>11, <1>12, <1>13, <1>14, <1>15, <1>16, <1>17, <1>18, <1>19
     DEF Next, Proximity

(***************************************************************************)
(* Each press has a number of its own, larger than any before it.          *)
(***************************************************************************)
LEMMA NextPress ==
  TypeOK /\ PressInv /\ [Next]_vars => PressInv'
<1> SUFFICES ASSUME TypeOK, PressInv, [Next]_vars
             PROVE  PressInv'
  OBVIOUS
<1> USE MachinesAssumption, ChoicesAssumption
    DEF PressInv, TypeOK, Waiting
<1>1. ASSUME NEW m \in Machines, Press(m)
      PROVE  PressInv'
  BY <1>1 DEF Press, Goto, share, history, Report
<1>2. ASSUME NEW m \in Machines, EnterProximity(m)
      PROVE  PressInv'
  BY <1>2 DEF EnterProximity, AcquireFileLock, Goto, keys, history
<1>3. ASSUME NEW m \in Machines, LockNotAcquired(m)
      PROVE  PressInv'
  BY <1>3 DEF LockNotAcquired, Goto, keys, share, history
<1>4. ASSUME NEW m \in Machines, FindAvailable(m)
      PROVE  PressInv'
  BY <1>4 DEF FindAvailable, Goto, keys, share, history
<1>5. ASSUME NEW m \in Machines, NEW s \in Machines, ClaimMarker(m, s)
      PROVE  PressInv'
  BY <1>5 DEF ClaimMarker, ReleaseFileLock, Goto, keys
<1>6. ASSUME NEW m \in Machines, PlaceMarker(m)
      PROVE  PressInv'
  BY <1>6 DEF PlaceMarker, Goto, keys
<1>7. ASSUME NEW m \in Machines, WriteMarker(m)
      PROVE  PressInv'
  BY <1>7 DEF WriteMarker, ReleaseFileLock, Goto, keys, history
<1>8. ASSUME NEW m \in Machines, BeginProximity(m)
      PROVE  PressInv'
  BY <1>8 DEF BeginProximity, Goto, keys, share, history, Report
<1>9. ASSUME NEW m \in Machines, EndProximity(m)
      PROVE  PressInv'
  BY <1>9 DEF EndProximity, Goto, keys, share, history, Report
<1>10. ASSUME NEW m \in Machines, Wake(m)
      PROVE  PressInv'
  BY <1>10 DEF Wake, Goto, keys, share, history
<1>11. ASSUME NEW m \in Machines, ReenterProximity(m)
      PROVE  PressInv'
  BY <1>11 DEF ReenterProximity, AcquireFileLock, Goto, keys, history
<1>12. ASSUME NEW m \in Machines, ExpireSkipped(m)
      PROVE  PressInv'
  BY <1>12 DEF ExpireSkipped, Goto, keys, share, Report
<1>13. ASSUME NEW m \in Machines, Expire(m)
      PROVE  PressInv'
  BY <1>13 DEF Expire, ReleaseFileLock, Goto, keys, history, Report
<1>14. ASSUME NEW m \in Machines, Crash(m)
      PROVE  PressInv'
  BY <1>14 DEF Crash, Goto, keys, Report
<1>15. ASSUME NEW m \in Machines, SearchFails(m)
      PROVE  PressInv'
  BY <1>15 DEF SearchFails, ShareCallFails, Goto, keys, share
<1>16. ASSUME NEW m \in Machines, NEW s \in Machines, ClaimFails(m, s)
      PROVE  PressInv'
  BY <1>16 DEF ClaimFails, ShareCallFails, ReleaseFileLock, Goto, keys
<1>17. ASSUME NEW m \in Machines, PlaceFails(m)
      PROVE  PressInv'
  BY <1>17 DEF PlaceFails, ShareCallFails, ReleaseFileLock, Goto, keys
<1>18. ASSUME NEW m \in Machines, ExpireFails(m)
      PROVE  PressInv'
  BY <1>18 DEF ExpireFails, ShareCallFails, ReleaseFileLock, Goto, keys, Report
<1>19. CASE UNCHANGED vars
  BY <1>19 DEF vars, share, keys, history
<1> QED
  BY <1>1, <1>2, <1>3, <1>4, <1>5, <1>6, <1>7, <1>8, <1>9,
     <1>10, <1>11, <1>12, <1>13, <1>14, <1>15, <1>16, <1>17, <1>18, <1>19
     DEF Next, Proximity

(***************************************************************************)
(* A claim stays past as markers go, failures are added and its machine    *)
(* places another; a new one is past when the marker is gone, or when the  *)
(* client could not rename it.                                             *)
(***************************************************************************)
LEMMA PastKept ==
  ASSUME NEW c, NEW places, NEW markers, NEW markers2, NEW failures, NEW failures2,
         Past(c, places, markers, failures),
         markers2 \subseteq markers, failures \subseteq failures2
  PROVE  Past(c, places, markers2, failures2)
  BY DEF Past

LEMMA PastNew ==
  ASSUME NEW s, NEW m, NEW q, NEW places, NEW markers, NEW failures,
         places[s] \in Nat, s \notin markers \/ <<m, q>> \in failures
  PROVE  Past(<<s, places[s], m, q>>, places, markers, failures)
  BY DEF Past

LEMMA PastPlaced ==
  ASSUME NEW M, NEW m \in M, NEW q \in Nat, NEW places \in [M -> Nat],
         NEW c \in M \X Nat \X M \X Nat, NEW markers, NEW failures,
         Past(c, places, markers, failures), places[m] < q
  PROVE  Past(c, [places EXCEPT ![m] = q], markers \cup {m}, failures)
<1>1. c[1] \in M /\ c[2] \in Nat /\ c[2] <= places[c[1]] /\ places[c[1]] \in Nat
  BY DEF Past
<1>2. CASE c[1] = m
  <2>1. [places EXCEPT ![m] = q][c[1]] = q
    BY <1>1, <1>2
  <2>2. c[2] <= q /\ c[2] # q
    BY <1>1, <1>2
  <2> QED BY <2>1, <2>2 DEF Past
<1>3. CASE c[1] # m
  <2>1. [places EXCEPT ![m] = q][c[1]] = places[c[1]]
    BY <1>1, <1>3
  <2> QED BY <2>1, <1>3 DEF Past
<1> QED BY <1>2, <1>3

(***************************************************************************)
(* ClaimMarker takes the marker out of the directory as it claims it, and  *)
(* PlaceMarker brings it back only under a new number.                     *)
(***************************************************************************)
LEMMA NextClaim ==
  TypeOK /\ PressInv /\ ClaimInv /\ [Next]_vars => ClaimInv'
<1> SUFFICES ASSUME TypeOK, PressInv, ClaimInv, [Next]_vars
             PROVE  ClaimInv'
  OBVIOUS
<1> USE MachinesAssumption, ChoicesAssumption
    DEF ClaimInv, PressInv, TypeOK, Waiting
<1>1. ASSUME NEW m \in Machines, Press(m)
      PROVE  ClaimInv'
  BY <1>1 DEF Press, Goto, share, history, Report
<1>2. ASSUME NEW m \in Machines, EnterProximity(m)
      PROVE  ClaimInv'
  BY <1>2 DEF EnterProximity, AcquireFileLock, Goto, keys, history
<1>3. ASSUME NEW m \in Machines, LockNotAcquired(m)
      PROVE  ClaimInv'
  BY <1>3 DEF LockNotAcquired, Goto, keys, share, history
<1>4. ASSUME NEW m \in Machines, FindAvailable(m)
      PROVE  ClaimInv'
  BY <1>4 DEF FindAvailable, Goto, keys, share, history
<1>5. ASSUME NEW m \in Machines, NEW s \in Machines, ClaimMarker(m, s)
      PROVE  ClaimInv'
  <2>1. /\ available' \subseteq available /\ placed' = placed /\ failed' = failed
        /\ placed[s] \in Nat
    BY <1>5 DEF ClaimMarker
  <2>2. claims' = claims \/ (s \notin available' /\ claims' = claims \cup {<<s, placed[s], m, press[m]>>})
    BY <1>5 DEF ClaimMarker
  <2>3. \A c \in claims : Past(c, placed, available, failed)
    OBVIOUS
  <2> HIDE MachinesAssumption, ChoicesAssumption DEF PressInv, TypeOK, Waiting
  <2>4. \A c \in claims : Past(c, placed, available', failed)
    BY <2>1, <2>3, PastKept
  <2>5. s \notin available' => Past(<<s, placed[s], m, press[m]>>, placed, available', failed)
    BY <2>1, PastNew
  <2> QED BY <2>1, <2>2, <2>4, <2>5
<1>6. ASSUME NEW m \in Machines, PlaceMarker(m)
      PROVE  ClaimInv'
  <2>1. /\ claims' = claims /\ failed' = failed /\ available' = available \cup {m}
        /\ placed' = [placed EXCEPT ![m] = press[m]]
    BY <1>6 DEF PlaceMarker
  <2>2. placed \in [Machines -> Nat]
    OBVIOUS
  <2>5. press[m] \in Nat /\ placed[m] < press[m]
    <3>1. press[m] \in 0 .. presses /\ \A i \in 0 .. presses : i \in Nat
      OBVIOUS
    <3>2. placed[m] < press[m]
      BY <1>6 DEF PlaceMarker
    <3> QED BY <3>1, <3>2
  <2>3. claims \subseteq Machines \X Nat \X Machines \X Nat
    OBVIOUS
  <2>4. \A c \in claims : Past(c, placed, available, failed)
    OBVIOUS
  <2> HIDE MachinesAssumption, ChoicesAssumption DEF PressInv, TypeOK, Waiting
  <2> QED BY <2>1, <2>2, <2>3, <2>4, <2>5, PastPlaced
<1>7. ASSUME NEW m \in Machines, WriteMarker(m)
      PROVE  ClaimInv'
  BY <1>7 DEF WriteMarker, ReleaseFileLock, Goto, keys, history
<1>8. ASSUME NEW m \in Machines, BeginProximity(m)
      PROVE  ClaimInv'
  BY <1>8 DEF BeginProximity, Goto, keys, share, history, Report
<1>9. ASSUME NEW m \in Machines, EndProximity(m)
      PROVE  ClaimInv'
  BY <1>9 DEF EndProximity, Goto, keys, share, history, Report
<1>10. ASSUME NEW m \in Machines, Wake(m)
      PROVE  ClaimInv'
  BY <1>10 DEF Wake, Goto, keys, share, history
<1>11. ASSUME NEW m \in Machines, ReenterProximity(m)
      PROVE  ClaimInv'
  BY <1>11 DEF ReenterProximity, AcquireFileLock, Goto, keys, history
<1>12. ASSUME NEW m \in Machines, ExpireSkipped(m)
      PROVE  ClaimInv'
  BY <1>12 DEF ExpireSkipped, Goto, keys, share, Report
<1>13. ASSUME NEW m \in Machines, Expire(m)
      PROVE  ClaimInv'
  <2>1. /\ available' \subseteq available /\ placed' = placed /\ failed' = failed
        /\ claims' = claims
    BY <1>13 DEF Expire, history
  <2> QED BY <2>1, PastKept
<1>14. ASSUME NEW m \in Machines, Crash(m)
      PROVE  ClaimInv'
  BY <1>14 DEF Crash, Goto, keys, Report
<1>15. ASSUME NEW m \in Machines, SearchFails(m)
      PROVE  ClaimInv'
  <2>1. /\ available' = available /\ placed' = placed /\ failed \subseteq failed'
        /\ claims' = claims
    BY <1>15 DEF SearchFails, ShareCallFails, keys, share
  <2> QED BY <2>1, PastKept
<1>16. ASSUME NEW m \in Machines, NEW s \in Machines, ClaimFails(m, s)
      PROVE  ClaimInv'
  <2>1. /\ available' = available /\ placed' = placed /\ failed \subseteq failed'
        /\ placed[s] \in Nat /\ <<m, press[m]>> \in failed'
    BY <1>16 DEF ClaimFails, ShareCallFails, keys
  <2>2. claims' \subseteq claims \cup {<<s, placed[s], m, press[m]>>}
    BY <1>16 DEF ClaimFails
  <2>3. \A c \in claims : Past(c, placed, available, failed)
    OBVIOUS
  <2> HIDE MachinesAssumption, ChoicesAssumption DEF PressInv, TypeOK, Waiting
  <2>4. \A c \in claims : Past(c, placed, available, failed')
    BY <2>1, <2>3, PastKept
  <2>5. Past(<<s, placed[s], m, press[m]>>, placed, available, failed')
    BY <2>1, PastNew
  <2> QED BY <2>1, <2>2, <2>4, <2>5
<1>17. ASSUME NEW m \in Machines, PlaceFails(m)
      PROVE  ClaimInv'
  <2>1. /\ available' = available /\ placed' = placed /\ failed \subseteq failed'
        /\ claims' = claims
    BY <1>17 DEF PlaceFails, ShareCallFails, keys, share
  <2> QED BY <2>1, PastKept
<1>18. ASSUME NEW m \in Machines, ExpireFails(m)
      PROVE  ClaimInv'
  <2>1. /\ available' = available /\ placed' = placed /\ failed \subseteq failed'
        /\ claims' = claims
    BY <1>18 DEF ExpireFails, ShareCallFails, keys, share
  <2> QED BY <2>1, PastKept
<1>19. CASE UNCHANGED vars
  BY <1>19 DEF vars, share, keys, history
<1> QED
  BY <1>1, <1>2, <1>3, <1>4, <1>5, <1>6, <1>7, <1>8, <1>9,
     <1>10, <1>11, <1>12, <1>13, <1>14, <1>15, <1>16, <1>17, <1>18, <1>19
     DEF Next, Proximity

(***************************************************************************)
(* A machine that leaves with its marker in the directory has left it      *)
(* behind.                                                                 *)
(***************************************************************************)
LEMMA LeavesBehind ==
  ASSUME NEW m \in Machines, NEW x \in Machines,
         \A y \in Machines : y # m => pc'[y] = pc[y],
         placed' = placed, left \subseteq left', failed \subseteq failed',
         <<m, press[m]>> \in left' \cup failed',
         press' = press, Awaits(x) \/ LeftBehind(x)
  PROVE  Awaits(x)' \/ LeftBehind(x)'
<1>1. LeftBehind(x) => LeftBehind(x)'
  BY DEF LeftBehind
<1>2. CASE x = m
  BY <1>1, <1>2 DEF LeftBehind, Awaits
<1>3. CASE x # m
  BY <1>1, <1>3 DEF Awaits
<1> QED BY <1>2, <1>3

(***************************************************************************)
(* A marker leaves the directory when it is claimed or when the machine    *)
(* that waits expires it.                                                  *)
(***************************************************************************)
LEMMA NextWait ==
  TypeOK /\ MarkerInv /\ PressInv /\ WaitInv /\ [Next]_vars => WaitInv'
<1> SUFFICES ASSUME TypeOK, MarkerInv, PressInv, WaitInv, [Next]_vars
             PROVE  WaitInv'
  OBVIOUS
<1> USE MachinesAssumption, ChoicesAssumption
    DEF WaitInv, MarkerInv, PressInv, TypeOK, Waiting, Claimed, LeftBehind, Awaits
<1>1. ASSUME NEW m \in Machines, Press(m)
      PROVE  WaitInv'
  BY <1>1 DEF Press, Goto, share, history, Report
<1>2. ASSUME NEW m \in Machines, EnterProximity(m)
      PROVE  WaitInv'
  BY <1>2 DEF EnterProximity, AcquireFileLock, Goto, keys, history
<1>3. ASSUME NEW m \in Machines, LockNotAcquired(m)
      PROVE  WaitInv'
  BY <1>3 DEF LockNotAcquired, Goto, keys, share, history
<1>4. ASSUME NEW m \in Machines, FindAvailable(m)
      PROVE  WaitInv'
  BY <1>4 DEF FindAvailable, Goto, keys, share, history
<1>5. ASSUME NEW m \in Machines, NEW s \in Machines, ClaimMarker(m, s)
      PROVE  WaitInv'
  <2> USE <1>5 DEF ClaimMarker, ReleaseFileLock, Goto, keys
  <2>1. ASSUME NEW x \in written'
        PROVE  (Awaits(x) \/ LeftBehind(x))'
    OBVIOUS
  <2>2. ASSUME NEW x \in Machines, pc'[x] \in Waiting
        PROVE  (x \in written \/ Claimed(x) \/ <<x, press[x]>> \in failed)'
    <3>1. pc[x] \in Waiting /\ press' = press /\ failed' = failed /\ claims \subseteq claims'
      BY <2>2
    <3>2. CASE x = s /\ s \in written
      <4>1. PICK d : d = <<s, placed[s], m, press[m]>>
        OBVIOUS
      <4>2. d \in claims' /\ d[1] = s /\ d[2] = placed[s]
        BY <3>2, <4>1
      <4>3. placed[x] = press[x] \/ <<x, press[x]>> \in failed
        BY <3>1
      <4> QED BY <4>2, <4>3, <3>1, <3>2
    <3>3. CASE ~(x = s /\ s \in written)
      <4>1. x \in written' <=> x \in written
        BY <3>3
      <4>2. x \in written \/ Claimed(x) \/ <<x, press[x]>> \in failed
        BY <3>1
      <4> QED BY <3>1, <4>1, <4>2
    <3> QED BY <3>2, <3>3
  <2>3. ASSUME NEW x \in Machines, result'[x] = "unsuccessful"
        PROVE  pc'[x] = "idle" /\ x \notin available'
    BY <2>3
  <2> QED BY <2>1, <2>2, <2>3
<1>6. ASSUME NEW m \in Machines, PlaceMarker(m)
      PROVE  WaitInv'
  BY <1>6 DEF PlaceMarker, Goto, keys
<1>7. ASSUME NEW m \in Machines, WriteMarker(m)
      PROVE  WaitInv'
  <2> USE <1>7 DEF WriteMarker, ReleaseFileLock, Goto, keys, history
  <2>1. \A x \in written' : (Awaits(x) \/ LeftBehind(x))'
    <3>1. placed[m] = press[m] /\ pc'[m] = "sleep" /\ press' = press /\ placed' = placed
      OBVIOUS
    <3>2. \A x \in written' : x # m => x \in written /\ pc'[x] = pc[x]
      OBVIOUS
    <3> QED BY <3>1, <3>2
  <2>2. \A x \in Machines : pc'[x] \in Waiting =>
          (x \in written \/ Claimed(x) \/ <<x, press[x]>> \in failed)'
    OBVIOUS
  <2>3. \A x \in Machines : result'[x] = "unsuccessful" => pc'[x] = "idle" /\ x \notin available'
    OBVIOUS
  <2> QED BY <2>1, <2>2, <2>3
<1>8. ASSUME NEW m \in Machines, BeginProximity(m)
      PROVE  WaitInv'
  BY <1>8 DEF BeginProximity, Goto, keys, share, history, Report
<1>9. ASSUME NEW m \in Machines, EndProximity(m)
      PROVE  WaitInv'
  BY <1>9 DEF EndProximity, Goto, keys, share, history, Report
<1>10. ASSUME NEW m \in Machines, Wake(m)
      PROVE  WaitInv'
  BY <1>10 DEF Wake, Goto, keys, share, history
<1>11. ASSUME NEW m \in Machines, ReenterProximity(m)
      PROVE  WaitInv'
  BY <1>11 DEF ReenterProximity, AcquireFileLock, Goto, keys, history
<1>12. ASSUME NEW m \in Machines, ExpireSkipped(m)
      PROVE  WaitInv'
  <2> USE <1>12 DEF ExpireSkipped, Goto, keys, share, Report
  <2>1. \A x \in written : (Awaits(x) \/ LeftBehind(x))'
    <3>1. /\ left \subseteq left' /\ failed \subseteq failed' /\ placed' = placed
          /\ <<m, press[m]>> \in left' \cup failed'
      OBVIOUS
    <3>2. \A y \in Machines : y # m => pc'[y] = pc[y]
      OBVIOUS
    <3>3. press' = press
      OBVIOUS
    <3>4. \A x \in written : x \in Machines /\ (Awaits(x) \/ LeftBehind(x))
      OBVIOUS
    <3> HIDE <1>12 DEF WaitInv, MarkerInv, PressInv, TypeOK, Waiting, Claimed, LeftBehind, Awaits
    <3> QED BY <3>1, <3>2, <3>3, <3>4, LeavesBehind
  <2>2. \A x \in Machines : pc'[x] \in Waiting => (x \in written \/ Claimed(x) \/ <<x, press[x]>> \in failed)'
    OBVIOUS
  <2>3. \A x \in Machines : result'[x] = "unsuccessful" => pc'[x] = "idle" /\ x \notin available'
    OBVIOUS
  <2> QED BY <2>1, <2>2, <2>3
<1>13. ASSUME NEW m \in Machines, Expire(m)
      PROVE  WaitInv'
  BY <1>13 DEF Expire, ReleaseFileLock, Goto, keys, history, Report
<1>14. ASSUME NEW m \in Machines, Crash(m)
      PROVE  WaitInv'
  <2> USE <1>14 DEF Crash, Goto, keys, Report
  <2>1. \A x \in written : (Awaits(x) \/ LeftBehind(x))'
    <3>1. /\ left \subseteq left' /\ failed \subseteq failed' /\ placed' = placed
          /\ <<m, press[m]>> \in left' \cup failed'
      OBVIOUS
    <3>2. \A y \in Machines : y # m => pc'[y] = pc[y]
      OBVIOUS
    <3>3. press' = press
      OBVIOUS
    <3>4. \A x \in written : x \in Machines /\ (Awaits(x) \/ LeftBehind(x))
      OBVIOUS
    <3> HIDE <1>14 DEF WaitInv, MarkerInv, PressInv, TypeOK, Waiting, Claimed, LeftBehind, Awaits
    <3> QED BY <3>1, <3>2, <3>3, <3>4, LeavesBehind
  <2>2. \A x \in Machines : pc'[x] \in Waiting => (x \in written \/ Claimed(x) \/ <<x, press[x]>> \in failed)'
    OBVIOUS
  <2>3. \A x \in Machines : result'[x] = "unsuccessful" => pc'[x] = "idle" /\ x \notin available'
    OBVIOUS
  <2> QED BY <2>1, <2>2, <2>3
<1>15. ASSUME NEW m \in Machines, SearchFails(m)
      PROVE  WaitInv'
  BY <1>15 DEF SearchFails, ShareCallFails, Goto, keys, share
<1>16. ASSUME NEW m \in Machines, NEW s \in Machines, ClaimFails(m, s)
      PROVE  WaitInv'
  BY <1>16 DEF ClaimFails, ShareCallFails, ReleaseFileLock, Goto, keys
<1>17. ASSUME NEW m \in Machines, PlaceFails(m)
      PROVE  WaitInv'
  BY <1>17 DEF PlaceFails, ShareCallFails, ReleaseFileLock, Goto, keys
<1>18. ASSUME NEW m \in Machines, ExpireFails(m)
      PROVE  WaitInv'
  <2> USE <1>18 DEF ExpireFails, ShareCallFails, ReleaseFileLock, Goto, keys, Report
  <2>1. \A x \in written : (Awaits(x) \/ LeftBehind(x))'
    <3>1. /\ left \subseteq left' /\ failed \subseteq failed' /\ placed' = placed
          /\ <<m, press[m]>> \in left' \cup failed'
      OBVIOUS
    <3>2. \A y \in Machines : y # m => pc'[y] = pc[y]
      OBVIOUS
    <3>3. press' = press
      OBVIOUS
    <3>4. \A x \in written : x \in Machines /\ (Awaits(x) \/ LeftBehind(x))
      OBVIOUS
    <3> HIDE <1>18 DEF WaitInv, MarkerInv, PressInv, TypeOK, Waiting, Claimed, LeftBehind, Awaits
    <3> QED BY <3>1, <3>2, <3>3, <3>4, LeavesBehind
  <2>2. \A x \in Machines : pc'[x] \in Waiting => (x \in written \/ Claimed(x) \/ <<x, press[x]>> \in failed)'
    OBVIOUS
  <2>3. \A x \in Machines : result'[x] = "unsuccessful" => pc'[x] = "idle" /\ x \notin available'
    OBVIOUS
  <2> QED BY <2>1, <2>2, <2>3
<1>19. CASE UNCHANGED vars
  BY <1>19 DEF vars, share, keys, history
<1> QED
  BY <1>1, <1>2, <1>3, <1>4, <1>5, <1>6, <1>7, <1>8, <1>9,
     <1>10, <1>11, <1>12, <1>13, <1>14, <1>15, <1>16, <1>17, <1>18, <1>19
     DEF Next, Proximity

(***************************************************************************)
(* Two claims of one press of a machine, of which one is by a client whose *)
(* call failed.                                                            *)
(***************************************************************************)
Apart(a, b, failures) ==
  a[1] = b[1] /\ a[2] = b[2] => a = b \/ {<<a[3], a[4]>>, <<b[3], b[4]>>} \cap failures # {}

LEMMA ApartKept ==
  ASSUME NEW a, NEW b, NEW failures, NEW failures2,
         Apart(a, b, failures), failures \subseteq failures2
  PROVE  Apart(a, b, failures2)
  BY DEF Apart

LEMMA ApartFailed ==
  ASSUME NEW a, NEW b, NEW failures,
         <<a[3], a[4]>> \in failures \/ <<b[3], b[4]>> \in failures
  PROVE  Apart(a, b, failures)
  BY DEF Apart

\* The marker of d is in the directory, and c is past.
LEMMA ApartPast ==
  ASSUME NEW c, NEW d, NEW places, NEW markers, NEW failures,
         Past(c, places, markers, failures), d[1] \in markers, d[2] = places[d[1]]
  PROVE  Apart(c, d, failures) /\ Apart(d, c, failures)
  BY DEF Past, Apart

(***************************************************************************)
(* The marker a client claims has not been claimed before.                 *)
(***************************************************************************)
LEMMA NextOneClient ==
  TypeOK /\ ClaimInv /\ OneClientWins /\ [Next]_vars => OneClientWins'
<1> SUFFICES ASSUME TypeOK, ClaimInv, OneClientWins, [Next]_vars
             PROVE  OneClientWins'
  OBVIOUS
<1> USE MachinesAssumption, ChoicesAssumption
    DEF OneClientWins, ClaimInv, TypeOK
<1>1. ASSUME NEW m \in Machines, Press(m)
      PROVE  OneClientWins'
  BY <1>1 DEF Press, Goto, share, history, Report
<1>2. ASSUME NEW m \in Machines, EnterProximity(m)
      PROVE  OneClientWins'
  BY <1>2 DEF EnterProximity, AcquireFileLock, Goto, keys, history
<1>3. ASSUME NEW m \in Machines, LockNotAcquired(m)
      PROVE  OneClientWins'
  BY <1>3 DEF LockNotAcquired, Goto, keys, share, history
<1>4. ASSUME NEW m \in Machines, FindAvailable(m)
      PROVE  OneClientWins'
  BY <1>4 DEF FindAvailable, Goto, keys, share, history
<1>5. ASSUME NEW m \in Machines, NEW s \in Machines, ClaimMarker(m, s)
      PROVE  OneClientWins'
  <2>1. failed' = failed /\ (s \in written => s \in available)
    BY <1>5 DEF ClaimMarker
  <2>2. claims' = claims
        \/ (s \in written /\ claims' = claims \cup {<<s, placed[s], m, press[m]>>})
    BY <1>5 DEF ClaimMarker
  <2>3. \A a, b \in claims : Apart(a, b, failed)
    BY DEF Apart
  <2> HIDE MachinesAssumption, ChoicesAssumption DEF OneClientWins, TypeOK
  <2>4. SUFFICES \A a, b \in claims' : Apart(a, b, failed)
    BY <2>1 DEF OneClientWins, Apart
  <2>5. CASE claims' = claims
    BY <2>3, <2>5
  <2>6. CASE s \in written /\ claims' = claims \cup {<<s, placed[s], m, press[m]>>}
    <3>1. PICK d : d = <<s, placed[s], m, press[m]>>
      OBVIOUS
    <3>2. d[1] \in available /\ d[2] = placed[d[1]] /\ claims' = claims \cup {d}
      BY <2>1, <2>6, <3>1
    <3>3. \A c \in claims : Apart(c, d, failed) /\ Apart(d, c, failed)
      BY <3>2, ApartPast
    <3>4. Apart(d, d, failed)
      BY DEF Apart
    <3> QED BY <2>3, <3>2, <3>3, <3>4
  <2> QED BY <2>2, <2>5, <2>6
<1>6. ASSUME NEW m \in Machines, PlaceMarker(m)
      PROVE  OneClientWins'
  BY <1>6 DEF PlaceMarker, Goto, keys
<1>7. ASSUME NEW m \in Machines, WriteMarker(m)
      PROVE  OneClientWins'
  BY <1>7 DEF WriteMarker, ReleaseFileLock, Goto, keys, history
<1>8. ASSUME NEW m \in Machines, BeginProximity(m)
      PROVE  OneClientWins'
  BY <1>8 DEF BeginProximity, Goto, keys, share, history, Report
<1>9. ASSUME NEW m \in Machines, EndProximity(m)
      PROVE  OneClientWins'
  BY <1>9 DEF EndProximity, Goto, keys, share, history, Report
<1>10. ASSUME NEW m \in Machines, Wake(m)
      PROVE  OneClientWins'
  BY <1>10 DEF Wake, Goto, keys, share, history
<1>11. ASSUME NEW m \in Machines, ReenterProximity(m)
      PROVE  OneClientWins'
  BY <1>11 DEF ReenterProximity, AcquireFileLock, Goto, keys, history
<1>12. ASSUME NEW m \in Machines, ExpireSkipped(m)
      PROVE  OneClientWins'
  BY <1>12 DEF ExpireSkipped, Goto, keys, share, Report
<1>13. ASSUME NEW m \in Machines, Expire(m)
      PROVE  OneClientWins'
  BY <1>13 DEF Expire, ReleaseFileLock, Goto, keys, history, Report
<1>14. ASSUME NEW m \in Machines, Crash(m)
      PROVE  OneClientWins'
  BY <1>14 DEF Crash, Goto, keys, Report
<1>15. ASSUME NEW m \in Machines, SearchFails(m)
      PROVE  OneClientWins'
  BY <1>15 DEF SearchFails, ShareCallFails, Goto, keys, share
<1>16. ASSUME NEW m \in Machines, NEW s \in Machines, ClaimFails(m, s)
      PROVE  OneClientWins'
  <2>1. failed \subseteq failed' /\ <<m, press[m]>> \in failed'
    BY <1>16 DEF ClaimFails, ShareCallFails
  <2>2. claims' \subseteq claims \cup {<<s, placed[s], m, press[m]>>}
    BY <1>16 DEF ClaimFails
  <2>3. \A a, b \in claims : Apart(a, b, failed)
    BY DEF Apart
  <2> HIDE MachinesAssumption, ChoicesAssumption DEF OneClientWins, TypeOK
  <2>4. SUFFICES \A a, b \in claims' : Apart(a, b, failed')
    BY DEF OneClientWins, Apart
  <2>5. PICK d : d = <<s, placed[s], m, press[m]>>
    OBVIOUS
  <2>6. claims' \subseteq claims \cup {d} /\ <<d[3], d[4]>> \in failed'
    BY <2>1, <2>2, <2>5
  <2>7. \A a, b \in claims : Apart(a, b, failed')
    BY <2>1, <2>3, ApartKept
  <2>8. \A a : Apart(a, d, failed') /\ Apart(d, a, failed')
    BY <2>6, ApartFailed
  <2> QED BY <2>6, <2>7, <2>8
<1>17. ASSUME NEW m \in Machines, PlaceFails(m)
      PROVE  OneClientWins'
  BY <1>17 DEF PlaceFails, ShareCallFails, ReleaseFileLock, Goto, keys
<1>18. ASSUME NEW m \in Machines, ExpireFails(m)
      PROVE  OneClientWins'
  BY <1>18 DEF ExpireFails, ShareCallFails, ReleaseFileLock, Goto, keys, Report
<1>19. CASE UNCHANGED vars
  BY <1>19 DEF vars, share, keys, history
<1> QED
  BY <1>1, <1>2, <1>3, <1>4, <1>5, <1>6, <1>7, <1>8, <1>9,
     <1>10, <1>11, <1>12, <1>13, <1>14, <1>15, <1>16, <1>17, <1>18, <1>19
     DEF Next, Proximity

(***************************************************************************)
(* MoveFile fails in Expire only when the marker has been claimed.         *)
(***************************************************************************)
LEMMA NextSuccess ==
  TypeOK /\ PressInv /\ ClaimInv /\ WaitInv /\ SuccessMeansClaimed /\ [Next]_vars => SuccessMeansClaimed'
<1> SUFFICES ASSUME TypeOK, PressInv, ClaimInv, WaitInv, SuccessMeansClaimed, [Next]_vars
             PROVE  SuccessMeansClaimed'
  OBVIOUS
<1> USE MachinesAssumption, ChoicesAssumption
    DEF SuccessMeansClaimed, PressInv, WaitInv, TypeOK, Waiting, Claimed
<1>1. ASSUME NEW m \in Machines, Press(m)
      PROVE  SuccessMeansClaimed'
  BY <1>1 DEF Press, Goto, share, history, Report
<1>2. ASSUME NEW m \in Machines, EnterProximity(m)
      PROVE  SuccessMeansClaimed'
  BY <1>2 DEF EnterProximity, AcquireFileLock, Goto, keys, history
<1>3. ASSUME NEW m \in Machines, LockNotAcquired(m)
      PROVE  SuccessMeansClaimed'
  BY <1>3 DEF LockNotAcquired, Goto, keys, share, history
<1>4. ASSUME NEW m \in Machines, FindAvailable(m)
      PROVE  SuccessMeansClaimed'
  BY <1>4 DEF FindAvailable, Goto, keys, share, history
<1>5. ASSUME NEW m \in Machines, NEW s \in Machines, ClaimMarker(m, s)
      PROVE  SuccessMeansClaimed'
  BY <1>5 DEF ClaimMarker, ReleaseFileLock, Goto, keys
<1>6. ASSUME NEW m \in Machines, PlaceMarker(m)
      PROVE  SuccessMeansClaimed'
  BY <1>6 DEF PlaceMarker, Goto, keys
<1>7. ASSUME NEW m \in Machines, WriteMarker(m)
      PROVE  SuccessMeansClaimed'
  BY <1>7 DEF WriteMarker, ReleaseFileLock, Goto, keys, history
<1>8. ASSUME NEW m \in Machines, BeginProximity(m)
      PROVE  SuccessMeansClaimed'
  BY <1>8 DEF BeginProximity, Goto, keys, share, history, Report
<1>9. ASSUME NEW m \in Machines, EndProximity(m)
      PROVE  SuccessMeansClaimed'
  BY <1>9 DEF EndProximity, Goto, keys, share, history, Report
<1>10. ASSUME NEW m \in Machines, Wake(m)
      PROVE  SuccessMeansClaimed'
  BY <1>10 DEF Wake, Goto, keys, share, history
<1>11. ASSUME NEW m \in Machines, ReenterProximity(m)
      PROVE  SuccessMeansClaimed'
  BY <1>11 DEF ReenterProximity, AcquireFileLock, Goto, keys, history
<1>12. ASSUME NEW m \in Machines, ExpireSkipped(m)
      PROVE  SuccessMeansClaimed'
  BY <1>12 DEF ExpireSkipped, Goto, keys, share, Report
<1>13. ASSUME NEW m \in Machines, Expire(m)
      PROVE  SuccessMeansClaimed'
  <2> USE <1>13 DEF Expire, ReleaseFileLock, Goto, keys, history, Report
  <2>1. claims' = claims /\ failed' = failed /\ left' = left /\ press' = press
    OBVIOUS
  <2>2. CASE m \in available
    <3>1. \A x \in Machines : result'[x] = IF x = m THEN "unsuccessful" ELSE result[x]
      BY <2>2
    <3>2. \A c \in claims : c[1] = m /\ c[2] = press[m] => <<c[3], c[4]>> \in failed
      <4>1. /\ \A i \in 0 .. MaxPresses, j \in 0 .. presses : i \in Nat /\ j \in Nat
            /\ placed[m] \in 0 .. MaxPresses /\ press[m] \in 0 .. presses
        OBVIOUS
      <4>2. \A c \in claims : c[2] \in Nat /\ Past(c, placed, available, failed)
        BY DEF ClaimInv
      <4>3. placed[m] <= press[m]
        OBVIOUS
      <4> HIDE <1>13 DEF WaitInv, PressInv, SuccessMeansClaimed, TypeOK, Claimed, Expire
      <4> QED BY <2>2, <4>1, <4>2, <4>3 DEF Past
    <3> QED BY <2>1, <3>1, <3>2
  <2>3. CASE m \notin available
    <3>1. \A x \in Machines : result'[x] = IF x = m THEN "successful" ELSE result[x]
      BY <2>3
    <3>2. Claimed(m) \/ <<m, press[m]>> \in failed
      BY <2>3
    <3> QED BY <2>1, <3>1, <3>2
  <2> QED BY <2>2, <2>3
<1>14. ASSUME NEW m \in Machines, Crash(m)
      PROVE  SuccessMeansClaimed'
  BY <1>14 DEF Crash, Goto, keys, Report
<1>15. ASSUME NEW m \in Machines, SearchFails(m)
      PROVE  SuccessMeansClaimed'
  BY <1>15 DEF SearchFails, ShareCallFails, Goto, keys, share
<1>16. ASSUME NEW m \in Machines, NEW s \in Machines, ClaimFails(m, s)
      PROVE  SuccessMeansClaimed'
  BY <1>16 DEF ClaimFails, ShareCallFails, ReleaseFileLock, Goto, keys
<1>17. ASSUME NEW m \in Machines, PlaceFails(m)
      PROVE  SuccessMeansClaimed'
  BY <1>17 DEF PlaceFails, ShareCallFails, ReleaseFileLock, Goto, keys
<1>18. ASSUME NEW m \in Machines, ExpireFails(m)
      PROVE  SuccessMeansClaimed'
  BY <1>18 DEF ExpireFails, ShareCallFails, ReleaseFileLock, Goto, keys, Report
<1>19. CASE UNCHANGED vars
  BY <1>19 DEF vars, share, keys, history
<1> QED
  BY <1>1, <1>2, <1>3, <1>4, <1>5, <1>6, <1>7, <1>8, <1>9,
     <1>10, <1>11, <1>12, <1>13, <1>14, <1>15, <1>16, <1>17, <1>18, <1>19
     DEF Next, Proximity

-----------------------------------------------------------------------------
(***************************************************************************)
(* The inductive invariant.                                               *)
(***************************************************************************)
Inv ==
  /\ TypeOK /\ LockInv /\ MarkerInv /\ PressInv /\ ClaimInv /\ WaitInv
  /\ OneClientWins /\ SuccessMeansClaimed

LEMMA InitInv == Init => Inv
<1> SUFFICES ASSUME Init PROVE Inv
  OBVIOUS
<1> USE MachinesAssumption, ChoicesAssumption DEF Init
<1>1. TypeOK
  BY DEF TypeOK
<1>2. LockInv /\ MarkerInv
  BY DEF LockInv, MarkerInv, Locked
<1>3. PressInv /\ ClaimInv /\ WaitInv
  BY DEF PressInv, ClaimInv, WaitInv, Waiting
<1>4. OneClientWins /\ SuccessMeansClaimed
  BY DEF OneClientWins, SuccessMeansClaimed
<1> QED BY <1>1, <1>2, <1>3, <1>4 DEF Inv

LEMMA NextInv == Inv /\ [Next]_vars => Inv'
  BY NextType, NextLock, NextMarker, NextPress, NextClaim, NextWait,
     NextOneClient, NextSuccess
     DEF Inv

LEMMA AlwaysInv == Spec => []Inv
<1>1. Init => Inv
  BY InitInv
<1>2. Inv /\ [Next]_vars => Inv'
  BY NextInv
<1> QED BY <1>1, <1>2, PTL DEF Spec

(***************************************************************************)
(* Every state is well typed; whoever the lock file names is in the code   *)
(* between AcquireFileLock and CloseHandle, and a marker with content is   *)
(* in the directory.                                                       *)
(***************************************************************************)
THEOREM TypeCorrect == Spec => []TypeOK
<1>1. Inv => TypeOK
  BY DEF Inv
<1> QED BY <1>1, AlwaysInv, PTL

(***************************************************************************)
(* Proximity never leaves two markers in the directory, however many       *)
(* machines press the key and whichever processes are closed.              *)
(***************************************************************************)
THEOREM SingleMarker == Spec => []AtMostOneMarker
<1>1. Inv => AtMostOneMarker
  <2> SUFFICES ASSUME Inv, failed = {} PROVE AtMostOneMarker
    BY DEF AtMostOneMarker
  <2>1. CASE available = {}
    BY <2>1, FS_EmptySet DEF AtMostOneMarker
  <2>2. CASE available # {}
    <3>1. PICK a \in available : TRUE
      BY <2>2
    <3>2. available = {a}
      BY <3>1 DEF Inv, MarkerInv
    <3>3. Cardinality({a}) = 1
      BY FS_Singleton
    <3> QED BY <3>2, <3>3 DEF AtMostOneMarker
  <2> QED BY <2>1, <2>2
<1> QED BY <1>1, AlwaysInv, PTL

(***************************************************************************)
(* "Only one client wins": no two presses claim the same press of a        *)
(* machine, for any number of machines and presses, but for clients that   *)
(* could not rename the marker.                                            *)
(***************************************************************************)
THEOREM OneWinner == Spec => []OneClientWins
<1>1. Inv => OneClientWins
  BY DEF Inv
<1> QED BY <1>1, AlwaysInv, PTL

(***************************************************************************)
(* "Proximity Successful!" is printed only for a claimed marker, or when   *)
(* the lock or a call on the share failed in that press itself, whatever   *)
(* fails on the other machines; and a machine whose marker was claimed and *)
(* renamed is not told that nobody came.                                   *)
(***************************************************************************)
THEOREM TruthfulSuccess == Spec => []SuccessMeansClaimed
<1>1. Inv => SuccessMeansClaimed
  BY DEF Inv
<1> QED BY <1>1, AlwaysInv, PTL

(***************************************************************************)
(* The machine whose marker a client claims is waiting for it, unless its  *)
(* marker was left behind: it cannot be expiring the marker at that        *)
(* moment, because the client holds the lock.                              *)
(***************************************************************************)
THEOREM PartnerWaits == Spec => ClientFindsWaiting
<1> DEFINE Finds == \A m, s \in Machines :
                      ClaimMarker(m, s) /\ s \in written /\ ~LeftBehind(s)
                        => pc[s] \in {"sleep", "relock"}
<1>1. Inv /\ [Next]_vars => [Finds]_vars
  <2> SUFFICES ASSUME Inv,
                      NEW m \in Machines, NEW s \in Machines,
                      ClaimMarker(m, s), s \in written, ~LeftBehind(s)
               PROVE  pc[s] \in {"sleep", "relock"}
    OBVIOUS
  <2>1. pc[s] \in Waiting
    BY DEF Inv, WaitInv, Awaits
  <2>2. pc[m] = "read" /\ lock = m
    BY DEF Inv, LockInv, Locked, ClaimMarker
  <2>3. pc[s] # "expire"
    BY <2>2, MachinesAssumption DEF Inv, LockInv, Locked
  <2> QED BY <2>1, <2>3 DEF Waiting
<1> QED BY <1>1, AlwaysInv, PTL DEF ClientFindsWaiting, Spec
=============================================================================
