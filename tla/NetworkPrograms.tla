--------------------------- MODULE NetworkPrograms ---------------------------
(***************************************************************************)
(* The programs that share nothing with another one: the overlapped echo   *)
(* server, the listening side of the completion-port server, the load      *)
(* client and the blocking client of chapter 5, ping and tracert of        *)
(* chapter 11, instlsp of chapter 12, and authpf.  One of them is started. *)
(***************************************************************************)
EXTENDS Integers, Sequences

CONSTANTS NConns, NBufs, NThreads, MAXIMUM_WAIT_OBJECTS,
          gOverlappedCount, gConnectionCount, gSendCount,
          NAddrs, Window,
          DEFAULT_SEND_COUNT, PingTtl, TraceTtl, SystemTtl, Distances, Ticks, Ids, MaxRequests,
          NSessions, LockTries, User, Gateways,
          Bases, Layers, Unspec, Raw, MaxRuns,
          MaxFaults

ASSUME BoundsAssumption ==
  /\ {NConns, NBufs, NThreads, MAXIMUM_WAIT_OBJECTS, DEFAULT_SEND_COUNT,
      MaxRequests, NSessions, LockTries, MaxRuns, MaxFaults} \subseteq Nat
  /\ {gOverlappedCount, gConnectionCount, gSendCount, NAddrs, Window} \subseteq Nat \ {0}

ASSUME ProbeAssumption ==
  {PingTtl, TraceTtl, SystemTtl} \subseteq Nat /\ Distances \subseteq Nat \ {0}

ASSUME PacketAssumption == Ids \subseteq 0..65535 /\ Ticks \subseteq Seq(0..65535)

ASSUME CatalogAssumption == Layers # {} /\ Layers \cap Nat = {} /\ Len(Bases) > 0

VARIABLES over, accepts, client, bclient, probe, authpf,
          catalog, nextId, tool, runs, faults, broken

installer == <<catalog, nextId, tool, runs, faults, broken>>
vars == <<over, accepts, client, bclient, probe, authpf, installer>>

Over == INSTANCE OverServer
Listening == INSTANCE IocpAccepts
Client == INSTANCE IocpClient
Blocking == INSTANCE BlockingClient
Probe == INSTANCE IcmpProbe
Gateway == INSTANCE Authpf
Installer == INSTANCE LspCatalog

NotRun == [main |-> "not run", pc |-> "not run"]
Runs(program) == program # NotRun

NotInstalling == /\ tool = NotRun /\ catalog = <<>>
                 /\ nextId = 0 /\ runs = 0 /\ faults = 0 /\ broken = "no"

Init ==
  \/ /\ Over!OverInit
     /\ accepts = NotRun /\ client = NotRun /\ bclient = NotRun /\ probe = NotRun /\ authpf = NotRun
     /\ NotInstalling
  \/ /\ Listening!AcceptsInit
     /\ over = NotRun /\ client = NotRun /\ bclient = NotRun /\ probe = NotRun /\ authpf = NotRun
     /\ NotInstalling
  \/ /\ Client!ClientInit
     /\ over = NotRun /\ accepts = NotRun /\ bclient = NotRun /\ probe = NotRun /\ authpf = NotRun
     /\ NotInstalling
  \/ /\ Blocking!BlockingClientInit
     /\ over = NotRun /\ accepts = NotRun /\ client = NotRun /\ probe = NotRun /\ authpf = NotRun
     /\ NotInstalling
  \/ /\ Probe!ProbeInit
     /\ over = NotRun /\ accepts = NotRun /\ client = NotRun /\ bclient = NotRun /\ authpf = NotRun
     /\ NotInstalling
  \/ /\ Gateway!AuthpfInit
     /\ over = NotRun /\ accepts = NotRun /\ client = NotRun /\ bclient = NotRun /\ probe = NotRun
     /\ NotInstalling
  \/ /\ Installer!Init
     /\ over = NotRun /\ accepts = NotRun /\ client = NotRun /\ bclient = NotRun /\ probe = NotRun
     /\ authpf = NotRun

OverRuns ==
  Runs(over) /\ Over!OverNext /\ UNCHANGED <<accepts, client, bclient, probe, authpf, installer>>
ListeningRuns ==
  Runs(accepts) /\ Listening!AcceptsNext /\ UNCHANGED <<over, client, bclient, probe, authpf, installer>>
ClientRuns ==
  Runs(client) /\ Client!ClientNext /\ UNCHANGED <<over, accepts, bclient, probe, authpf, installer>>
BlockingClientRuns ==
  Runs(bclient) /\ Blocking!BlockingClientNext
    /\ UNCHANGED <<over, accepts, client, probe, authpf, installer>>
ProbeRuns ==
  Runs(probe) /\ Probe!ProbeNext /\ UNCHANGED <<over, accepts, client, bclient, authpf, installer>>
GatewayRuns ==
  Runs(authpf) /\ Gateway!AuthpfNext /\ UNCHANGED <<over, accepts, client, bclient, probe, installer>>
InstallerRuns ==
  Runs(tool) /\ Installer!Next /\ UNCHANGED <<over, accepts, client, bclient, probe, authpf>>

Next == \/ OverRuns \/ ListeningRuns \/ ClientRuns \/ BlockingClientRuns
        \/ ProbeRuns \/ GatewayRuns \/ InstallerRuns

Spec == Init /\ [][Next]_vars
-----------------------------------------------------------------------------
(* The thread of a completed operation is not asleep (overserver.cpp,      *)
(* IoThread, AssignIoToThread and RemoveBufferFromThread).                 *)
CompletionsAreSeen == Runs(over) => Over!CompletionsAreSeen

(* A socket object is not freed under an operation (overserver.cpp,        *)
(* FreeSocketObj, HandleIo).                                               *)
ObjectsOutliveOps == Runs(over) => Over!ObjectsOutliveOps

(* The accepts of the completion-port server are counted, and its pool     *)
(* stays whole (iocpserver.cpp of chapter 5, PostAccept, HandleIo, main).  *)
AcceptsAccounted == Runs(accepts) => Listening!AcceptsAccounted

(* main of iocpclient.cpp counts the connections it has seen established   *)
(* and ends when these are closed and everything has been sent (HandleIo,  *)
(* SendThread).                                                            *)
FinishesWhatItCounts == Runs(client) => Client!FinishesWhatItCounts

(* bclient.cpp is not stuck between its two threads and the server         *)
(* (SendThread, ReceiveThread).                                            *)
ClientNeverStuck == Runs(bclient) => Blocking!ClientNeverStuck

(* Every echo request verifies (ping.cpp, tracert.cpp: checksum,           *)
(* ComputeIcmpChecksum).                                                   *)
RequestsVerify == Runs(probe) => Probe!RequestsVerify

(* A late answer does not put a router too far away, and without one every *)
(* line is right (tracert.cpp, main).                                      *)
TraceIsTrue == Runs(probe) => Probe!TraceIsTrue

(* A session of authpf has the access it announces, and nobody else has    *)
(* (authpf.c, main and do_death).                                          *)
AccessIsOwned == Runs(authpf) => Gateway!AccessIsOwned

(* The chains that completed runs of instlsp leave end at a base entry,    *)
(* and a layered entry is served by a provider below of its protocol       *)
(* (instlsp.cpp, InstallProvider, RemoveProvider, RemoveIdFromChain;       *)
(* spi.cpp, WSPStartup, WSPSocket).                                        *)
LayersAreServed == Runs(tool) => Installer!ChainsResolve /\ Installer!LayersAreServed

(* The removal of a provider keeps the order of the others (instlsp.cpp,   *)
(* RemoveProvider).                                                        *)
OrderKept == [][Runs(tool) => Installer!KeepsOrder]_vars
=============================================================================
