------------------------------ MODULE LspCatalog ------------------------------
(***************************************************************************)
(* Installing and removing layered providers (chapter12/LSP/instlsp.cpp),  *)
(* and what a provider makes of the Winsock catalog when it is loaded and  *)
(* asked for a socket (spi.cpp).                                           *)
(*                                                                         *)
(* The catalog is a sequence of WSAPROTOCOL_INFO entries: ChainLen is len, *)
(* ChainEntries entries, which has more ids in it than len where something *)
(* was shortened or copied.  A base entry has a chain of length one, the   *)
(* hidden entry of a layered provider (its GUID is fixed) an empty chain,  *)
(* a layered entry the catalog ids of the providers from the top down to   *)
(* the base.  path names the provider whose library an entry loads.  The   *)
(* tools of two providers built from this sample run one at a time; a call *)
(* of the catalog may fail and a tool may be killed between two calls.     *)
(***************************************************************************)
EXTENDS Naturals, Sequences, SequencesExt, FiniteSets

CONSTANTS Bases,        \* the base protocols: a sequence of [af, type, proto, flags]
          Layers,       \* the layered providers: their fixed GUIDs
          Unspec,       \* AF_UNSPEC
          Raw,          \* SOCK_RAW
          MaxRuns,      \* bound: runs of the tools
          MaxFaults     \* bound: failed calls and killed tools

VARIABLES catalog,      \* the entries, in the order ws2_32 searches them
          nextId,       \* the next catalog id
          tool,         \* the running instlsp
          runs,         \* tools started
          faults,       \* what may still go wrong
          broken        \* history: "partial" once a call failed or a tool was killed,
                        \* until -f; "garbage" for good after LayeredCatalogId was read
                        \* uninitialised

vars == <<catalog, nextId, tool, runs, faults, broken>>

Base(i) == [id |-> i, guid |-> i, path |-> "base", len |-> 1, entries |-> <<0>>, p |-> Bases[i],
            ifs |-> TRUE, stub |-> FALSE]

(* What HEAP_ZERO_MEMORY leaves where a catalog id was not found.          *)
Zero == [id |-> 0, guid |-> 0, path |-> "none", len |-> 0, entries |-> <<>>,
         p |-> [af |-> 0, type |-> 0, proto |-> 0, flags |-> 0], ifs |-> FALSE, stub |-> FALSE]

(* The chain of an entry, and what ChainEntries[i - 1] holds within or     *)
(* behind it.                                                              *)
Chain(e) == SubSeq(e.entries, 1, e.len)
ChainEntry(e, i) == IF i <= Len(e.entries) THEN e.entries[i] ELSE 0

NoTool == [pc |-> "idle", layer |-> 0, todo |-> <<>>, id |-> 0, order |-> <<>>]

Init == /\ catalog = [i \in DOMAIN Bases |-> Base(i)]
        /\ nextId = Len(Bases) + 1
        /\ tool = NoTool /\ runs = 0 /\ faults = MaxFaults /\ broken = "no"

-------------------------------------------------------------------------------
(* Winsock's catalog functions, as the tool uses them.                     *)

CatalogIds == {catalog[i].id : i \in DOMAIN catalog}
Guids == {catalog[i].guid : i \in DOMAIN catalog}
GuidOrder == [i \in DOMAIN catalog |-> catalog[i].guid]

ById(id) == catalog[CHOOSE i \in DOMAIN catalog : catalog[i].id = id]
ByGuid(g) == catalog[CHOOSE i \in DOMAIN catalog : catalog[i].guid = g]

WSCInstallProvider(c, guid, path, e) == Append(c, [e EXCEPT !.id = nextId, !.guid = guid, !.path = path])
WSCDeinstallProvider(guid) == SelectSeq(catalog, LAMBDA e : e.guid # guid)

IsIdinChain(e, id) == Contains(Chain(e), id)

(* The first occurrence goes, the rest moves up and the last id stays      *)
(* behind the chain too; one id left is a stub.                            *)
RemoveIdFromChain(id, e) ==
  LET at == CHOOSE i \in 1..e.len : e.entries[i] = id /\ \A j \in 1..(i - 1) : e.entries[j] # id
  IN IF ~IsIdinChain(e, id) THEN e
     ELSE [e EXCEPT !.entries = RemoveAt(Chain(e), at) \o SubSeq(@, e.len, Len(@)),
                    !.len = @ - 1, !.stub = @ \/ e.len = 2]

(* A layer over entry e: this provider's id on top of the chain, or a new  *)
(* chain over a base entry.  Over an entry without a chain (a hidden one,  *)
(* or zeroes) it has length one and passes for a base entry: a stub.       *)
Layered(e, id) ==
  LET below == IF e.len = 1 THEN <<e.id>> ELSE Chain(e)
  IN [e EXCEPT !.entries = <<id>> \o below \o SubSeq(@, Len(below) + 2, Len(@)),
               !.len = @ + 1, !.stub = @ \/ e.len = 0]

Failing == faults > 0

(* Nothing more is said of a catalog after a removal that read garbage.    *)
MayRun == tool.pc = "idle" /\ runs < MaxRuns /\ broken # "garbage"
Return == tool' = NoTool
Fail == /\ faults' = faults - 1
        /\ broken' = IF broken = "no" THEN "partial" ELSE broken

-------------------------------------------------------------------------------
(***************************************************************************)
(* InstallProvider: the hidden entry first (refused when its GUID is       *)
(* there already), then one layer for every id asked for, then all of them *)
(* to the front.  An id the catalog does not have is a layer over zeroes.  *)
(***************************************************************************)
OriginalProtocolInfo(ids) ==
  [i \in DOMAIN ids |-> IF ids[i] \in CatalogIds THEN [ById(ids[i]) EXCEPT !.ifs = FALSE] ELSE Zero]

InstallProvider(l, ids) ==
  /\ MayRun /\ runs' = runs + 1
  /\ LET orig == OriginalProtocolInfo(ids) IN
     IF l \in Guids
     THEN UNCHANGED <<catalog, nextId, tool>>
     ELSE /\ catalog' = WSCInstallProvider(catalog, l, l, [orig[1] EXCEPT !.len = 0, !.stub = FALSE])
          /\ nextId' = nextId + 1
          /\ tool' = [NoTool EXCEPT !.pc = "layer", !.layer = l, !.id = nextId,
                        !.todo = [i \in DOMAIN orig |-> Layered(orig[i], nextId)]]
  /\ UNCHANGED <<faults, broken>>

InstallLayer ==
  /\ tool.pc = "layer" /\ tool.todo # <<>>
  /\ catalog' = WSCInstallProvider(catalog, nextId, tool.layer, Head(tool.todo))
  /\ nextId' = nextId + 1
  /\ tool' = [tool EXCEPT !.todo = Tail(@)]
  /\ UNCHANGED <<runs, faults, broken>>

SetProviderOrder ==
  /\ tool.pc = "layer" /\ tool.todo = <<>>
  /\ catalog' = SelectSeq(catalog, LAMBDA e : IsIdinChain(e, tool.id))
                \o SelectSeq(catalog, LAMBDA e : ~IsIdinChain(e, tool.id))
  /\ Return
  /\ UNCHANGED <<nextId, runs, faults, broken>>

(***************************************************************************)
(* RemoveProvider: the layers with this provider on top, the hidden entry, *)
(* then every entry another provider put over one of them is installed     *)
(* again, under its GUID, without this provider's id.  LayeredCatalogId is *)
(* not initialised when the provider is not installed.                     *)
(***************************************************************************)
RemoveProvider(l, garbage) ==
  /\ MayRun /\ runs' = runs + 1
  /\ LET id == IF l \in Guids THEN ByGuid(l).id ELSE garbage IN
     tool' = [NoTool EXCEPT !.pc = "remove", !.layer = l, !.id = id,
                !.todo = SelectSeq(catalog, LAMBDA e : e.len > 1 /\ e.entries[1] = id)]
  /\ broken' = IF l \in Guids THEN broken ELSE "garbage"
  /\ UNCHANGED <<catalog, nextId, faults>>

RemoveLayer ==
  /\ tool.pc = "remove" /\ tool.todo # <<>>
  /\ catalog' = WSCDeinstallProvider(Head(tool.todo).guid)
  /\ tool' = [tool EXCEPT !.todo = Tail(@)]
  /\ UNCHANGED <<nextId, runs, faults, broken>>

(* The hidden entry goes; the entries to repair and the order are saved.   *)
RemoveHidden ==
  /\ tool.pc = "remove" /\ tool.todo = <<>>
  /\ LET rest == WSCDeinstallProvider(tool.layer) IN
     /\ catalog' = rest
     /\ tool' = [tool EXCEPT !.pc = "repair", !.order = [i \in DOMAIN rest |-> rest[i].guid],
                   !.todo = SelectSeq(rest, LAMBDA e : IsIdinChain(e, tool.id))]
  /\ UNCHANGED <<nextId, runs, faults, broken>>

(* A slip: the entry is installed again with the chain it had.             *)
RepairSameChain ==
  /\ tool.pc = "repair" /\ tool.todo # <<>>
  /\ LET e == Head(tool.todo) IN
     catalog' = WSCInstallProvider(WSCDeinstallProvider(e.guid), e.guid, e.path, e)
  /\ nextId' = nextId + 1
  /\ tool' = [tool EXCEPT !.todo = Tail(@)]
  /\ UNCHANGED <<runs, faults, broken>>

(* Deinstall and install again, with the path the entry had.               *)
RepairChain ==
  /\ tool.pc = "repair" /\ tool.todo # <<>>
  /\ LET e == Head(tool.todo) IN
     catalog' = WSCInstallProvider(WSCDeinstallProvider(e.guid), e.guid, e.path, RemoveIdFromChain(tool.id, e))
  /\ nextId' = nextId + 1
  /\ tool' = [tool EXCEPT !.todo = Tail(@)]
  /\ UNCHANGED <<runs, faults, broken>>

(* A slip: the order is written only as far as it is still right.          *)
RestoreNothing ==
  /\ tool.pc = "repair" /\ tool.todo = <<>> /\ Return
  /\ UNCHANGED <<catalog, nextId, runs, faults, broken>>

(* WSCWriteProviderOrder with the GUIDs as they stood.                     *)
RestoreOrder ==
  /\ tool.pc = "repair" /\ tool.todo = <<>>
  /\ catalog' = LET kept == SelectSeq(tool.order, LAMBDA g : g \in Guids)
                IN  [i \in DOMAIN kept |-> ByGuid(kept[i])]
                    \o SelectSeq(catalog, LAMBDA e : ~Contains(tool.order, e.guid))
  /\ Return
  /\ UNCHANGED <<nextId, runs, faults, broken>>

(***************************************************************************)
(* -f: RemoveAllLayeredEntries removes the first entry that is not a base  *)
(* entry and starts again, until there is none.                            *)
(***************************************************************************)
LayeredEntries == {i \in DOMAIN catalog : catalog[i].len # 1}

RemoveAllLayeredEntries ==
  /\ MayRun /\ runs' = runs + 1
  /\ tool' = [NoTool EXCEPT !.pc = "force"]
  /\ UNCHANGED <<catalog, nextId, faults, broken>>

RemoveNextEntry ==
  /\ tool.pc = "force"
  /\ IF LayeredEntries = {}
     THEN /\ Return /\ broken' = IF broken = "partial" THEN "no" ELSE broken
          /\ UNCHANGED catalog
     ELSE /\ catalog' = WSCDeinstallProvider(catalog[CHOOSE i \in LayeredEntries :
                                               \A j \in LayeredEntries : i <= j].guid)
          /\ UNCHANGED <<tool, broken>>
  /\ UNCHANGED <<nextId, runs, faults>>

(***************************************************************************)
(* A call fails.  InstallProvider gives up and leaves what it has done;    *)
(* RemoveProvider reports it and goes on, so that an entry it could not    *)
(* install again is gone; -f tries the same entry again.                   *)
(***************************************************************************)
CallFails ==
  /\ Failing /\ Fail
  /\ CASE tool.pc = "layer" -> Return /\ UNCHANGED catalog
       [] tool.pc = "remove" /\ tool.todo # <<>> ->
            tool' = [tool EXCEPT !.todo = Tail(@)] /\ UNCHANGED catalog
       [] tool.pc = "repair" /\ tool.todo # <<>> ->
            /\ catalog' = WSCDeinstallProvider(Head(tool.todo).guid)
            /\ tool' = [tool EXCEPT !.todo = Tail(@)]
       [] tool.pc = "force" -> UNCHANGED <<tool, catalog>>
       [] OTHER -> FALSE
  /\ UNCHANGED <<nextId, runs>>

Killed == /\ Failing /\ Fail /\ tool.pc # "idle" /\ Return
          /\ UNCHANGED <<catalog, nextId, runs>>

-------------------------------------------------------------------------------
(***************************************************************************)
(* WSPStartup of provider l: a slot for every entry that has l's id first  *)
(* in ChainEntries, whatever its chain, stubs and hidden entries too.  The *)
(* slot gets the entry whose id is second, and is used again for the next  *)
(* entry when there is none.                                               *)
(***************************************************************************)
gLayerCatId(l) == IF l \in Guids THEN ByGuid(l).id ELSE 0

LayersOf(l) == SelectSeq(catalog, LAMBDA e : ChainEntry(e, 1) = gLayerCatId(l))

HasNext(e) == ChainEntry(e, 2) \in CatalogIds

gBaseInfo(l) == LET found == SelectSeq(LayersOf(l), HasNext)
                IN  [i \in DOMAIN found |-> [LayeredProvider |-> found[i],
                                             NextProvider |-> ById(ChainEntry(found[i], 2))]]

(* WSPStartup fails when a slot has stayed empty, for there is no path of  *)
(* zeroes, and when the provider of a slot has failed: its table of        *)
(* functions is then empty.                                                *)
WSPStartupFails(down, l) ==
  \/ \E i \in DOMAIN LayersOf(l) : ~HasNext(LayersOf(l)[i])
  \/ \E i \in DOMAIN gBaseInfo(l) : gBaseInfo(l)[i].NextProvider.path \in down

(* The providers that do not start, in a process that loads each of them   *)
(* for the first time: the fewest that agree with each other.              *)
NotStarting == {l \in Layers : \A down \in SUBSET Layers :
                                  (\A k \in Layers : WSPStartupFails(down, k) => k \in down) => l \in down}

(***************************************************************************)
(* WSPSocket's search for the provider below, given the entry p that       *)
(* ws2_32 chose: the first slot of the same kind whose flags agree, the    *)
(* IFS flag aside.  Raw sockets are matched without their protocol,        *)
(* AF_UNSPEC without the address family.                                   *)
(***************************************************************************)
Supported(slots, p) ==
  /\ p.p.af = Unspec \/ \E i \in DOMAIN slots : slots[i].NextProvider.p.af = p.p.af
  /\ \E i \in DOMAIN slots : slots[i].NextProvider.p.type = p.p.type
  /\ \/ p.p.proto = 0 \/ p.p.type = Raw
     \/ \E i \in DOMAIN slots : slots[i].NextProvider.p.proto = p.p.proto

(* A slip: the IFS flag, which the tool clears in every layer, is compared. *)
SameKindAndFlags(n, p) == n.p = p.p /\ n.ifs = p.ifs

SameKind(n, p) ==
  /\ n.p.type = p.p.type /\ n.p.flags = p.p.flags
  /\ p.p.af # Unspec => n.p.af = p.p.af
  /\ p.p.proto # 0 /\ p.p.type # Raw => n.p.proto = p.p.proto

WSPSocketProvider(slots, p) ==
  LET fit == {i \in DOMAIN slots : SameKind(slots[i].NextProvider, p)}
  IN  IF ~Supported(slots, p) \/ fit = {} THEN 0
      ELSE CHOOSE i \in fit : \A j \in fit : i <= j

(* WSPAddressToString and WSPStringToAddress: all three must agree.        *)
WSPAddressProvider(slots, p) ==
  LET fit == {i \in DOMAIN slots : slots[i].NextProvider.p = p.p}
  IN  IF fit = {} THEN 0 ELSE CHOOSE i \in fit : \A j \in fit : i <= j

-------------------------------------------------------------------------------
Everything == [i \in DOMAIN catalog |-> catalog[i].id]      \* -a

Next ==
  \/ \E l \in Layers, ids \in {<<id>> : id \in CatalogIds \cup {0}} \cup {Everything} :
       InstallProvider(l, ids)
  \/ \E l \in Layers, garbage \in CatalogIds \cup {0} :
       (l \in Guids => garbage = 0) /\ RemoveProvider(l, garbage)
  \/ InstallLayer \/ SetProviderOrder
  \/ RemoveLayer \/ RemoveHidden \/ RepairChain \/ RestoreOrder
  \/ RemoveAllLayeredEntries \/ RemoveNextEntry
  \/ CallFails \/ Killed

Spec == Init /\ [][Next]_vars

-------------------------------------------------------------------------------
Sound == tool.pc = "idle" /\ broken = "no"

(***************************************************************************)
(* However installs and removals of two providers over each other follow   *)
(* one another, when they complete every id in every chain is that of an   *)
(* entry of the catalog and every chain ends at a base entry; a provider   *)
(* that is loaded finds the next one below for each of its layers.  The    *)
(* exception are stubs and what is layered over them.                      *)
(***************************************************************************)
ChainsResolve ==
  Sound => \A i \in DOMAIN catalog :
    LET e == catalog[i] IN
    e.len > 1 /\ ~e.stub =>
      /\ \A j \in 1..e.len : e.entries[j] \in CatalogIds
      /\ e.entries[e.len] \in 1..Len(Bases)

(***************************************************************************)
(* Without a stub in the catalog every provider that is installed starts,  *)
(* also where a hidden entry has the first two ids of the chain it was     *)
(* copied from.  An application that is given an entry layered over a base *)
(* protocol by ws2_32, of a provider that starts, reaches, through         *)
(* WSPSocket and the address functions, a provider of that protocol,       *)
(* whatever else is layered over what.  (Over another layer it may not:    *)
(* the entry below is then the hidden one, which has the protocol of the   *)
(* first layer installed with it.)                                         *)
(***************************************************************************)
LayersAreServed ==
  Sound => \A l \in Layers \cap Guids :
    /\ (\A i \in DOMAIN catalog : ~catalog[i].stub) => l \notin NotStarting
    /\ l \notin NotStarting => \A i \in DOMAIN LayersOf(l) :
         LET e == LayersOf(l)[i] IN
         ~e.stub /\ e.len = 2 =>
           /\ WSPSocketProvider(gBaseInfo(l), e) # 0
           /\ gBaseInfo(l)[WSPSocketProvider(gBaseInfo(l), e)].NextProvider.p = e.p
           /\ WSPAddressProvider(gBaseInfo(l), e) # 0

(***************************************************************************)
(* Removing a provider does not change the order in which ws2_32 searches  *)
(* the entries of the others, although it installs some of them again.     *)
(***************************************************************************)
KeepsOrder ==
  tool.pc = "repair" /\ tool'.pc = "idle" /\ broken' = "no" => GuidOrder' = tool.order

OrderKept == [][KeepsOrder]_vars

(***************************************************************************)
(* "In the event that the layered entries become totally hosed up", -f     *)
(* "will remove any non base provider" (RemoveAllLayeredEntries): what is  *)
(* left when it ends are the base entries.                                 *)
(***************************************************************************)
ForceCleans ==
  [][tool.pc = "force" /\ tool'.pc = "idle" /\ broken' = "no" =>
       \A i \in DOMAIN catalog' : catalog'[i].guid \in 1..Len(Bases)]_vars

(***************************************************************************)
(* "-a       Install over all providers (base or layered)" (usage): an     *)
(* installation that completes leaves a provider that starts.  It is not   *)
(* so when there is a hidden entry to install over, or an id that the      *)
(* catalog does not have: the stub leaves a slot empty.                    *)
(***************************************************************************)
InstalledStarts == Sound => NotStarting \cap Guids = {}
===============================================================================
