------------------------------- MODULE NameSpace -------------------------------
(***************************************************************************)
(* The sample name space of chapter 12 in operation: nspinstall enters the *)
(* provider in the catalog, programs (rnrcs as a server or as a client,    *)
(* and one that asks for or removes a service class) call the provider     *)
(* DLL, every call of the DLL opens a connection of its own to the name    *)
(* service, and the service answers the connections in the order in which  *)
(* they were made.                                                         *)
(*                                                                         *)
(* A call has three steps: it connects, it writes the request, and the     *)
(* service's turn answers it.  Between the first two the service, which    *)
(* blocks in readdata, serves nobody.  Programs are killed and the service *)
(* crashes and is started again with empty tables.                         *)
(***************************************************************************)
EXTENDS NameTables

CONSTANTS Programs,    \* the processes
          Plan,        \* what each one runs: role, service class, service name
          Workloads,   \* the sets of programs that are run together
          Backlog,     \* connections that may wait (listen(s, 7))
          MaxKills, MaxRestarts, MaxCatalog   \* bounds of the environment

ASSUME NameSpaceAssumption ==
  /\ IsFiniteSet(Programs)
  /\ Workloads \subseteq SUBSET Programs
  /\ \A p \in Programs : Plan[p].role \in {"server", "client", "remover", "asker"}
  /\ {MAX_SERVICE_CLASSES, MAX_SERVICES, MAX_QUERIES, Backlog, MaxKills, MaxRestarts, MaxCatalog} \subseteq Nat

VARIABLES installed,   \* the provider's entry in the name space catalog
          up,          \* the service runs
          tables,      \* its globals
          backlog,     \* the connections, in order
          prog,        \* the programs
          count        \* kills, restarts and changes of the catalog so far

vars == <<installed, up, tables, backlog, prog, count>>

(* pc is the call a program is in, net the state of the call's connection. *)
(* found are the services a lookup has returned; expect and calm serve the *)
(* properties: the matching services when the lookup began, and whether    *)
(* nothing has been removed or mixed up since.                             *)
Fresh == [pc |-> "start", net |-> "none", handle |-> 0, found |-> <<>>, last |-> Null,
          expect |-> {}, calm |-> FALSE, whole |-> FALSE]

Ended == [Fresh EXCEPT !.pc = "done"]

Init ==
  /\ installed = FALSE
  /\ up = TRUE
  /\ tables = Started
  /\ backlog = <<>>
  /\ \E W \in Workloads : prog = [p \in Programs |-> IF p \in W THEN Fresh ELSE Ended]
  /\ count = [kills |-> 0, restarts |-> 0, catalog |-> 0]
-----------------------------------------------------------------------------
(* nspinstall install and nspinstall remove, while a program is still to   *)
(* look: nothing else reads the catalog.                                   *)
Looked == \A p \in Programs : prog[p].pc # "start"

WSCInstallNameSpace ==
  /\ ~installed /\ count.catalog < MaxCatalog /\ ~Looked
  /\ installed' = TRUE
  /\ count' = [count EXCEPT !.catalog = @ + 1]
  /\ UNCHANGED <<up, tables, backlog, prog>>

WSCUnInstallNameSpace ==
  /\ installed /\ count.catalog < MaxCatalog /\ ~Looked
  /\ installed' = FALSE
  /\ count' = [count EXCEPT !.catalog = @ + 1]
  /\ UNCHANGED <<up, tables, backlog, prog>>

FirstCall(role) ==
  CASE role = "server"  -> "class"
    [] role = "client"  -> "begin"
    [] role = "remover" -> "remove"
    [] role = "asker"   -> "info"

(* EnumNameSpaceProviders finds the provider or not; without it no call    *)
(* reaches the DLL and rnrcs gives up.                                     *)
Enumerate(p) ==
  /\ prog[p].pc = "start"
  /\ prog' = [prog EXCEPT ![p] = IF installed THEN [@ EXCEPT !.pc = FirstCall(Plan[p].role)] ELSE Ended]
  /\ UNCHANGED <<installed, up, tables, backlog, count>>
-----------------------------------------------------------------------------
Calling(p) == prog[p].pc \notin {"start", "done"}

(* Advertise binds the port of the service class before it registers; two  *)
(* servers of one class cannot do so at a time.                            *)
PortTaken(p) ==
  \E q \in Programs \ {p} : prog[q].pc = "advertise" /\ Plan[q].class = Plan[p].class

(* Where a program goes when its call returns r.  A server takes "already  *)
(* registered" for success when it installs its class.                     *)
AfterInstall(p, me, r) == IF r.code # "refused" /\ ~PortTaken(p) THEN [me EXCEPT !.pc = "advertise"] ELSE Ended

AfterBegin(me, r) == IF r.code = "success" THEN [me EXCEPT !.pc = "next", !.handle = r.handle] ELSE Ended

(* A client ends a lookup that failed and deletes what it found if it was  *)
(* asked to.                                                               *)
AfterNext(p, me, r) ==
  IF r.code # "data" THEN [me EXCEPT !.pc = "end", !.whole = r.code \in {"no more", "not found"}]
  ELSE [me EXCEPT !.found = Append(@, r.from), !.last = IF Plan[p].delete THEN r.from ELSE Null,
                  !.pc = IF Plan[p].delete THEN "delete" ELSE "next"]

AfterCall(p, r) ==
  LET me == [prog[p] EXCEPT !.net = "none"]
  IN CASE me.pc = "class"  -> AfterInstall(p, me, r)
       [] me.pc = "begin"  -> AfterBegin(me, r)
       [] me.pc = "next"   -> AfterNext(p, me, r)
       [] me.pc = "delete" -> [me EXCEPT !.pc = "next", !.last = Null]
       [] OTHER            -> Ended

Refused == [Error EXCEPT !.code = "refused"]

(* MyNspConnect.                                                           *)
Connect(p) ==
  /\ Calling(p) /\ prog[p].net = "none"
  /\ up /\ Len(backlog) < Backlog
  /\ prog' = [prog EXCEPT ![p].net = "connected"]
  /\ backlog' = Append(backlog, p)
  /\ UNCHANGED <<installed, up, tables, count>>

ConnectFails(p) ==
  /\ Calling(p) /\ prog[p].net = "none"
  /\ ~up \/ Len(backlog) >= Backlog
  /\ prog' = [prog EXCEPT ![p] = AfterCall(p, Refused)]
  /\ UNCHANGED <<installed, up, tables, backlog, count>>

(* writedata, for the action and for what follows it.                      *)
Write(p) ==
  /\ prog[p].net = "connected"
  /\ prog' = [prog EXCEPT ![p].net = "sent"]
  /\ UNCHANGED <<installed, up, tables, backlog, count>>
-----------------------------------------------------------------------------
(* The structures the programs send.                                       *)
ClassOf(p) == [NoClass EXCEPT !.lpServiceClassId = Plan[p].class, !.lpszServiceClassName = "tcp port"]

Registration(p) ==
  [NoQuerySet EXCEPT !.lpszServiceInstanceName = Plan[p].name, !.lpServiceClassId = Plan[p].class,
                     !.lpszComment = "comment", !.lpNSProviderId = "provider", !.lpcsaBuffer = p]

Returned(from) == IF from = Null THEN NoQuerySet ELSE Registration(from)

Restrictions(p) ==
  [NoQuerySet EXCEPT !.lpszServiceInstanceName = Plan[p].name, !.lpServiceClassId = Plan[p].class,
                     !.lpNSProviderId = "provider", !.lpafpProtocols = "tcp"]

Blank(p) == [action |-> "none", msg |-> [fields |-> {}, bytes |-> <<>>], guid |-> Null,
             handle |-> 0, sender |-> p, gone |-> prog[p].net = "gone"]

(* What the calls of the DLL write.                                        *)
NSPInstallServiceClass(p) ==
  [Blank(p) EXCEPT !.action = "MYNSP_REGISTER_CLASS", !.msg = MarshallServiceClassInfo(ClassOf(p))]

NSPRemoveServiceClass(p) == [Blank(p) EXCEPT !.action = "MYNSP_DEREGISTER_CLASS", !.guid = Plan[p].class]

(* The guid that is sent is the provider's and not that of the class.      *)
NSPGetServiceClassInfo(p) == [Blank(p) EXCEPT !.action = "MYNSP_LOOKUP_CLASS", !.guid = "provider"]

NSPSetService(p, qs, op) ==
  [Blank(p) EXCEPT !.action = IF op = "RNRSERVICE_REGISTER" THEN "MYNSP_REGISTER_SERVICE"
                              ELSE "MYNSP_DEREGISTER_SERVICE",
                   !.msg = MarshallServiceInfo(qs)]

NSPLookupServiceBegin(p) ==
  [Blank(p) EXCEPT !.action = "MYNSP_LOOKUP_SERVICE_BEGIN", !.msg = MarshallServiceInfo(Restrictions(p))]

NSPLookupServiceNext(p) == [Blank(p) EXCEPT !.action = "MYNSP_LOOKUP_SERVICE_NEXT", !.handle = prog[p].handle]

(* The action is that of NSPLookupServiceNext.                             *)
NSPLookupServiceEnd(p) == [Blank(p) EXCEPT !.action = "MYNSP_LOOKUP_SERVICE_NEXT", !.handle = prog[p].handle]

(* What a client deletes it has got from the service before.               *)
Request(p) ==
  LET pc == prog[p].pc
  IN CASE pc = "class"     -> NSPInstallServiceClass(p)
       [] pc = "remove"    -> NSPRemoveServiceClass(p)
       [] pc = "info"      -> NSPGetServiceClassInfo(p)
       [] pc = "advertise" -> NSPSetService(p, Registration(p), "RNRSERVICE_REGISTER")
       [] pc = "begin"     -> NSPLookupServiceBegin(p)
       [] pc = "next"      -> NSPLookupServiceNext(p)
       [] pc = "delete"    -> NSPSetService(p, Returned(prog[p].last), "RNRSERVICE_DELETE")
       [] pc = "end"       -> NSPLookupServiceEnd(p)
       [] OTHER            -> Blank(p)

Matching(p, t) == {t.Services[i].lpcsaBuffer :
                     i \in {j \in DOMAIN t.Services : Matches(Plan[p].name, t.Services[j].lpszServiceInstanceName)}}

(* Which lookups the turn of the service that turns tables into t for p    *)
(* disturbs: a service was removed, p moved somebody else's query, or a    *)
(* write behind an array fell on either.                                   *)
Disturbs(t, p, q) ==
  \/ Len(t.Services) < Len(tables.Services) \/ t.overrun
  \/ \E i \in DOMAIN tables.QueryInfo :
       tables.QueryInfo[i].owner = q /\ q # p /\ t.QueryInfo[i].iIndex # tables.QueryInfo[i].iIndex

(* The effect of an answer on the programs.                                *)
Answered(p, out) ==
  [q \in Programs |->
     LET me == IF q = p /\ prog[p].net = "sent" THEN AfterCall(p, out.reply)
               ELSE IF q = p THEN Ended ELSE prog[q]
     IN IF me.pc = "done" THEN Ended
        ELSE IF q = p /\ prog[p].pc = "begin"
        THEN [me EXCEPT !.calm = Len(out.tables.QueryInfo) > Len(tables.QueryInfo),
                        !.expect = Matching(p, out.tables)]
        ELSE [me EXCEPT !.calm = @ /\ ~Disturbs(out.tables, p, q)]]

(* The turn of the service for the first connection: served when the       *)
(* request has been written or its sender has gone.                        *)
Turn ==
  /\ up /\ backlog # <<>> /\ prog[Head(backlog)].net \in {"sent", "orphan", "gone"}
  /\ \E out \in Serve(tables, Request(Head(backlog))) :
       /\ out.fate = "served"
       /\ tables' = out.tables
       /\ prog' = Answered(Head(backlog), out)
  /\ backlog' = Tail(backlog)
  /\ UNCHANGED <<installed, up, count>>

(* The service dies of a request: every connection is reset, the tables    *)
(* are gone.                                                               *)
TurnCrashes ==
  /\ up /\ backlog # <<>> /\ prog[Head(backlog)].net \in {"sent", "orphan", "gone"}
  /\ \E out \in Serve(tables, Request(Head(backlog))) : out.fate = "crash"
  /\ up' = FALSE
  /\ tables' = Started
  /\ backlog' = <<>>
  /\ prog' = [q \in Programs |->
                IF prog[q].net \in {"gone", "orphan"} THEN Ended
                ELSE [prog[q] EXCEPT !.net = IF @ = "none" THEN @ ELSE "reset", !.calm = FALSE]]
  /\ UNCHANGED <<installed, count>>

(* readdata fails in the DLL and the return code keeps whatever the stack  *)
(* held: the call returns anything.                                        *)
AnyReply ==
  {[Error EXCEPT !.code = c, !.handle = h] :
     c \in {"error", "success", "no more", "not found"}, h \in 1..(MAX_QUERIES + 1)}

ReadFails(p) ==
  /\ prog[p].net = "reset"
  /\ \E r \in AnyReply :
       prog' = [prog EXCEPT ![p] = IF Plan[p].role = "client" THEN [AfterCall(p, r) EXCEPT !.calm = FALSE]
                                   ELSE AfterCall(p, r)]
  /\ UNCHANGED <<installed, up, tables, backlog, count>>
-----------------------------------------------------------------------------
(* A program is killed.  Its connection stays where it is in the queue,    *)
(* with the request that it has or has not written.                        *)
Kill(p) ==
  /\ Calling(p) /\ prog[p].net # "orphan" /\ count.kills < MaxKills
  /\ prog' = [prog EXCEPT ![p] = CASE prog[p].net = "connected" -> [Ended EXCEPT !.net = "gone"]
                                   [] prog[p].net = "sent" -> [@ EXCEPT !.net = "orphan"]
                                   [] OTHER -> Ended]
  /\ count' = [count EXCEPT !.kills = @ + 1]
  /\ UNCHANGED <<installed, up, tables, backlog>>

Restart ==
  /\ ~up /\ count.restarts < MaxRestarts
  /\ up' = TRUE
  /\ count' = [count EXCEPT !.restarts = @ + 1]
  /\ UNCHANGED <<installed, tables, backlog, prog>>

Next ==
  \/ WSCInstallNameSpace \/ WSCUnInstallNameSpace
  \/ Turn \/ TurnCrashes \/ Restart
  \/ \E p \in Programs :
       Enumerate(p) \/ Connect(p) \/ ConnectFails(p) \/ Write(p) \/ ReadFails(p) \/ Kill(p)

Spec == Init /\ [][Next]_vars
-----------------------------------------------------------------------------
(* A lookup that runs to its end without a removal, a crash or a call on   *)
(* its handle by somebody else returns every matching service that was     *)
(* registered when it began, and nothing that does not match, however the  *)
(* registrations of other programs fall between its calls                  *)
(* (NSPLookupServiceNext, PerformQuery).                                   *)
LookupComplete ==
  \A p \in Programs :
    prog[p].pc = "end" /\ prog[p].whole /\ prog[p].calm =>
      /\ prog[p].expect \subseteq Range(prog[p].found)
      /\ \A s \in Range(prog[p].found) \ {Null} : Matches(Plan[p].name, Plan[s].name)

(* No lookup returns one registration twice, not even when services move   *)
(* in the table under it, when its handle means another query after a      *)
(* restart, or when it never got a handle (iIndex of QUERYINFO).           *)
ReportedOnce ==
  \A p \in Programs :
    LET found == prog[p].found
    IN \A i, j \in DOMAIN found : found[i] = found[j] /\ found[i] # Null => i = j

(* Every matching service is reported exactly once.                        *)
LookupExact == LookupComplete /\ ReportedOnce

(* As long as the service has not been restarted and has not written       *)
(* behind an array no two services have the same name: servers install     *)
(* their class before they register, and a class stays ("See if there's    *)
(* already a service registered with this name").  A request that nobody   *)
(* wrote enters a service without a name.                                  *)
NamesUnique ==
  count.restarts = 0 /\ ~tables.overrun =>
    \A i, j \in DOMAIN tables.Services :
      LET name(k) == tables.Services[k].lpszServiceInstanceName
      IN name(i) = name(j) /\ name(i) # Null => i = j

(* "The service will remove its copy of the query parameters": when no     *)
(* lookup is under way the service keeps no query.                         *)
QueriesEnded ==
  (\A p \in Programs : prog[p].pc = "done") /\ count.kills = 0 => tables.QueryInfo = <<>>

(* The arrays of 25 and 50 pointers hold what is entered in them           *)
(* (mynspsvc.cpp:47-57): ">= MAX_SERVICES" is the test for the other one,  *)
(* and Services has none.                                                  *)
ArraysHold ==
  /\ Len(tables.ServiceClasses) <= MAX_SERVICE_CLASSES
  /\ Len(tables.Services) <= MAX_SERVICES
=============================================================================
