------------------------------ MODULE NameTables ------------------------------
(***************************************************************************)
(* The name service behind the sample name space provider (chapter 12,     *)
(* mynspsvc.cpp) and the format of its messages (nspsvc.cpp).  The service *)
(* is one loop that answers one request at a time, so every request is a   *)
(* function of the tables: it yields the tables after it and the reply.    *)
(*                                                                         *)
(* A structure that travels is a function from its pointer fields to their *)
(* contents, Null for a null pointer.                                      *)
(***************************************************************************)
EXTENDS Integers, FiniteSets, SequencesExt

CONSTANTS MAX_SERVICE_CLASSES, MAX_SERVICES, MAX_QUERIES

Null == "null"

(* The pointer fields of WSAQUERYSETW, in the order they are marshalled.   *)
Fields == <<"lpszServiceInstanceName", "lpServiceClassId", "lpVersion", "lpszComment",
            "lpNSProviderId", "lpszContext", "lpafpProtocols", "lpszQueryString", "lpcsaBuffer">>

NoQuerySet == [f \in Range(Fields) |-> Null]

MarshallServiceInfo(qs) ==
  LET present == SelectSeq(Fields, LAMBDA f : qs[f] # Null)
  IN [fields |-> Range(present), bytes |-> [i \in 1..Len(present) |-> qs[present[i]]]]

DeMarshallServiceInfo(msg) ==
  [f \in Range(Fields) |->
     IF f \notin msg.fields THEN Null
     ELSE msg.bytes[Len(SelectSeq(SubSeq(Fields, 1, CHOOSE i \in DOMAIN Fields : Fields[i] = f),
                                  LAMBDA g : g \in msg.fields))]]

(* A service class keeps its id and its name; the pointers inside          *)
(* lpClassInfos are sent as they are and mean nothing to the service.      *)
ClassFields == <<"lpServiceClassId", "lpszServiceClassName">>

NoClass == [f \in Range(ClassFields) |-> Null]

MarshallServiceClassInfo(sc) ==
  LET present == SelectSeq(ClassFields, LAMBDA f : sc[f] # Null)
  IN [fields |-> Range(present), bytes |-> [i \in 1..Len(present) |-> sc[present[i]]]]

DeMarshallServiceClassInfo(msg) ==
  [f \in Range(ClassFields) |->
     IF f \notin msg.fields THEN Null
     ELSE msg.bytes[Len(SelectSeq(SubSeq(ClassFields, 1, CHOOSE i \in DOMAIN ClassFields : ClassFields[i] = f),
                                  LAMBDA g : g \in msg.fields))]]
-----------------------------------------------------------------------------
(* The globals of the service.  action is the variable of main the command *)
(* is read into; overrun: a pointer has been written behind an array, over *)
(* a neighbouring global.                                                  *)
Started == [ServiceClasses |-> <<>>, Services |-> <<>>, QueryInfo |-> <<>>,
            dwHandleValue |-> 0, action |-> "unset", overrun |-> FALSE]

(* What a request leads to: the tables, and the reply; fate "crash" when   *)
(* the service dies of it (it reads through a null pointer).               *)
Error == [code |-> "error", handle |-> 0, from |-> Null]
Success == [Error EXCEPT !.code = "success"]

Answer(t, r) == [fate |-> "served", tables |-> t, reply |-> r]
Crash == [fate |-> "crash", tables |-> Started, reply |-> Error]

LookupServiceClass(t, guid) ==
  \E i \in DOMAIN t.ServiceClasses : t.ServiceClasses[i].lpServiceClassId = guid

(* memcmp with a null guid, on either side, when there is a class to try.  *)
ComparesNull(t, guid) ==
  \E i \in DOMAIN t.ServiceClasses : Null \in {guid, t.ServiceClasses[i].lpServiceClassId}

Named(t, name) == {i \in DOMAIN t.Services : t.Services[i].lpszServiceInstanceName = name}

(* Whether LookupService returns a service; the class only says whether    *)
(* the services are searched at all.                                       *)
LookupService(t, guid, name) == LookupServiceClass(t, guid) /\ Named(t, name) # {}

(* Where a write behind an array can land: in memory nobody uses, in a     *)
(* service, in a query, or in a count or another pointer, of which the     *)
(* service dies sooner or later (Serve).                                   *)
Overrun(t) ==
  LET o == [t EXCEPT !.overrun = TRUE]
  IN {o} \cup {[o EXCEPT !.Services[i] = NoQuerySet] : i \in DOMAIN t.Services}
         \cup {[o EXCEPT !.QueryInfo[q].hHandle = -1] : q \in DOMAIN t.QueryInfo}

Entered(t, fits) == {Answer(after, Success) : after \in IF fits THEN {t} ELSE Overrun(t)}

(* The number of classes is tested against the size of the other array.    *)
RegisterClass(t, msg) ==
  LET sc == DeMarshallServiceClassInfo(msg)
      n == Len(t.ServiceClasses)
  IN IF ComparesNull(t, sc.lpServiceClassId) THEN {Crash}
     ELSE IF LookupServiceClass(t, sc.lpServiceClassId) THEN {Answer(t, Error)}
     ELSE IF n >= MAX_SERVICES THEN {Answer(t, Success)}
     ELSE Entered([t EXCEPT !.ServiceClasses = Append(@, sc)], n < MAX_SERVICE_CLASSES)

(* What &ServiceClasses[i]->lpServiceClassId points at: the pointer itself *)
(* and the fields behind it, no guid of any class.                         *)
ComparedBytesIntended(sc) == sc.lpServiceClassId
ComparedBytes(sc) == Null

(* The test for services of the class copies their bytes instead and never *)
(* refuses (memcpy returns its first argument).                            *)
DeregisterServiceClass(t, guid) ==
  LET found == {i \in DOMAIN t.ServiceClasses : ComparedBytes(t.ServiceClasses[i]) = guid}
  IN IF found = {} THEN Answer(t, Error)
     ELSE Answer([t EXCEPT !.ServiceClasses = RemoveAt(@, CHOOSE i \in found : \A j \in found : i <= j)],
                 Success)

(* A class that is not there is marshalled from a null pointer, after the  *)
(* reply has been sent; of one that is there nothing but the reply is sent.*)
LookupClass(t, guid) ==
  IF ComparesNull(t, guid) \/ ~LookupServiceClass(t, guid) THEN Crash ELSE Answer(t, Success)

(* Nothing is tested but the name.                                         *)
RegisterService(t, msg) ==
  LET si == DeMarshallServiceInfo(msg)
  IN IF ComparesNull(t, si.lpServiceClassId) THEN {Crash}
     ELSE IF LookupService(t, si.lpServiceClassId, si.lpszServiceInstanceName) THEN {Answer(t, Error)}
     ELSE Entered([t EXCEPT !.Services = Append(@, si)], Len(t.Services) < MAX_SERVICES)

(* The last service moves into the place of the one that is removed.       *)
DeregisterService(t, guid, name) ==
  LET found == Named(t, name)
      n == Len(t.Services)
  IN IF ComparesNull(t, guid) THEN Crash
     ELSE IF ~LookupServiceClass(t, guid) \/ found = {} THEN Answer(t, Error)
     ELSE LET i == CHOOSE i \in found : \A j \in found : i <= j
          IN Answer([t EXCEPT !.Services = SubSeq([@ EXCEPT ![i] = t.Services[n]], 1, n - 1)], Success)

RemoveService(t, msg) ==
  LET si == DeMarshallServiceInfo(msg)
  IN DeregisterService(t, si.lpServiceClassId, si.lpszServiceInstanceName)
-----------------------------------------------------------------------------
FirstIndexZero == 0
FirstIndex == -1

(* iIndex counts the places of Services from 0 as the code does.           *)
RegisterQuery(t, qs, owner) ==
  LET h == t.dwHandleValue + 1
  IN [t EXCEPT !.dwHandleValue = h,
               !.QueryInfo = Append(@, [hHandle |-> h, iIndex |-> FirstIndex,
                                        Query |-> qs.lpszServiceInstanceName, owner |-> owner])]

(* When the table is full the handle that is sent was never set: any       *)
(* value, 0 among them, which the DLL takes for an error.                  *)
LookupBegin(t, msg, owner) ==
  LET handles == IF Len(t.QueryInfo) >= MAX_QUERIES THEN 0..(MAX_QUERIES + 1) ELSE {t.dwHandleValue + 1}
      after == IF Len(t.QueryInfo) >= MAX_QUERIES THEN t
               ELSE RegisterQuery(t, DeMarshallServiceInfo(msg), owner)
  IN {Answer(after, [Success EXCEPT !.code = IF h = 0 THEN "error" ELSE "success", !.handle = h]) : h \in handles}

FindQuery(t, hQuery) == {q \in DOMAIN t.QueryInfo : t.QueryInfo[q].hHandle = hQuery}

Matches(pattern, name) == pattern = "*" \/ pattern = name

Advanced(t, q, i) == [t EXCEPT !.QueryInfo[q].iIndex = i]

(* The first match behind the place where the query stands.  A handle that *)
(* is not in the table makes the code use the memory in front of it: the   *)
(* result is an accident, or the service dies.                             *)
PerformQuery(t, hQuery) ==
  IF FindQuery(t, hQuery) = {} THEN {"crash", "no more", "not found"} \X {-1} \X {t}
  ELSE LET q == CHOOSE q \in FindQuery(t, hQuery) : TRUE
           info == t.QueryInfo[q]
           ahead == {i \in (info.iIndex + 1)..(Len(t.Services) - 1) :
                       Matches(info.Query, t.Services[i + 1].lpszServiceInstanceName)}
           i == CHOOSE i \in ahead : \A j \in ahead : i <= j
       IN IF info.Query = Null /\ info.iIndex + 1 < Len(t.Services) THEN {<<"crash", -1, t>>}
          ELSE IF ahead # {} THEN {<<"data", i, Advanced(t, q, i)>>}
          ELSE {<<IF info.iIndex = -1 THEN "not found" ELSE "no more", -1, t>>}

(* What was found is marshalled and sent; the DLL takes it apart again.    *)
LookupNext(t, hQuery) ==
  {LET found == IF res[2] = -1 THEN NoQuerySet
                ELSE DeMarshallServiceInfo(MarshallServiceInfo(t.Services[res[2] + 1]))
   IN IF res[1] = "crash" THEN Crash
      ELSE Answer(res[3], [code |-> res[1], handle |-> 0, from |-> found.lpcsaBuffer]) :
     res \in PerformQuery(t, hQuery)}

(* The last query moves into the place of the one that is deleted.         *)
DeleteQuery(t, hQuery) ==
  IF FindQuery(t, hQuery) = {} THEN Answer(t, Error)
  ELSE LET q == CHOOSE q \in FindQuery(t, hQuery) : TRUE
           n == Len(t.QueryInfo)
       IN Answer([t EXCEPT !.QueryInfo = SubSeq([@ EXCEPT ![q] = t.QueryInfo[n]], 1, n - 1)], Success)
-----------------------------------------------------------------------------
(* The switch of main.  A request carries its action, a marshalled         *)
(* structure or a guid or a handle, and who sent it; one request can have  *)
(* several outcomes where the code uses what it never set.                 *)
Handle(t, req) ==
  CASE req.action = "MYNSP_REGISTER_CLASS"       -> RegisterClass(t, req.msg)
    [] req.action = "MYNSP_DEREGISTER_CLASS"     -> {DeregisterServiceClass(t, req.guid)}
    [] req.action = "MYNSP_LOOKUP_CLASS"         -> {LookupClass(t, req.guid)}
    [] req.action = "MYNSP_REGISTER_SERVICE"     -> RegisterService(t, req.msg)
    [] req.action = "MYNSP_DEREGISTER_SERVICE"   -> {RemoveService(t, req.msg)}
    [] req.action = "MYNSP_LOOKUP_SERVICE_BEGIN" -> LookupBegin(t, req.msg, req.sender)
    [] req.action = "MYNSP_LOOKUP_SERVICE_NEXT"  -> LookupNext(t, req.handle)
    [] req.action = "MYNSP_LOOKUP_SERVICE_END"   -> {DeleteQuery(t, req.handle)}
    [] OTHER -> {Answer(t, Error)}

Actions == {"MYNSP_REGISTER_CLASS", "MYNSP_DEREGISTER_CLASS", "MYNSP_LOOKUP_CLASS",
            "MYNSP_REGISTER_SERVICE", "MYNSP_DEREGISTER_SERVICE", "MYNSP_LOOKUP_SERVICE_BEGIN",
            "MYNSP_LOOKUP_SERVICE_NEXT", "MYNSP_LOOKUP_SERVICE_END"}

(* readdata delivers what it was asked for unless the other end has gone:  *)
(* then the variables keep what they held.  The command is that of the     *)
(* request before, the buffer is zero, a handle is any value.              *)
Read(t, req) ==
  IF ~req.gone THEN {req}
  ELSE {[req EXCEPT !.action = a, !.msg = [fields |-> {}, bytes |-> <<>>],
                    !.guid = "garbage", !.handle = h] :
          h \in 0..MAX_QUERIES, a \in IF t.action = "unset" THEN Actions \cup {"unset"} ELSE {t.action}}

(* One turn of the loop; after an overrun it may be the last.              *)
Serve(t, req) ==
  UNION {Handle([t EXCEPT !.action = r.action], r) : r \in Read(t, req)}
    \cup (IF t.overrun THEN {Crash} ELSE {})
=============================================================================
