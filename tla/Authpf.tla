------------------------------- MODULE Authpf -------------------------------
(***************************************************************************)
(* authpf, the login shell that opens a packet filter for the address a    *)
(* user logs in from.  Sessions from one address (or, as authpf-noip, of   *)
(* one user) share a pid file: a new session kills the one that has the    *)
(* file locked and takes its place.  A file has an inode that outlives its *)
(* name while somebody has it open.                                        *)
(*                                                                         *)
(* One address is modelled.  Pids are in the order in which the sessions   *)
(* start and are not used again.  Sessions of other addresses only disturb *)
(* the walk through the rulesets.  A step of the packet filter is one step *)
(* here; what a session prints is left out.                                *)
(***************************************************************************)
EXTENDS Integers, Sequences, FiniteSets

CONSTANTS NSessions,
          LockTries,   \* 10 in the code
          User,        \* the passwd entry: [name, class, groups]
          Gateways,    \* what the files may say: [banned, allow, config]
          MaxFaults

VARIABLE authpf

Sessions == 1..NSessions
None == 0
Inodes == 1..(NSessions + 1)

AuthpfInit ==
  \E ip \in BOOLEAN :
    authpf = [user_ip |-> ip,
              pc |-> [p \in Sessions |-> "start"],
              pidfd |-> [p \in Sessions |-> None],
              otherpid |-> [p \in Sessions |-> None],
              lockcnt |-> [p \in Sessions |-> 0],
              want_death |-> [p \in Sessions |-> FALSE],
              pidfile |-> None,                       \* the inode of the name
              content |-> [i \in Inodes |-> None],    \* the pid it holds
              flock |-> [i \in Inodes |-> None],      \* who has it locked
              rulesets |-> {}, table |-> FALSE, states |-> FALSE,
              orphaned |-> FALSE, refused |-> FALSE, killed |-> FALSE, faults |-> 0]

At(p, place) == authpf.pc[p] = place
Alive(p) == authpf.pc[p] # "dead"
CanFail(a) == a.faults < MaxFaults
MayFail == CanFail(authpf)
Fault(a) == [a EXCEPT !.faults = @ + 1]

(* A file that has no name and is not open is gone.                        *)
Gone(a) == {i \in Inodes : i # a.pidfile /\ \A p \in Sessions : a.pidfd[p] # i}
Swept(a) == [a EXCEPT !.content = [i \in Inodes |-> IF i \in Gone(a) THEN None ELSE a.content[i]]]

Close(a, p) == Swept([a EXCEPT !.pidfd[p] = None])

(* exit closes the file and with it the lock.                              *)
Exit(a, p) ==
  [Close(a, p) EXCEPT !.pc[p] = "dead", !.otherpid[p] = None, !.lockcnt[p] = 0, !.want_death[p] = FALSE,
                      !.flock = [i \in Inodes |-> IF a.flock[i] = p THEN None ELSE a.flock[i]]]

(* do_death(0): the file is unlinked when there is one, open or not.       *)
DoDeath(a, p) == IF a.pidfd[p] = None THEN Exit(a, p) ELSE [a EXCEPT !.pc[p] = "unlink"]

(* The environment, the device, the user and the shell are looked at.      *)
Start(p) ==
  /\ At(p, "start") /\ \A q \in 1..(p - 1) : ~At(q, "start")
  /\ authpf' \in {DoDeath(authpf, p), [authpf EXCEPT !.pc[p] = "open"]}

NewInode == CHOOSE i \in Gone(authpf) : TRUE

(* open creates the file when there is none.  When fdopen fails pidfd is   *)
(* closed and keeps its value, so that the file is unlinked.               *)
OpenPidfile(p) ==
  LET i == IF authpf.pidfile = None THEN NewInode ELSE authpf.pidfile
      opened == [authpf EXCEPT !.pidfile = i, !.pidfd[p] = i]
  IN /\ At(p, "open")
     /\ \/ authpf' = [opened EXCEPT !.pc[p] = "flock"]
        \/ MayFail /\ authpf' = Fault(DoDeath(authpf, p))
        \/ MayFail /\ authpf' = Fault(DoDeath(opened, p))

(* A lock on a file that has lost its name excludes nobody.                *)
Flock(p) ==
  LET i == authpf.pidfd[p]
  IN /\ At(p, "flock")
     /\ IF authpf.flock[i] = None
        THEN authpf' = [authpf EXCEPT !.flock[i] = p, !.lockcnt[p] = 0, !.pc[p] = "checks",
                                      !.orphaned = @ \/ i # authpf.pidfile]
        ELSE authpf' = [authpf EXCEPT !.otherpid[p] = authpf.content[i], !.pc[p] = "kill"]

(* kill(otherpid, SIGTERM): need_death runs in a process that is alive.    *)
NeedDeath(a, q) == IF q = None \/ a.pc[q] = "dead" THEN a ELSE [a EXCEPT !.want_death[q] = TRUE]

KillOther(p) ==
  LET a == [NeedDeath(authpf, authpf.otherpid[p]) EXCEPT !.otherpid[p] = None]
      givesUp == a.want_death[p] \/ a.lockcnt[p] + 1 > LockTries
  IN /\ At(p, "kill")
     /\ authpf' = IF givesUp THEN [Close(a, p) EXCEPT !.lockcnt[p] = 0, !.pc[p] = "dogdeath"]
                  ELSE [a EXCEPT !.lockcnt[p] = @ + 1, !.pc[p] = "sleep"]

Reopen(p) ==
  /\ At(p, "sleep")
  /\ authpf' = [Close(authpf, p) EXCEPT !.pc[p] = "open"]

Dogdeath(p) ==
  /\ At(p, "dogdeath")
  /\ authpf' = DoDeath(authpf, p)

(* A user with a file in the directory of the banned is out, and so is one *)
(* with a file that cannot be opened.                                      *)
check_luser(banned) == banned = "absent"

(* "@class", "%group", a name, or "*" for everybody.                       *)
Matches(pw, line) ==
  \/ line.sign = "@" /\ line.is = pw.class
  \/ line.sign = "%" /\ line.is \in pw.groups
  \/ line.sign = "" /\ line.is \in {pw.name, "*"}

InvalidGroup(line) == line.sign = "%" /\ line.is = "no group"

(* The first line that matches, or names a group that does not exist,      *)
(* decides.  After the last line buf is NULL, and the message for the user *)
(* is written to it.                                                       *)
allowed_luser(pw, allow) ==
  LET Decides(i) == Matches(pw, allow.lines[i]) \/ InvalidGroup(allow.lines[i])
      first == {i \in DOMAIN allow.lines : Decides(i) /\ \A j \in 1..(i - 1) : ~Decides(j)}
  IN IF allow.st = "absent" \/ \E i \in first : Matches(pw, allow.lines[i]) THEN "yes"
     ELSE IF allow.st = "open" /\ first = {} THEN "crash"
     ELSE "no"

(* A line that is too long or is not a pair, or a name that does not fit,  *)
(* refuses the configuration; blank lines and comments are skipped.        *)
read_config(config) ==
  IF \E i \in DOMAIN config : config[i] \in {"too long", "no pair", "no name"} THEN 1 ELSE 0

(* Privileges are given up, then user and configuration are checked.       *)
(* Without memory for a last line that has no newline the process leaves   *)
(* through err, and its file stays.                                        *)
CheckUser(p) ==
  /\ At(p, "checks")
  /\ \/ MayFail /\ authpf' \in {Fault(DoDeath(authpf, p)), Fault(Exit(authpf, p))}
     \/ \E g \in Gateways :
          LET listed == allowed_luser(User, g.allow)
          IN authpf' = IF ~check_luser(g.banned) THEN DoDeath(authpf, p)
                       ELSE IF listed = "crash" THEN Exit(authpf, p)
                       ELSE IF listed = "no" \/ read_config(g.config) = 1 THEN DoDeath(authpf, p)
                       ELSE [authpf EXCEPT !.pc[p] = "stale"]

(* A slip: the rulesets of processes that do not exist are left.           *)
StaleWhenMine(a, p) == {q \in a.rulesets : q = p}

(* The rulesets of processes that do not exist, and the caller's own.      *)
Stale(a, p) == {q \in a.rulesets : a.pc[q] = "dead" \/ q = p}

recursive_ruleset_purge(a, names) == [a EXCEPT !.rulesets = @ \ names]

(* The walk goes down the numbers of the rulesets.  It stops at the first  *)
(* one that it cannot read or purge, and it may miss some, or find a       *)
(* number gone, when another address adds or removes a ruleset meanwhile.  *)
remove_stale_rulesets(a, p) ==
  {[a |-> recursive_ruleset_purge(a, Stale(a, p)), ret |-> 0]}
    \cup (IF CanFail(a)
          THEN [a : {Fault(recursive_ruleset_purge(a, names)) : names \in SUBSET Stale(a, p)}, ret : {0, 1}]
          ELSE {})

Refused(a, p) == [a EXCEPT !.refused = @ \/ Stale(a, p) # {}]

RemoveStale(p) ==
  /\ At(p, "stale")
  /\ \E r \in remove_stale_rulesets(authpf, p) :
       authpf' = IF r.ret = 0 THEN [Refused(r.a, p) EXCEPT !.pc[p] = "mark"] ELSE DoDeath(r.a, p)

MarkPid(p) ==
  /\ At(p, "mark")
  /\ authpf' = [authpf EXCEPT !.content[authpf.pidfd[p]] = p, !.pc[p] = "filter"]

(* pfctl loads the rules of the user.  One that ends abnormally has loaded *)
(* nothing, or has committed them: do_death(0) leaves those there.         *)
AddFilter(p) ==
  /\ At(p, "filter")
  /\ \/ authpf' = [authpf EXCEPT !.rulesets = @ \cup {p},
                                 !.pc[p] = IF authpf.user_ip THEN "table" ELSE "active"]
     \/ MayFail /\ authpf' = Fault(DoDeath(authpf, p))
     \/ MayFail /\ authpf' = [Fault(DoDeath(authpf, p)) EXCEPT !.rulesets = @ \cup {p}, !.refused = TRUE]

(* change_filter(0) ignores what remove_stale_rulesets returns.            *)
RemoveFilter(a, p) == {Refused(r.a, p) : r \in remove_stale_rulesets(a, p)}

(* The address enters the table; without it the rules go again, and the    *)
(* states they have let in stay.  That there is no such table (ESRCH) is   *)
(* taken for success.                                                      *)
AddTable(p) ==
  /\ At(p, "table")
  /\ \/ authpf' = [authpf EXCEPT !.table = TRUE, !.pc[p] = "active"]
     \/ MayFail /\ authpf' = [Fault(authpf) EXCEPT !.refused = TRUE, !.pc[p] = "active"]
     \/ MayFail /\ \E a \in RemoveFilter(Fault(authpf), p) :
                     authpf' = DoDeath([a EXCEPT !.refused = @ \/ a.states], p)

(* It looks at want_death every ten seconds, or when a signal wakes it.    *)
Wakes(p) ==
  /\ At(p, "active") /\ authpf.want_death[p]
  /\ \E a \in RemoveFilter(authpf, p) :
       authpf' = [a EXCEPT !.pc[p] = IF a.user_ip THEN "untable" ELSE "unlink"]

(* change_table(0): the address leaves the table.                          *)
RemoveTable(p) ==
  /\ At(p, "untable")
  /\ \/ authpf' = [authpf EXCEPT !.table = FALSE, !.pc[p] = "states"]
     \/ MayFail /\ authpf' = [Fault(authpf) EXCEPT !.refused = TRUE, !.pc[p] = "states"]

(* authpf_kill_states, once no new ones can be let in.                     *)
KillStates(p) ==
  /\ At(p, "states")
  /\ \/ authpf' = [authpf EXCEPT !.states = FALSE, !.pc[p] = "unlink"]
     \/ MayFail /\ authpf' = [Fault(authpf) EXCEPT !.refused = TRUE, !.pc[p] = "unlink"]

(* Whatever has the name is unlinked, unless unlink is refused; the lock   *)
(* goes with the process.                                                  *)
UnlinkPidfile(p) ==
  /\ At(p, "unlink")
  /\ \/ authpf' = [authpf EXCEPT !.pidfile = None, !.pc[p] = "exit",
                                 !.orphaned = @ \/ (authpf.pidfile # None
                                                      /\ authpf.flock[authpf.pidfile] \notin {None, p})]
     \/ MayFail /\ authpf' = [Fault(authpf) EXCEPT !.pc[p] = "exit"]

ExitProcess(p) == At(p, "exit") /\ authpf' = Exit(authpf, p)

(* External: the user logs out or the connection breaks.                   *)
Hangup(p) ==
  /\ Alive(p) /\ authpf.pc[p] \notin {"start", "unlink", "exit"} /\ ~authpf.want_death[p]
  /\ authpf' = NeedDeath(authpf, p)

(* External: the process is killed without a chance to clean up.           *)
Kill(p) ==
  /\ Alive(p) /\ ~At(p, "start") /\ MayFail
  /\ authpf' = [Fault(Exit(authpf, p)) EXCEPT !.killed = TRUE]

(* External: the rules let connections in.                                 *)
Traffic ==
  /\ authpf.rulesets # {} /\ ~authpf.states
  /\ authpf' = [authpf EXCEPT !.states = TRUE]

AuthpfNext ==
  \/ Traffic
  \/ \E p \in Sessions :
    \/ Start(p) \/ OpenPidfile(p) \/ Flock(p) \/ KillOther(p) \/ Reopen(p) \/ Dogdeath(p)
    \/ CheckUser(p) \/ RemoveStale(p) \/ MarkPid(p) \/ AddFilter(p) \/ AddTable(p)
    \/ Wakes(p) \/ RemoveTable(p) \/ KillStates(p) \/ UnlinkPidfile(p) \/ ExitProcess(p)
    \/ Hangup(p) \/ Kill(p)
-----------------------------------------------------------------------------
(* A session that says "You are authenticated" has its access, and nobody  *)
(* else has: its rules and the address in the table are there although     *)
(* other sessions start, give up, crash, are killed and clean up, no other *)
(* session's rules are left, and access ends with the session, that of     *)
(* connections under way too where the session opens an address: do_death  *)
(* kills no states of an authpf-noip session (StatesEnd).  It is given up  *)
(* once a session has locked a file without a name or unlinked the file of *)
(* another, the packet filter has refused what was to enter the table or   *)
(* to leave it, or pfctl has ended abnormally after its commit.            *)
AccessIsOwned ==
  LET Serving == {"table", "active", "untable", "states"}
  IN ~authpf.orphaned /\ ~authpf.refused =>
    /\ \A p \in Sessions :
         At(p, "active") => authpf.rulesets = {p} /\ authpf.table = authpf.user_ip
    /\ (authpf.table \/ authpf.rulesets # {} \/ (authpf.states /\ authpf.user_ip)) /\ ~authpf.killed =>
         \E p \in Sessions : authpf.pc[p] \in Serving

(* "If someone else is already using this ip, then this person wants to    *)
(* switch users - so kill the old process": at most one session has the    *)
(* address.                                                                *)
OneSession == Cardinality({p \in Sessions : At(p, "active")}) <= 1

(* "we don't have to worry about any luser sessions lasting longer than    *)
(* their ssh session" (authpf_kill_states): of authpf-noip it is not true, *)
(* whose states do_death does not kill, even if nothing fails.             *)
StatesEnd == authpf.states /\ authpf.faults = 0 => \E p \in Sessions : Alive(p)
=============================================================================
