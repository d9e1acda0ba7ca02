-------------------------- MODULE NfpListenerProofs --------------------------
(***************************************************************************)
(* Proofs about NfpListener, for any number of pool threads and accepts    *)
(* and whichever calls fail.                                               *)
(*                                                                         *)
(* No lock protects the listener.  What does is a turn: the outstanding    *)
(* accept, then the callback that handles it until that has started the    *)
(* next (TurnInv).  A stop by the thread that has the turn ends it; a stop *)
(* by Main waits for its end, if Main does not take itself for a callback  *)
(* (hence ~StaleId from EndInv on); and no turn begins after that.         *)
(***************************************************************************)
EXTENDS NfpListener, TLAPS

Quiet    == {"idle", "return"}
Starting == {"unbound", "bound", "socket", "io", "accept"}
Handling == {"hand", "validating", "close", "socket", "io", "accept"}
Ending   == {"validator", "client", "forget", "ended"}

\* Somebody has the turn and has not given it up to stop.
Alive == accept # "none" \/ \E t \in Threads : pc[t] \in Handling

(***************************************************************************)
(* One turn: an accept, or one callback, or Main before the first accept.  *)
(***************************************************************************)
TurnInv ==
  /\ pc \in [Threads -> Places]
  /\ pc[Main] \notin {"hand", "validating", "close"}
  /\ accept \in {"none", "pending", "ok", "short", "failed"}
  /\ accept # "none" => /\ pc[Main] \notin Starting
                        /\ \A w \in Workers : pc[w] \in Quiet
  /\ \A v, w \in Workers : pc[v] \notin Quiet /\ pc[w] \notin Quiet => v = w
  /\ pc[Main] \in Starting => \A w \in Workers : pc[w] = "idle"

(***************************************************************************)
(* The PTP_IO named by _ThreadpoolIo is open, and so is one that a thread  *)
(* has read from there for its AcceptEx.                                   *)
(***************************************************************************)
IoInv ==
  /\ _ThreadpoolIo \in BOOLEAN
  /\ _ThreadpoolThreadId = Main => \A w \in Workers : pc[w] = "idle"
  /\ _ThreadpoolIo => io = "open"
  /\ \A t \in Threads : pc[t] = "wait" => ~_ThreadpoolIo
  /\ IoOpenWhenUsed

(***************************************************************************)
(* The turn is over when a StopAccepting is past its wait, or was spared   *)
(* the wait; until then the validator is there.                            *)
(***************************************************************************)
EndInv ==
  /\ _ThreadpoolThreadId # Main
  /\ ~_ThreadpoolIo /\ pc[Main] # "wait" => ~Alive
  /\ \A t \in Threads : pc[t] \in Ending => ~Alive
  /\ _pValidator \in BOOLEAN
  /\ Alive => _pValidator

(***************************************************************************)
(* What _ClientSocket names, depending on who has the turn.                *)
(***************************************************************************)
SocketInv ==
  /\ _ClientSocket \in handed => \E w \in Workers : pc[w] = "validating"
  /\ _ClientSocket \in closed => \E t \in Threads : pc[t] = "forget"
  /\ accept = "failed" => _ClientSocket \in aborted
  /\ accept # "none" => _ClientSocket # INVALID_SOCKET
  /\ pc[Main] \in {"unbound", "bound"} => _ClientSocket = INVALID_SOCKET
  /\ \A t \in Threads :
       /\ pc[t] \in {"hand", "close", "io", "accept"} =>
            _ClientSocket # INVALID_SOCKET
       /\ pc[t] = "validating" => _ClientSocket \in handed
       /\ pc[t] = "socket" =>
            _ClientSocket \in aborted \cup {INVALID_SOCKET}
       /\ pc[t] = "forget" =>
            _ClientSocket \in closed \cup {INVALID_SOCKET}

(***************************************************************************)
(* While Main does not stop, the turn ends only with a failure.            *)
(***************************************************************************)
KeepInv ==
  pc[Main] = "accepting" =>
    \/ Alive \/ starved \/ ~_pValidator
    \/ \E w \in Workers :
         pc[w] \in {"stop", "exchange", "wait", "validator"}

-----------------------------------------------------------------------------
(***************************************************************************)
(* StartCallback takes the turn from the accept, AcceptEx gives it back.   *)
(***************************************************************************)
LEMMA NextTurn ==
  ASSUME TurnInv, [Next]_vars
  PROVE  TurnInv'
<1> USE ThreadsAssumption, ChoicesAssumption
    DEF TurnInv, Places, Quiet, Starting, Threads
<1>1. ASSUME Bind
      PROVE  TurnInv'
  BY <1>1 DEF Bind, pool, history, Goto
<1>2. ASSUME EnableAccepting
      PROVE  TurnInv'
  BY <1>2 DEF EnableAccepting, history, Goto
<1>3. ASSUME BeginStop
      PROVE  TurnInv'
  BY <1>3 DEF BeginStop, fields, pool, history, Goto
<1>4. ASSUME AcceptCompletes
      PROVE  TurnInv'
  BY <1>4 DEF AcceptCompletes, fields
<1>5. ASSUME NEW w \in Workers, StartCallback(w)
      PROVE  TurnInv'
  BY <1>5 DEF StartCallback, history, Goto
<1>6. ASSUME NEW w \in Workers, ValidateAccept(w)
      PROVE  TurnInv'
  BY <1>6 DEF ValidateAccept, fields, pool, Goto
<1>7. ASSUME NEW w \in Workers, ValidateReturns(w)
      PROVE  TurnInv'
  BY <1>7 DEF ValidateReturns, pool, history, Goto
<1>8. ASSUME NEW w \in Workers, WrongHeaderSize(w)
      PROVE  TurnInv'
  BY <1>8 DEF WrongHeaderSize, pool, Goto
<1>9. ASSUME NEW w \in Workers, ReturnCallback(w)
      PROVE  TurnInv'
  BY <1>9 DEF ReturnCallback, pool, history, Goto
<1>10. ASSUME NEW t \in Threads, BeginAcceptSocket(t)
      PROVE  TurnInv'
  BY <1>10 DEF BeginAcceptSocket, pool, Failed, Goto
<1>11. ASSUME NEW t \in Threads, BeginAcceptIo(t)
      PROVE  TurnInv'
  BY <1>11 DEF BeginAcceptIo, fields, pool, history, Begun, Goto
<1>12. ASSUME NEW t \in Threads, BeginAcceptEx(t)
      PROVE  TurnInv'
  BY <1>12 DEF BeginAcceptEx, fields, history, Begun, Goto
<1>13. ASSUME NEW t \in Threads, StopListenSocket(t)
      PROVE  TurnInv'
  BY <1>13 DEF StopListenSocket, pool, history, Goto
<1>14. ASSUME NEW t \in Threads, StopExchangeIo(t)
      PROVE  TurnInv'
  BY <1>14 DEF StopExchangeIo, history, Goto
<1>15. ASSUME NEW t \in Threads, StopWait(t)
      PROVE  TurnInv'
  BY <1>15 DEF StopWait, fields, history, CallbacksDone, Goto
<1>16. ASSUME NEW t \in Threads, StopValidator(t)
      PROVE  TurnInv'
  BY <1>16 DEF StopValidator, pool, history, Goto
<1>17. ASSUME NEW t \in Threads, StopCloseClient(t)
      PROVE  TurnInv'
  BY <1>17 DEF StopCloseClient, fields, pool, Goto
<1>18. ASSUME NEW t \in Threads, StopForgetClient(t)
      PROVE  TurnInv'
  BY <1>18 DEF StopForgetClient, pool, history, Goto
<1>19. ASSUME NEW t \in Threads, StopReturns(t)
      PROVE  TurnInv'
  BY <1>19 DEF StopReturns, fields, pool, history, Goto
<1>20. CASE UNCHANGED vars
  BY <1>20 DEF vars, fields, pool, history
<1> QED
  BY <1>1, <1>2, <1>3, <1>4, <1>5, <1>6, <1>7, <1>8, <1>9,
     <1>10, <1>11, <1>12, <1>13, <1>14, <1>15, <1>16, <1>17, <1>18,
     <1>19, <1>20
     DEF Next, BeginAccept, StopAccepting, AcceptThreadProc

(***************************************************************************)
(* Only a thread that has the turn, or one that has waited for its end,    *)
(* closes the PTP_IO.                                                      *)
(***************************************************************************)
LEMMA NextIo ==
  ASSUME TurnInv, IoInv, [Next]_vars
  PROVE  IoInv'
<1> USE ThreadsAssumption, ChoicesAssumption
    DEF IoInv, TurnInv, IoOpenWhenUsed, Places, Quiet, Starting, Threads
<1>1. ASSUME Bind
      PROVE  IoInv'
  BY <1>1 DEF Bind, pool, history, Goto
<1>2. ASSUME EnableAccepting
      PROVE  IoInv'
  <2>1. pc[Main] = "bound" /\ \A w \in Workers : pc[w] = "idle" /\ w # Main
    BY <1>2 DEF EnableAccepting
  <2>2. /\ \A w \in Workers : pc'[w] = "idle"
        /\ pc'[Main] \in {"refused", "socket"}
    BY <1>2, <2>1 DEF EnableAccepting, Goto
  <2>3. /\ _ThreadpoolIo' \in BOOLEAN
        /\ _ThreadpoolIo' => io' = "open"
    <3>1. \/ _ThreadpoolIo' = _ThreadpoolIo /\ io' = io
          \/ _ThreadpoolIo' = TRUE /\ io' = "open"
      BY <1>2 DEF EnableAccepting
    <3>2. CASE _ThreadpoolIo' = _ThreadpoolIo /\ io' = io
      BY <3>2
    <3>3. CASE _ThreadpoolIo' = TRUE /\ io' = "open"
      BY <3>3
    <3> QED BY <3>1, <3>2, <3>3
  <2> QED BY <2>2, <2>3
<1>3. ASSUME BeginStop
      PROVE  IoInv'
  BY <1>3 DEF BeginStop, fields, pool, history, Goto
<1>4. ASSUME AcceptCompletes
      PROVE  IoInv'
  BY <1>4 DEF AcceptCompletes, fields
<1>5. ASSUME NEW w \in Workers, StartCallback(w)
      PROVE  IoInv'
  BY <1>5 DEF StartCallback, history, Goto
<1>6. ASSUME NEW w \in Workers, ValidateAccept(w)
      PROVE  IoInv'
  BY <1>6 DEF ValidateAccept, fields, pool, Goto
<1>7. ASSUME NEW w \in Workers, ValidateReturns(w)
      PROVE  IoInv'
  BY <1>7 DEF ValidateReturns, pool, history, Goto
<1>8. ASSUME NEW w \in Workers, WrongHeaderSize(w)
      PROVE  IoInv'
  BY <1>8 DEF WrongHeaderSize, pool, Goto
<1>9. ASSUME NEW w \in Workers, ReturnCallback(w)
      PROVE  IoInv'
  BY <1>9 DEF ReturnCallback, pool, history, Goto
<1>10. ASSUME NEW t \in Threads, BeginAcceptSocket(t)
      PROVE  IoInv'
  BY <1>10 DEF BeginAcceptSocket, pool, Failed, Goto
<1>11. ASSUME NEW t \in Threads, BeginAcceptIo(t)
      PROVE  IoInv'
  BY <1>11 DEF BeginAcceptIo, fields, pool, history, Begun, Goto
<1>12. ASSUME NEW t \in Threads, BeginAcceptEx(t)
      PROVE  IoInv'
  BY <1>12 DEF BeginAcceptEx, fields, history, Begun, Goto
<1>13. ASSUME NEW t \in Threads, StopListenSocket(t)
      PROVE  IoInv'
  BY <1>13 DEF StopListenSocket, pool, history, Goto
<1>14. ASSUME NEW t \in Threads, StopExchangeIo(t)
      PROVE  IoInv'
  BY <1>14 DEF StopExchangeIo, history, Goto
<1>15. ASSUME NEW t \in Threads, StopWait(t)
      PROVE  IoInv'
  BY <1>15 DEF StopWait, fields, history, CallbacksDone, Goto
<1>16. ASSUME NEW t \in Threads, StopValidator(t)
      PROVE  IoInv'
  BY <1>16 DEF StopValidator, pool, history, Goto
<1>17. ASSUME NEW t \in Threads, StopCloseClient(t)
      PROVE  IoInv'
  BY <1>17 DEF StopCloseClient, fields, pool, Goto
<1>18. ASSUME NEW t \in Threads, StopForgetClient(t)
      PROVE  IoInv'
  BY <1>18 DEF StopForgetClient, pool, history, Goto
<1>19. ASSUME NEW t \in Threads, StopReturns(t)
      PROVE  IoInv'
  BY <1>19 DEF StopReturns, fields, pool, history, Goto
<1>20. CASE UNCHANGED vars
  BY <1>20 DEF vars, fields, pool, history
<1> QED
  BY <1>1, <1>2, <1>3, <1>4, <1>5, <1>6, <1>7, <1>8, <1>9,
     <1>10, <1>11, <1>12, <1>13, <1>14, <1>15, <1>16, <1>17, <1>18,
     <1>19, <1>20
     DEF Next, BeginAccept, StopAccepting, AcceptThreadProc

(***************************************************************************)
(* A StopAccepting that finds _ThreadpoolIo taken goes on without a wait;  *)
(* whoever took it had the turn, or is Main and waits.                     *)
(***************************************************************************)
LEMMA NextEnd ==
  ASSUME ~StaleId,
         TurnInv, IoInv, EndInv, [Next]_vars
  PROVE  EndInv'
<1> USE ThreadsAssumption, ChoicesAssumption
    DEF EndInv, IoInv, TurnInv, Alive, Places, Quiet, Starting, Handling,
        Ending, Threads
<1>1. ASSUME Bind
      PROVE  EndInv'
  BY <1>1 DEF Bind, pool, history, Goto
<1>2. ASSUME EnableAccepting
      PROVE  EndInv'
  BY <1>2 DEF EnableAccepting, history, Goto
<1>3. ASSUME BeginStop
      PROVE  EndInv'
  BY <1>3 DEF BeginStop, fields, pool, history, Goto
<1>4. ASSUME AcceptCompletes
      PROVE  EndInv'
  BY <1>4 DEF AcceptCompletes, fields
<1>5. ASSUME NEW w \in Workers, StartCallback(w)
      PROVE  EndInv'
  BY <1>5 DEF StartCallback, history, Goto
<1>6. ASSUME NEW w \in Workers, ValidateAccept(w)
      PROVE  EndInv'
  BY <1>6 DEF ValidateAccept, fields, pool, Goto
<1>7. ASSUME NEW w \in Workers, ValidateReturns(w)
      PROVE  EndInv'
  BY <1>7 DEF ValidateReturns, pool, history, Goto
<1>8. ASSUME NEW w \in Workers, WrongHeaderSize(w)
      PROVE  EndInv'
  BY <1>8 DEF WrongHeaderSize, pool, Goto
<1>9. ASSUME NEW w \in Workers, ReturnCallback(w)
      PROVE  EndInv'
  BY <1>9 DEF ReturnCallback, pool, history, Goto
<1>10. ASSUME NEW t \in Threads, BeginAcceptSocket(t)
      PROVE  EndInv'
  BY <1>10 DEF BeginAcceptSocket, pool, Failed, Goto
<1>11. ASSUME NEW t \in Threads, BeginAcceptIo(t)
      PROVE  EndInv'
  BY <1>11 DEF BeginAcceptIo, fields, pool, history, Begun, Goto
<1>12. ASSUME NEW t \in Threads, BeginAcceptEx(t)
      PROVE  EndInv'
  BY <1>12 DEF BeginAcceptEx, fields, history, Begun, Goto
<1>13. ASSUME NEW t \in Threads, StopListenSocket(t)
      PROVE  EndInv'
  BY <1>13 DEF StopListenSocket, pool, history, Goto
<1>14. ASSUME NEW t \in Threads, StopExchangeIo(t)
      PROVE  EndInv'
  <2> USE <1>14 DEF StopExchangeIo, history, Goto
  <2>1. Alive' <=> Alive
    OBVIOUS
  <2>2. CASE t = Main
    <3>1. pc'[Main] = "wait" \/ (pc'[Main] = "validator" /\ ~Alive)
      BY <2>2
    <3> QED BY <2>1, <2>2, <3>1
  <2>3. CASE t \in Workers
    <3>1. ~Alive
      BY <2>3
    <3> QED BY <2>1, <2>3, <3>1
  <2> QED BY <2>2, <2>3
<1>15. ASSUME NEW t \in Threads, StopWait(t)
      PROVE  EndInv'
  BY <1>15 DEF StopWait, fields, history, CallbacksDone, Goto
<1>16. ASSUME NEW t \in Threads, StopValidator(t)
      PROVE  EndInv'
  BY <1>16 DEF StopValidator, pool, history, Goto
<1>17. ASSUME NEW t \in Threads, StopCloseClient(t)
      PROVE  EndInv'
  BY <1>17 DEF StopCloseClient, fields, pool, Goto
<1>18. ASSUME NEW t \in Threads, StopForgetClient(t)
      PROVE  EndInv'
  BY <1>18 DEF StopForgetClient, pool, history, Goto
<1>19. ASSUME NEW t \in Threads, StopReturns(t)
      PROVE  EndInv'
  BY <1>19 DEF StopReturns, fields, pool, history, Goto
<1>20. CASE UNCHANGED vars
  BY <1>20 DEF vars, fields, pool, history
<1> QED
  BY <1>1, <1>2, <1>3, <1>4, <1>5, <1>6, <1>7, <1>8, <1>9,
     <1>10, <1>11, <1>12, <1>13, <1>14, <1>15, <1>16, <1>17, <1>18,
     <1>19, <1>20
     DEF Next, BeginAccept, StopAccepting, AcceptThreadProc

(***************************************************************************)
(* A socket is handed over or closed only while _ClientSocket names one.   *)
(***************************************************************************)
LEMMA NextType ==
  ASSUME TurnInv, EndInv, SocketInv, TypeOK, [Next]_vars
  PROVE  TypeOK'
<1> USE ThreadsAssumption, ChoicesAssumption
    DEF TypeOK, TurnInv, SocketInv, INVALID_SOCKET, Places, Quiet, Starting,
        Handling, Ending, Threads
<1>1. ASSUME Bind
      PROVE  TypeOK'
  BY <1>1 DEF Bind, pool, history, Goto
<1>2. ASSUME EnableAccepting
      PROVE  TypeOK'
  BY <1>2 DEF EnableAccepting, history, Goto
<1>3. ASSUME BeginStop
      PROVE  TypeOK'
  BY <1>3 DEF BeginStop, fields, pool, history, Goto
<1>4. ASSUME AcceptCompletes
      PROVE  TypeOK'
  BY <1>4 DEF AcceptCompletes, fields
<1>5. ASSUME NEW w \in Workers, StartCallback(w)
      PROVE  TypeOK'
  BY <1>5 DEF StartCallback, history, Goto
<1>6. ASSUME NEW w \in Workers, ValidateAccept(w)
      PROVE  TypeOK'
  BY <1>6 DEF ValidateAccept, fields, pool, Goto
<1>7. ASSUME NEW w \in Workers, ValidateReturns(w)
      PROVE  TypeOK'
  BY <1>7 DEF ValidateReturns, pool, history, Goto
<1>8. ASSUME NEW w \in Workers, WrongHeaderSize(w)
      PROVE  TypeOK'
  BY <1>8 DEF WrongHeaderSize, pool, Goto
<1>9. ASSUME NEW w \in Workers, ReturnCallback(w)
      PROVE  TypeOK'
  BY <1>9 DEF ReturnCallback, pool, history, Goto
<1>10. ASSUME NEW t \in Threads, BeginAcceptSocket(t)
      PROVE  TypeOK'
  <2> USE <1>10 DEF BeginAcceptSocket, pool, Failed, Goto
  <2>1. made' \in {made, made + 1} /\ _ClientSocket' \in {0, made'}
    OBVIOUS
  <2>2. made' \in Nat /\ _ClientSocket' \in 0 .. made'
    BY <2>1
  <2>3. 1 .. made \subseteq 1 .. made'
    BY <2>1
  <2>4. /\ handed' \subseteq 1 .. made'
        /\ closed' \subseteq 1 .. made'
        /\ aborted' \subseteq 1 .. made'
    BY <2>3
  <2>5. pc' \in [Threads -> Places] /\ starved' \in BOOLEAN
    OBVIOUS
  <2> QED BY <2>2, <2>4, <2>5
<1>11. ASSUME NEW t \in Threads, BeginAcceptIo(t)
      PROVE  TypeOK'
  BY <1>11 DEF BeginAcceptIo, fields, pool, history, Begun, Goto
<1>12. ASSUME NEW t \in Threads, BeginAcceptEx(t)
      PROVE  TypeOK'
  BY <1>12 DEF BeginAcceptEx, fields, history, Begun, Goto
<1>13. ASSUME NEW t \in Threads, StopListenSocket(t)
      PROVE  TypeOK'
  BY <1>13 DEF StopListenSocket, pool, history, Goto
<1>14. ASSUME NEW t \in Threads, StopExchangeIo(t)
      PROVE  TypeOK'
  BY <1>14 DEF StopExchangeIo, history, Goto
<1>15. ASSUME NEW t \in Threads, StopWait(t)
      PROVE  TypeOK'
  BY <1>15 DEF StopWait, fields, history, CallbacksDone, Goto
<1>16. ASSUME NEW t \in Threads, StopValidator(t)
      PROVE  TypeOK'
  BY <1>16 DEF StopValidator, pool, history, Goto
<1>17. ASSUME NEW t \in Threads, StopCloseClient(t)
      PROVE  TypeOK'
  BY <1>17 DEF StopCloseClient, fields, pool, Goto
<1>18. ASSUME NEW t \in Threads, StopForgetClient(t)
      PROVE  TypeOK'
  BY <1>18 DEF StopForgetClient, pool, history, Goto
<1>19. ASSUME NEW t \in Threads, StopReturns(t)
      PROVE  TypeOK'
  BY <1>19 DEF StopReturns, fields, pool, history, Goto
<1>20. CASE UNCHANGED vars
  BY <1>20 DEF vars, fields, pool, history
<1> QED
  BY <1>1, <1>2, <1>3, <1>4, <1>5, <1>6, <1>7, <1>8, <1>9,
     <1>10, <1>11, <1>12, <1>13, <1>14, <1>15, <1>16, <1>17, <1>18,
     <1>19, <1>20
     DEF Next, BeginAccept, StopAccepting, AcceptThreadProc

(***************************************************************************)
(* The thread that has the turn is the only one that gives _ClientSocket a *)
(* new value; once the turn is over every StopAccepting may close and      *)
(* forget it.                                                              *)
(***************************************************************************)
LEMMA NextSocket ==
  ASSUME TurnInv, EndInv, TypeOK, SocketInv, [Next]_vars
  PROVE  SocketInv'
<1> USE ThreadsAssumption, ChoicesAssumption
    DEF SocketInv, EndInv, TurnInv, TypeOK, Alive, INVALID_SOCKET, Places,
        Quiet, Starting, Handling, Ending, Threads
<1>1. ASSUME Bind
      PROVE  SocketInv'
  BY <1>1 DEF Bind, pool, history, Goto
<1>2. ASSUME EnableAccepting
      PROVE  SocketInv'
  BY <1>2 DEF EnableAccepting, history, Goto
<1>3. ASSUME BeginStop
      PROVE  SocketInv'
  BY <1>3 DEF BeginStop, fields, pool, history, Goto
<1>4. ASSUME AcceptCompletes
      PROVE  SocketInv'
  BY <1>4 DEF AcceptCompletes, fields
<1>5. ASSUME NEW w \in Workers, StartCallback(w)
      PROVE  SocketInv'
  BY <1>5 DEF StartCallback, history, Goto
<1>6. ASSUME NEW w \in Workers, ValidateAccept(w)
      PROVE  SocketInv'
  BY <1>6 DEF ValidateAccept, fields, pool, Goto
<1>7. ASSUME NEW w \in Workers, ValidateReturns(w)
      PROVE  SocketInv'
  <2> USE <1>7 DEF ValidateReturns, pool, history, Goto
  <2>1. _ClientSocket' = 0 /\ 0 \notin handed' /\ 0 \notin closed'
    OBVIOUS
  <2>2. accept' = "none" /\ pc'[Main] \notin Starting
    OBVIOUS
  <2>3. \A t \in Threads :
          pc'[t] \notin {"hand", "close", "io", "accept", "validating"}
    OBVIOUS
  <2> QED BY <2>1, <2>2, <2>3
<1>8. ASSUME NEW w \in Workers, WrongHeaderSize(w)
      PROVE  SocketInv'
  <2> USE <1>8 DEF WrongHeaderSize, pool, Goto
  <2>1. _ClientSocket' = 0 /\ 0 \notin handed'
    OBVIOUS
  <2>2. 0 \notin closed'
    OBVIOUS
  <2>3. accept' = "none" /\ pc'[Main] \notin Starting
    OBVIOUS
  <2>4. \A t \in Threads :
          pc'[t] \notin {"hand", "close", "io", "accept", "validating"}
    OBVIOUS
  <2> QED BY <2>1, <2>2, <2>3, <2>4
<1>9. ASSUME NEW w \in Workers, ReturnCallback(w)
      PROVE  SocketInv'
  BY <1>9 DEF ReturnCallback, pool, history, Goto
<1>10. ASSUME NEW t \in Threads, BeginAcceptSocket(t)
      PROVE  SocketInv'
  <2> USE <1>10 DEF BeginAcceptSocket, pool, Failed, Goto
  <2>1. _ClientSocket' \in {0, made + 1}
    OBVIOUS
  <2>2. _ClientSocket' \notin handed' /\ _ClientSocket' \notin closed'
    BY <2>1
  <2>3. accept' = "none" /\ pc'[Main] \notin {"unbound", "bound"}
    OBVIOUS
  <2>4. /\ \A u \in Threads : u # t => pc'[u] \notin Handling \cup Ending
        /\ pc'[t] \in {"io", "refused", "return"}
        /\ pc'[t] = "io" => _ClientSocket' = made + 1
    OBVIOUS
  <2> QED BY <2>2, <2>3, <2>4
<1>11. ASSUME NEW t \in Threads, BeginAcceptIo(t)
      PROVE  SocketInv'
  BY <1>11 DEF BeginAcceptIo, fields, pool, history, Begun, Goto
<1>12. ASSUME NEW t \in Threads, BeginAcceptEx(t)
      PROVE  SocketInv'
  BY <1>12 DEF BeginAcceptEx, fields, history, Begun, Goto
<1>13. ASSUME NEW t \in Threads, StopListenSocket(t)
      PROVE  SocketInv'
  BY <1>13 DEF StopListenSocket, pool, history, Goto
<1>14. ASSUME NEW t \in Threads, StopExchangeIo(t)
      PROVE  SocketInv'
  BY <1>14 DEF StopExchangeIo, history, Goto
<1>15. ASSUME NEW t \in Threads, StopWait(t)
      PROVE  SocketInv'
  BY <1>15 DEF StopWait, fields, history, CallbacksDone, Goto
<1>16. ASSUME NEW t \in Threads, StopValidator(t)
      PROVE  SocketInv'
  BY <1>16 DEF StopValidator, pool, history, Goto
<1>17. ASSUME NEW t \in Threads, StopCloseClient(t)
      PROVE  SocketInv'
  BY <1>17 DEF StopCloseClient, fields, pool, Goto
<1>18. ASSUME NEW t \in Threads, StopForgetClient(t)
      PROVE  SocketInv'
  BY <1>18 DEF StopForgetClient, pool, history, Goto
<1>19. ASSUME NEW t \in Threads, StopReturns(t)
      PROVE  SocketInv'
  BY <1>19 DEF StopReturns, fields, pool, history, Goto
<1>20. CASE UNCHANGED vars
  BY <1>20 DEF vars, fields, pool, history
<1> QED
  BY <1>1, <1>2, <1>3, <1>4, <1>5, <1>6, <1>7, <1>8, <1>9,
     <1>10, <1>11, <1>12, <1>13, <1>14, <1>15, <1>16, <1>17, <1>18,
     <1>19, <1>20
     DEF Next, BeginAccept, StopAccepting, AcceptThreadProc

(***************************************************************************)
(* Nobody closes while a callback is handing over, and a socket is closed  *)
(* before it is handed over only when the turn is over.                    *)
(***************************************************************************)
LEMMA NextHanded ==
  ASSUME TurnInv, EndInv, TypeOK, SocketInv, HandedStaysOpen, [Next]_vars
  PROVE  HandedStaysOpen'
<1> USE ThreadsAssumption, ChoicesAssumption
    DEF HandedStaysOpen, SocketInv, EndInv, TurnInv, TypeOK, Alive,
        INVALID_SOCKET, Places, Quiet, Starting, Handling, Ending, Threads
<1>1. ASSUME Bind
      PROVE  HandedStaysOpen'
  BY <1>1 DEF Bind, pool, history, Goto
<1>2. ASSUME EnableAccepting
      PROVE  HandedStaysOpen'
  BY <1>2 DEF EnableAccepting, history, Goto
<1>3. ASSUME BeginStop
      PROVE  HandedStaysOpen'
  BY <1>3 DEF BeginStop, fields, pool, history, Goto
<1>4. ASSUME AcceptCompletes
      PROVE  HandedStaysOpen'
  BY <1>4 DEF AcceptCompletes, fields
<1>5. ASSUME NEW w \in Workers, StartCallback(w)
      PROVE  HandedStaysOpen'
  BY <1>5 DEF StartCallback, history, Goto
<1>6. ASSUME NEW w \in Workers, ValidateAccept(w)
      PROVE  HandedStaysOpen'
  BY <1>6 DEF ValidateAccept, fields, pool, Goto
<1>7. ASSUME NEW w \in Workers, ValidateReturns(w)
      PROVE  HandedStaysOpen'
  BY <1>7 DEF ValidateReturns, pool, history, Goto
<1>8. ASSUME NEW w \in Workers, WrongHeaderSize(w)
      PROVE  HandedStaysOpen'
  BY <1>8 DEF WrongHeaderSize, pool, Goto
<1>9. ASSUME NEW w \in Workers, ReturnCallback(w)
      PROVE  HandedStaysOpen'
  BY <1>9 DEF ReturnCallback, pool, history, Goto
<1>10. ASSUME NEW t \in Threads, BeginAcceptSocket(t)
      PROVE  HandedStaysOpen'
  BY <1>10 DEF BeginAcceptSocket, pool, Failed, Goto
<1>11. ASSUME NEW t \in Threads, BeginAcceptIo(t)
      PROVE  HandedStaysOpen'
  BY <1>11 DEF BeginAcceptIo, fields, pool, history, Begun, Goto
<1>12. ASSUME NEW t \in Threads, BeginAcceptEx(t)
      PROVE  HandedStaysOpen'
  BY <1>12 DEF BeginAcceptEx, fields, history, Begun, Goto
<1>13. ASSUME NEW t \in Threads, StopListenSocket(t)
      PROVE  HandedStaysOpen'
  BY <1>13 DEF StopListenSocket, pool, history, Goto
<1>14. ASSUME NEW t \in Threads, StopExchangeIo(t)
      PROVE  HandedStaysOpen'
  BY <1>14 DEF StopExchangeIo, history, Goto
<1>15. ASSUME NEW t \in Threads, StopWait(t)
      PROVE  HandedStaysOpen'
  BY <1>15 DEF StopWait, fields, history, CallbacksDone, Goto
<1>16. ASSUME NEW t \in Threads, StopValidator(t)
      PROVE  HandedStaysOpen'
  BY <1>16 DEF StopValidator, pool, history, Goto
<1>17. ASSUME NEW t \in Threads, StopCloseClient(t)
      PROVE  HandedStaysOpen'
  BY <1>17 DEF StopCloseClient, fields, pool, Goto
<1>18. ASSUME NEW t \in Threads, StopForgetClient(t)
      PROVE  HandedStaysOpen'
  BY <1>18 DEF StopForgetClient, pool, history, Goto
<1>19. ASSUME NEW t \in Threads, StopReturns(t)
      PROVE  HandedStaysOpen'
  BY <1>19 DEF StopReturns, fields, pool, history, Goto
<1>20. CASE UNCHANGED vars
  BY <1>20 DEF vars, fields, pool, history
<1> QED
  BY <1>1, <1>2, <1>3, <1>4, <1>5, <1>6, <1>7, <1>8, <1>9,
     <1>10, <1>11, <1>12, <1>13, <1>14, <1>15, <1>16, <1>17, <1>18,
     <1>19, <1>20
     DEF Next, BeginAccept, StopAccepting, AcceptThreadProc

(***************************************************************************)
(* What _ClientSocket names when it is overwritten was handed over, closed *)
(* or aborted.                                                             *)
(***************************************************************************)
LEMMA NextLeak ==
  ASSUME TypeOK, SocketInv, OnlyFailedAcceptsLeak, [Next]_vars
  PROVE  OnlyFailedAcceptsLeak'
<1> USE ThreadsAssumption, ChoicesAssumption
    DEF OnlyFailedAcceptsLeak, SocketInv, TypeOK, INVALID_SOCKET, Places,
        Quiet, Starting, Handling, Ending, Threads
<1>1. ASSUME Bind
      PROVE  OnlyFailedAcceptsLeak'
  BY <1>1 DEF Bind, pool, history, Goto
<1>2. ASSUME EnableAccepting
      PROVE  OnlyFailedAcceptsLeak'
  BY <1>2 DEF EnableAccepting, history, Goto
<1>3. ASSUME BeginStop
      PROVE  OnlyFailedAcceptsLeak'
  BY <1>3 DEF BeginStop, fields, pool, history, Goto
<1>4. ASSUME AcceptCompletes
      PROVE  OnlyFailedAcceptsLeak'
  BY <1>4 DEF AcceptCompletes, fields
<1>5. ASSUME NEW w \in Workers, StartCallback(w)
      PROVE  OnlyFailedAcceptsLeak'
  BY <1>5 DEF StartCallback, history, Goto
<1>6. ASSUME NEW w \in Workers, ValidateAccept(w)
      PROVE  OnlyFailedAcceptsLeak'
  BY <1>6 DEF ValidateAccept, fields, pool, Goto
<1>7. ASSUME NEW w \in Workers, ValidateReturns(w)
      PROVE  OnlyFailedAcceptsLeak'
  BY <1>7 DEF ValidateReturns, pool, history, Goto
<1>8. ASSUME NEW w \in Workers, WrongHeaderSize(w)
      PROVE  OnlyFailedAcceptsLeak'
  BY <1>8 DEF WrongHeaderSize, pool, Goto
<1>9. ASSUME NEW w \in Workers, ReturnCallback(w)
      PROVE  OnlyFailedAcceptsLeak'
  BY <1>9 DEF ReturnCallback, pool, history, Goto
<1>10. ASSUME NEW t \in Threads, BeginAcceptSocket(t)
      PROVE  OnlyFailedAcceptsLeak'
  BY <1>10 DEF BeginAcceptSocket, pool, Failed, Goto
<1>11. ASSUME NEW t \in Threads, BeginAcceptIo(t)
      PROVE  OnlyFailedAcceptsLeak'
  BY <1>11 DEF BeginAcceptIo, fields, pool, history, Begun, Goto
<1>12. ASSUME NEW t \in Threads, BeginAcceptEx(t)
      PROVE  OnlyFailedAcceptsLeak'
  BY <1>12 DEF BeginAcceptEx, fields, history, Begun, Goto
<1>13. ASSUME NEW t \in Threads, StopListenSocket(t)
      PROVE  OnlyFailedAcceptsLeak'
  BY <1>13 DEF StopListenSocket, pool, history, Goto
<1>14. ASSUME NEW t \in Threads, StopExchangeIo(t)
      PROVE  OnlyFailedAcceptsLeak'
  BY <1>14 DEF StopExchangeIo, history, Goto
<1>15. ASSUME NEW t \in Threads, StopWait(t)
      PROVE  OnlyFailedAcceptsLeak'
  BY <1>15 DEF StopWait, fields, history, CallbacksDone, Goto
<1>16. ASSUME NEW t \in Threads, StopValidator(t)
      PROVE  OnlyFailedAcceptsLeak'
  BY <1>16 DEF StopValidator, pool, history, Goto
<1>17. ASSUME NEW t \in Threads, StopCloseClient(t)
      PROVE  OnlyFailedAcceptsLeak'
  BY <1>17 DEF StopCloseClient, fields, pool, Goto
<1>18. ASSUME NEW t \in Threads, StopForgetClient(t)
      PROVE  OnlyFailedAcceptsLeak'
  BY <1>18 DEF StopForgetClient, pool, history, Goto
<1>19. ASSUME NEW t \in Threads, StopReturns(t)
      PROVE  OnlyFailedAcceptsLeak'
  BY <1>19 DEF StopReturns, fields, pool, history, Goto
<1>20. CASE UNCHANGED vars
  BY <1>20 DEF vars, fields, pool, history
<1> QED
  BY <1>1, <1>2, <1>3, <1>4, <1>5, <1>6, <1>7, <1>8, <1>9,
     <1>10, <1>11, <1>12, <1>13, <1>14, <1>15, <1>16, <1>17, <1>18,
     <1>19, <1>20
     DEF Next, BeginAccept, StopAccepting, AcceptThreadProc

(***************************************************************************)
(* BeginAccept finds _ThreadpoolIo set unless Main is stopping.            *)
(***************************************************************************)
LEMMA NextKeep ==
  ASSUME TurnInv, IoInv, EndInv, KeepInv, [Next]_vars
  PROVE  KeepInv'
<1> USE ThreadsAssumption, ChoicesAssumption
    DEF KeepInv, EndInv, IoInv, TurnInv, Alive, Places, Quiet, Starting,
        Handling, Ending, Threads
<1>1. ASSUME Bind
      PROVE  KeepInv'
  BY <1>1 DEF Bind, pool, history, Goto
<1>2. ASSUME EnableAccepting
      PROVE  KeepInv'
  BY <1>2 DEF EnableAccepting, history, Goto
<1>3. ASSUME BeginStop
      PROVE  KeepInv'
  BY <1>3 DEF BeginStop, fields, pool, history, Goto
<1>4. ASSUME AcceptCompletes
      PROVE  KeepInv'
  BY <1>4 DEF AcceptCompletes, fields
<1>5. ASSUME NEW w \in Workers, StartCallback(w)
      PROVE  KeepInv'
  BY <1>5 DEF StartCallback, history, Goto
<1>6. ASSUME NEW w \in Workers, ValidateAccept(w)
      PROVE  KeepInv'
  BY <1>6 DEF ValidateAccept, fields, pool, Goto
<1>7. ASSUME NEW w \in Workers, ValidateReturns(w)
      PROVE  KeepInv'
  BY <1>7 DEF ValidateReturns, pool, history, Goto
<1>8. ASSUME NEW w \in Workers, WrongHeaderSize(w)
      PROVE  KeepInv'
  BY <1>8 DEF WrongHeaderSize, pool, Goto
<1>9. ASSUME NEW w \in Workers, ReturnCallback(w)
      PROVE  KeepInv'
  BY <1>9 DEF ReturnCallback, pool, history, Goto
<1>10. ASSUME NEW t \in Threads, BeginAcceptSocket(t)
      PROVE  KeepInv'
  BY <1>10 DEF BeginAcceptSocket, pool, Failed, Goto
<1>11. ASSUME NEW t \in Threads, BeginAcceptIo(t)
      PROVE  KeepInv'
  BY <1>11 DEF BeginAcceptIo, fields, pool, history, Begun, Goto
<1>12. ASSUME NEW t \in Threads, BeginAcceptEx(t)
      PROVE  KeepInv'
  BY <1>12 DEF BeginAcceptEx, fields, history, Begun, Goto
<1>13. ASSUME NEW t \in Threads, StopListenSocket(t)
      PROVE  KeepInv'
  BY <1>13 DEF StopListenSocket, pool, history, Goto
<1>14. ASSUME NEW t \in Threads, StopExchangeIo(t)
      PROVE  KeepInv'
  BY <1>14 DEF StopExchangeIo, history, Goto
<1>15. ASSUME NEW t \in Threads, StopWait(t)
      PROVE  KeepInv'
  BY <1>15 DEF StopWait, fields, history, CallbacksDone, Goto
<1>16. ASSUME NEW t \in Threads, StopValidator(t)
      PROVE  KeepInv'
  BY <1>16 DEF StopValidator, pool, history, Goto
<1>17. ASSUME NEW t \in Threads, StopCloseClient(t)
      PROVE  KeepInv'
  BY <1>17 DEF StopCloseClient, fields, pool, Goto
<1>18. ASSUME NEW t \in Threads, StopForgetClient(t)
      PROVE  KeepInv'
  BY <1>18 DEF StopForgetClient, pool, history, Goto
<1>19. ASSUME NEW t \in Threads, StopReturns(t)
      PROVE  KeepInv'
  BY <1>19 DEF StopReturns, fields, pool, history, Goto
<1>20. CASE UNCHANGED vars
  BY <1>20 DEF vars, fields, pool, history
<1> QED
  BY <1>1, <1>2, <1>3, <1>4, <1>5, <1>6, <1>7, <1>8, <1>9,
     <1>10, <1>11, <1>12, <1>13, <1>14, <1>15, <1>16, <1>17, <1>18,
     <1>19, <1>20
     DEF Next, BeginAccept, StopAccepting, AcceptThreadProc

-----------------------------------------------------------------------------
(***************************************************************************)
(* What holds whatever _ThreadpoolThreadId was before the first callback.  *)
(***************************************************************************)
LEMMA AlwaysIo == Spec => [](TurnInv /\ IoInv)
<1>1. Init => TurnInv /\ IoInv
  BY ThreadsAssumption
     DEF Init, TurnInv, IoInv, IoOpenWhenUsed, Places, Quiet, Starting, Threads
<1>2. TurnInv /\ IoInv /\ [Next]_vars => (TurnInv /\ IoInv)'
  BY NextTurn, NextIo
<1> QED BY <1>1, <1>2, PTL DEF Spec

(***************************************************************************)
(* _AcceptBuffer and _Overlapped are never used by a callback while an     *)
(* accept that uses them is outstanding, for any number of pool threads.   *)
(***************************************************************************)
THEOREM AcceptsOneAtATime == Spec => []OneAcceptAtATime
<1>1. TurnInv => OneAcceptAtATime
  BY DEF TurnInv, OneAcceptAtATime, Quiet, Starting
<1> QED BY <1>1, AlwaysIo, PTL

(***************************************************************************)
(* BeginAccept never starts an accept on a PTP_IO that StopAccepting, on   *)
(* whatever thread, has closed.                                            *)
(***************************************************************************)
THEOREM IoStaysOpen == Spec => []IoOpenWhenUsed
<1>1. IoInv => IoOpenWhenUsed
  BY DEF IoInv
<1> QED BY <1>1, AlwaysIo, PTL

-----------------------------------------------------------------------------
(***************************************************************************)
(* What holds when _ThreadpoolThreadId is not, by accident, Main's.        *)
(***************************************************************************)
Inv ==
  /\ TurnInv /\ IoInv /\ EndInv /\ TypeOK /\ SocketInv /\ KeepInv
  /\ HandedStaysOpen /\ OnlyFailedAcceptsLeak

LEMMA InitInv ==
  ASSUME ~StaleId, Init
  PROVE  Inv
<1> USE ThreadsAssumption, ChoicesAssumption DEF Init, Threads
<1>1. TurnInv /\ IoInv
  BY DEF TurnInv, IoInv, IoOpenWhenUsed, Places, Quiet, Starting
<1>2. EndInv /\ KeepInv
  BY DEF EndInv, KeepInv, Alive, Handling, Ending
<1>3. TypeOK
  <2>1. /\ _pValidator \in BOOLEAN /\ _ThreadpoolIo \in BOOLEAN
        /\ _ListenSocket \in BOOLEAN /\ starved \in BOOLEAN
    BY Zenon
  <2>2. pc \in [Threads -> Places]
    BY DEF Places
  <2>3. _ThreadpoolThreadId \in Threads \cup {NoThread}
    OBVIOUS
  <2>4. /\ _ClientSocket \in 0 .. made /\ accepted \in 0 .. MaxAccepts
        /\ made \in Nat
        /\ handed \subseteq 1 .. made
        /\ closed \subseteq 1 .. made
        /\ aborted \subseteq 1 .. made
    BY DEF INVALID_SOCKET
  <2> QED BY <2>1, <2>2, <2>3, <2>4 DEF TypeOK
<1>4. SocketInv /\ HandedStaysOpen /\ OnlyFailedAcceptsLeak
  BY DEF SocketInv, HandedStaysOpen, OnlyFailedAcceptsLeak, INVALID_SOCKET
<1> QED BY <1>1, <1>2, <1>3, <1>4 DEF Inv

LEMMA AlwaysInv ==
  ASSUME ~StaleId
  PROVE  Spec => []Inv
<1>1. Init => Inv
  BY InitInv
<1>2. Inv /\ [Next]_vars => Inv'
  BY NextTurn, NextIo, NextEnd, NextType, NextSocket, NextKeep, NextHanded,
     NextLeak
     DEF Inv
<1> QED BY <1>1, <1>2, PTL DEF Spec

(***************************************************************************)
(* Every state is well typed; in particular only sockets that BeginAccept  *)
(* made are handed over or closed, never INVALID_SOCKET.                   *)
(***************************************************************************)
THEOREM TypeCorrect ==
  ASSUME ~StaleId
  PROVE  Spec => []TypeOK
<1>1. Inv => TypeOK
  BY DEF Inv
<1> QED BY <1>1, AlwaysInv, PTL

(***************************************************************************)
(* A socket given to ValidateAccept is never closed by the listener, on    *)
(* whichever thread and at whatever moment it is stopped.                  *)
(***************************************************************************)
THEOREM OwnershipMoves ==
  ASSUME ~StaleId
  PROVE  Spec => []HandedStaysOpen
<1>1. Inv => HandedStaysOpen
  BY DEF Inv
<1> QED BY <1>1, AlwaysInv, PTL

(***************************************************************************)
(* No callback calls through a _pValidator that StopAccepting has cleared. *)
(***************************************************************************)
THEOREM ValidatorStays ==
  ASSUME ~StaleId
  PROVE  Spec => []ValidatorPresent
<1>1. Inv => ValidatorPresent
  BY DEF Inv, EndInv, Alive, ValidatorPresent, Handling, Threads
<1> QED BY <1>1, AlwaysInv, PTL

(***************************************************************************)
(* The only sockets BeginAccept makes that are forgotten open are those    *)
(* whose accept failed.                                                    *)
(***************************************************************************)
THEOREM LeaksOnlyFailed ==
  ASSUME ~StaleId
  PROVE  Spec => []OnlyFailedAcceptsLeak
<1>1. Inv => OnlyFailedAcceptsLeak
  BY DEF Inv
<1> QED BY <1>1, AlwaysInv, PTL

(***************************************************************************)
(* Until it is stopped or a socket cannot be made, the listener has an     *)
(* accept outstanding whenever no callback runs.                           *)
(***************************************************************************)
THEOREM AcceptingGoesOn ==
  ASSUME ~StaleId
  PROVE  Spec => []KeepsAccepting
<1>1. Inv => KeepsAccepting
  BY DEF Inv, KeepInv, Alive, KeepsAccepting, Handling, Threads
<1> QED BY <1>1, AlwaysInv, PTL
=============================================================================
