------------------------- MODULE AudMixDaemon_proofs -------------------------
(***************************************************************************)
(* Proofs about AudMixDaemon for any number of processes and clients, and  *)
(* any choice of the waits that time out except the wait for a result.  As *)
(* long as nobody gives that one up, the variables of the command channel  *)
(* belong to one command at a time, from the moment it is posted until its *)
(* sender has read the answer; so a sender is told what happened to its    *)
(* own client, and frees none that the daemon has listed.                  *)
(***************************************************************************)
EXTENDS AudMixDaemon, TLAPS

LEMMA TypeInit == Init => TypeOK
<1> SUFFICES ASSUME Init PROVE TypeOK
  OBVIOUS
<1>1. /\ g_bInitialized \in BOOLEAN /\ g_hevDaemonMsgReady \in BOOLEAN
      /\ g_hevDaemonMsgResultReady \in BOOLEAN
  BY DEF Init
<1>2. /\ at \in [Thread -> {"out", "clientlock", "area", "write", "result",
                            "leave", "return"}]
      /\ call \in [Thread -> Call]
      /\ object \in [Thread -> Client \cup {Nil}]
      /\ result \in [Thread -> 0..6]
  BY DEF Init, Call, Failure
<1>3. /\ g_iDaemonMsgValue \in 0..6
      /\ g_pDaemonMsgParameter \in Client \cup Thread \cup {Chunk, Nil}
  BY DEF Init, NOTHING
<1> QED BY <1>1, <1>2, <1>3 DEF Init, TypeOK

\* The ranges of what is sent.
LEMMA SentTypes ==
  ASSUME TypeOK, NEW t \in Thread
  PROVE  /\ Command(t) \in 1..6
         /\ Parameter(t) \in Client \cup Thread \cup {Chunk, Nil}
BY DEF TypeOK, Command, Parameter, TAKECLIENT, RELEASECLIENT, TAKEBUFFER,
   GETCLIENTFORPID, SHUTDOWN

LEMMA TypeNext ==
  ASSUME TypeOK, [Next]_vars
  PROVE  TypeOK'
<1> USE DEF TypeOK, msgVars, hevVars, callVars, mixVars, sendVars, daemonVars,
            Goto, Call, NOTHING, Failure, Success, Thread
<1>1. ASSUME NEW t \in Thread, RequestArea(t) PROVE TypeOK'
  BY <1>1 DEF RequestArea, GiveUp
<1>2. ASSUME NEW t \in Thread, WriteCommand(t) PROVE TypeOK'
  BY <1>2, SentTypes DEF WriteCommand
<1>3. ASSUME NEW t \in Thread, GetResult(t) PROVE TypeOK'
  <2>1. result' \in [Thread -> 0..6] /\ object' \in [Thread -> Client \cup {Nil}]
    BY <1>3 DEF GetResult
  <2>2. g_hevDaemonMsgResultReady' \in BOOLEAN
    BY <1>3 DEF GetResult
  <2> QED BY <1>3, <2>1, <2>2 DEF GetResult
<1>4. ASSUME NEW t \in Thread, GiveUpResult(t) PROVE TypeOK'
  BY <1>4 DEF GiveUpResult
<1>5. ASSUME NEW t \in Thread, LeaveArea(t) PROVE TypeOK'
  BY <1>5 DEF LeaveArea
<1>6. ASSUME NEW p \in Process, NEW c \in Client, CreateClient(p, c)
      PROVE  TypeOK'
  BY <1>6 DEF CreateClient, Begin
<1>7. ASSUME NEW p \in Process, NEW c \in Client, DestroyClient(p, c)
      PROVE  TypeOK'
  BY <1>7 DEF DestroyClient, Begin
<1>8. ASSUME NEW p \in Process, NEW c \in Client, AddNewBuffer(p, c)
      PROVE  TypeOK'
  BY <1>8 DEF AddNewBuffer, Begin
<1>9. ASSUME NEW p \in Process, LockClient(p) PROVE TypeOK'
  <2>1. hmtxUseClient' \in [Client -> Process \cup {"mixer", Nil}]
    BY <1>9 DEF LockClient
  <2> QED BY <1>9, <2>1 DEF LockClient
<1>10. ASSUME NEW p \in Process, Exit(p) PROVE TypeOK'
  BY <1>10 DEF Exit, Begin
<1>11. ASSUME NEW p \in Process, Return(p) PROVE TypeOK'
  BY <1>11 DEF Return, ReturnCreate, ReturnDestroy, ReturnAddNewBuffer,
     ReturnExit, Begin
<1>12. CASE StopDaemonThread
  BY <1>12 DEF StopDaemonThread, Begin
<1>13. CASE ReturnStop
  BY <1>13 DEF ReturnStop, Begin
<1>14. CASE StartDaemonThread
  <2>1. /\ g_bInitialized' \in BOOLEAN /\ g_hevDaemonMsgReady' \in BOOLEAN
        /\ g_hevDaemonMsgResultReady' \in BOOLEAN
    BY <1>14 DEF StartDaemonThread
  <2>2. /\ g_iDaemonMsgValue' \in 0..6 /\ clients' \subseteq Client
        /\ g_pDaemonMsgParameter' \in Client \cup Thread \cup {Chunk, Nil}
    BY <1>14 DEF StartDaemonThread
  <2> QED BY <1>14, <2>1, <2>2 DEF StartDaemonThread
<1>15. CASE WaitForCommand
  BY <1>15 DEF WaitForCommand
<1>16. CASE Dispatch
  BY <1>16 DEF Dispatch, Done, daemonUnchanged
<1>17. CASE \/ LockList("takelock", "takelink")
            \/ LockList("rellock", "relunlink")
            \/ LockList("getlock", "getfind")
  BY <1>17 DEF LockList, Done, daemonUnchanged
<1>18. CASE TakeLink
  BY <1>18 DEF TakeLink, Done, daemonUnchanged
<1>19. CASE Unlink
  BY <1>19 DEF Unlink, Done, daemonUnchanged
<1>20. CASE Find
  BY <1>20 DEF Find, Done, daemonUnchanged
<1>21. CASE Answer
  BY <1>21 DEF Answer
<1>22. CASE EndThread
  BY <1>22 DEF EndThread, daemonUnchanged
<1>23. CASE Mixer
  BY <1>23 DEF Mixer, BeginMix, VisitClient, MixClient, EndMix, mixUnchanged
<1>24. CASE UNCHANGED vars
  BY <1>24 DEF vars
<1> HIDE DEF TypeOK, Thread
<1>25. CASE Api
  BY <1>25, <1>6, <1>7, <1>8, <1>9, <1>10, <1>11, <1>12, <1>13, <1>14 DEF Api
<1>26. CASE Daemon
  BY <1>26, <1>15, <1>16, <1>17, <1>18, <1>19, <1>20, <1>21, <1>22 DEF Daemon
<1>27. CASE \E t \in Thread : Send(t)
  BY <1>27, <1>1, <1>2, <1>3, <1>4, <1>5 DEF Send
<1> QED BY <1>23, <1>24, <1>25, <1>26, <1>27 DEF Next

-----------------------------------------------------------------------------
(* The command channel, when nobody gives up the wait for a result.        *)

Reliable == "result" \notin TimesOut

\* Which call a thread may be in, and that it owns the client it is about.
PlaceOK ==
  \A t \in Thread :
    /\ at[t] = "out" <=> call[t] \in {"none", "gone"}
    /\ t = Admin => call[t] \in {"none", "stop"}
    /\ t # Admin => call[t] # "stop"
    /\ call[t] \in {"create", "destroy", "exitdestroy"} =>
         object[t] \in Client /\ memory[object[t]] = t

\* The mutex of the command area.
AreaOK ==
  \A t \in Thread :
    at[t] \in {"write", "result", "leave"} <=> g_hmtxUseDaemonMsgArea = t

\* The result v is what happened to the client of the call.
Told(t, v) ==
  /\ call[t] = "create" => (v # Failure <=> object[t] \in clients)
  /\ call[t] \in {"destroy", "exitdestroy"} /\ v # Failure =>
       object[t] \notin clients

\* The command thread is executing a command.
Busy == daemon \notin {"waiting", "stopping", "stopped"}

\* Without a sender that waits for its result the channel is quiet.
ChannelOK ==
  (\A t \in Thread : at[t] # "result") =>
    /\ ~g_hevDaemonMsgResultReady /\ ~Busy
    /\ g_hevDaemonMsgReady => daemon = "stopped"

\* The command of t waits for the command thread, which may have ended, ...
Posted(t) ==
  /\ g_hevDaemonMsgReady /\ ~g_hevDaemonMsgResultReady /\ ~Busy
  /\ g_iDaemonMsgValue = Command(t) /\ g_pDaemonMsgParameter = Parameter(t)
  /\ Told(t, Failure)

\* ... or is being executed, ...
Serving(t) ==
  /\ ~g_hevDaemonMsgReady /\ ~g_hevDaemonMsgResultReady
  /\ g_pDaemonMsgParameter = Parameter(t)
  /\ Told(t, Failure)
  /\ \/ daemon = "dispatch" /\ g_iDaemonMsgValue = Command(t)
     \/ daemon \in {"takelock", "takelink"} /\ Command(t) = TAKECLIENT
     \/ daemon \in {"rellock", "relunlink"} /\ Command(t) = RELEASECLIENT
     \/ daemon \in {"getlock", "getfind"} /\ Command(t) = GETCLIENTFORPID

\* ... or its result stands in the area.
Answered(t) ==
  /\ ~g_hevDaemonMsgReady
  /\ Told(t, g_iDaemonMsgValue)
  /\ \/ daemon \in {"answer", "shutdown"} /\ ~g_hevDaemonMsgResultReady
     \/ ~Busy /\ g_hevDaemonMsgResultReady

RequestsOK ==
  \A t \in Thread :
    at[t] = "result" =>
      /\ result[t] = Failure
      /\ Posted(t) \/ Serving(t) \/ Answered(t)

ToldOK ==
  \A t \in Thread :
    /\ at[t] \in {"clientlock", "area", "write"} => Told(t, Failure)
    /\ at[t] \in {"leave", "return"} => Told(t, result[t])

\* The inductive invariant.
Inv ==
  /\ TypeOK /\ PlaceOK /\ AreaOK /\ ListedAllocated
  /\ ChannelOK /\ RequestsOK /\ ToldOK

\* What the command of a call is.
LEMMA Commands ==
  ASSUME TypeOK, PlaceOK, NEW t \in Thread, at[t] # "out"
  PROVE  /\ Command(t) = TAKECLIENT <=> call[t] = "create"
         /\ Command(t) = RELEASECLIENT <=>
              call[t] \in {"destroy", "exitdestroy"}
         /\ Command(t) = GETCLIENTFORPID <=> call[t] = "exit"
         /\ Command(t) = SHUTDOWN => t = Admin
         /\ Command(t) \in {TAKECLIENT, RELEASECLIENT, GETCLIENTFORPID} =>
              Parameter(t) = IF call[t] = "exit" THEN t ELSE object[t]
<1>1. call[t] \in Call /\ call[t] \notin {"none", "gone"}
  BY DEF TypeOK, PlaceOK
<1> QED BY <1>1 DEF PlaceOK, Call, Command, Parameter, TAKECLIENT, SHUTDOWN,
           RELEASECLIENT, TAKEBUFFER, GETCLIENTFORPID

\* One thread has the area at a time.
LEMMA OneOwner ==
  ASSUME AreaOK, NEW t \in Thread, NEW u \in Thread,
         at[t] \in {"write", "result", "leave"},
         at[u] \in {"write", "result", "leave"}
  PROVE  t = u
BY DEF AreaOK

LEMMA InvInit == Init => Inv
<1> SUFFICES ASSUME Init PROVE Inv
  OBVIOUS
<1>1. \A t \in Thread : at[t] = "out" /\ call[t] = "none"
  BY DEF Init
<1>2. PlaceOK /\ ToldOK /\ RequestsOK
  BY <1>1 DEF PlaceOK, ToldOK, RequestsOK
<1>3. AreaOK
  BY <1>1, ProcessAssumption DEF Init, AreaOK, Thread
<1>4. ListedAllocated /\ ChannelOK
  BY DEF Init, ListedAllocated, ChannelOK, Busy
<1> QED BY <1>2, <1>3, <1>4, TypeInit DEF Inv

\* The steps that touch neither a call, nor the channel, nor the list.
LEMMA QuietKeeps ==
  ASSUME Inv, TypeOK',
         UNCHANGED <<msgVars, hevVars, g_hmtxUseDaemonMsgArea, daemon, clients,
                     memory, sendVars, callVars>>
  PROVE  Inv'
<1> USE DEF msgVars, hevVars, sendVars, callVars
<1>1. PlaceOK' /\ AreaOK' /\ ListedAllocated'
  BY DEF Inv, PlaceOK, AreaOK, ListedAllocated
<1>2. \A t, v : Told(t, v)' <=> Told(t, v)
  BY DEF Told
<1>3. \A t : Command(t)' = Command(t) /\ Parameter(t)' = Parameter(t)
  BY DEF Command, Parameter
<1>4. ChannelOK' /\ ToldOK'
  BY <1>2 DEF Inv, ChannelOK, ToldOK, Busy
<1>5. RequestsOK'
  BY <1>2, <1>3 DEF Inv, RequestsOK, Posted, Serving, Answered, Busy
<1> QED BY <1>1, <1>4, <1>5 DEF Inv

-----------------------------------------------------------------------------
(* Each step keeps the invariant.                                          *)

\* The only thread that is at the area.
LEMMA Alone ==
  ASSUME Inv, NEW t \in Thread, at[t] \in {"write", "result", "leave"}
  PROVE  \A u \in Thread \ {t} : at[u] \notin {"write", "result", "leave"}
BY DEF Inv, AreaOK

\* The only thread that waits for the command that is being executed.
LEMMA Served ==
  ASSUME Inv, daemon \in {"dispatch", "takelock", "takelink", "rellock",
                          "relunlink", "getlock", "getfind"}
  PROVE  \E t \in Thread :
           /\ at[t] = "result" /\ result[t] = Failure /\ Serving(t)
           /\ \A u \in Thread \ {t} :
                at[u] \notin {"write", "result", "leave"}
<1>1. PICK t \in Thread : at[t] = "result"
  BY DEF Inv, ChannelOK, Busy
<1>2. result[t] = Failure /\ Serving(t)
  BY <1>1 DEF Inv, RequestsOK, Posted, Answered, Busy
<1> QED BY <1>1, <1>2, Alone

LEMMA RequestAreaKeeps ==
  ASSUME Inv, TypeOK', NEW t \in Thread, RequestArea(t)
  PROVE  Inv'
<1> USE DEF msgVars, hevVars, sendVars, callVars, mixVars, daemonVars,
            Goto, Begin, Failure, Success
<1>0. /\ TypeOK /\ PlaceOK /\ AreaOK /\ ListedAllocated /\ ChannelOK
      /\ RequestsOK /\ ToldOK
  BY DEF Inv
<1>1. PlaceOK'
  BY <1>0 DEF RequestArea, GiveUp, PlaceOK, TypeOK
<1>2. AreaOK'
  BY <1>0, ProcessAssumption DEF RequestArea, GiveUp, AreaOK, Thread, TypeOK
<1>3. ListedAllocated'
  BY <1>0 DEF RequestArea, ListedAllocated
<1>4. ChannelOK'
  BY <1>0 DEF RequestArea, GiveUp, ChannelOK, Busy, TypeOK
<1>5. RequestsOK'
  BY <1>0 DEF RequestArea, GiveUp, RequestsOK, Posted, Serving, Answered,
     Busy, Told, Command, Parameter, TypeOK
<1>6. ToldOK'
  BY <1>0 DEF RequestArea, GiveUp, ToldOK, Told, TypeOK
<1> QED BY <1>1, <1>2, <1>3, <1>4, <1>5, <1>6 DEF Inv

LEMMA WriteCommandKeeps ==
  ASSUME Inv, TypeOK', NEW t \in Thread, WriteCommand(t)
  PROVE  Inv'
<1> USE DEF msgVars, hevVars, sendVars, callVars, mixVars, daemonVars,
            Goto, Begin, Failure, Success
<1>0. /\ TypeOK /\ PlaceOK /\ AreaOK /\ ListedAllocated /\ ChannelOK
      /\ RequestsOK /\ ToldOK
  BY DEF Inv
<1>1. PlaceOK'
  BY <1>0 DEF WriteCommand, PlaceOK
<1>2. AreaOK'
  BY <1>0 DEF WriteCommand, AreaOK
<1>3. ListedAllocated'
  BY <1>0 DEF WriteCommand, ListedAllocated
<1>4. ChannelOK'
  BY <1>0 DEF WriteCommand, ChannelOK, Busy, TypeOK
<1>5. RequestsOK'
  <2>1. \A u \in Thread : at[u] # "result"
    BY Alone DEF WriteCommand
  <2>2. /\ ~g_hevDaemonMsgResultReady /\ ~Busy
        /\ Told(t, Failure)
    BY <2>1, <1>0 DEF ChannelOK, ToldOK, WriteCommand
  <2>3. \A u \in Thread : at'[u] = "result" => u = t
    BY <2>1 DEF WriteCommand
  <2>4. /\ g_hevDaemonMsgReady' /\ ~g_hevDaemonMsgResultReady' /\ ~Busy'
        /\ g_iDaemonMsgValue' = Command(t)
        /\ g_pDaemonMsgParameter' = Parameter(t)
        /\ Told(t, Failure)'
        /\ result'[t] = Failure
    BY <1>0, <2>2 DEF WriteCommand, TypeOK, Busy, Told
  <2>5. Command(t)' = Command(t) /\ Parameter(t)' = Parameter(t)
    BY DEF WriteCommand, Command, Parameter
  <2> QED BY <2>3, <2>4, <2>5 DEF RequestsOK, Posted
<1>6. ToldOK'
  BY <1>0 DEF WriteCommand, ToldOK, Told, TypeOK
<1> QED BY <1>1, <1>2, <1>3, <1>4, <1>5, <1>6 DEF Inv

LEMMA GetResultKeeps ==
  ASSUME Inv, TypeOK', NEW t \in Thread, GetResult(t)
  PROVE  Inv'
<1> USE DEF msgVars, hevVars, sendVars, callVars, mixVars, daemonVars,
            Goto, Begin, Failure, Success
<1>0. /\ TypeOK /\ PlaceOK /\ AreaOK /\ ListedAllocated /\ ChannelOK
      /\ RequestsOK /\ ToldOK
  BY DEF Inv
<1>1. PlaceOK'
  BY <1>0 DEF GetResult, PlaceOK
<1>2. AreaOK'
  BY <1>0 DEF GetResult, AreaOK
<1>3. ListedAllocated'
  BY <1>0 DEF GetResult, ListedAllocated
<1>4. ChannelOK'
  <2>1. Answered(t)
    BY <1>0 DEF GetResult, RequestsOK, Posted, Serving
  <2> QED BY <2>1 DEF Answered, GetResult, ChannelOK, Busy
<1>5. RequestsOK'
  <2>1. \A u \in Thread : at'[u] # "result"
    BY <1>0, Alone DEF GetResult, TypeOK
  <2> QED BY <2>1 DEF RequestsOK
<1>6. ToldOK'
  <2>1. Told(t, g_iDaemonMsgValue)
    BY <1>0 DEF GetResult, RequestsOK, Posted, Serving, Answered
  <2>2. Told(t, result[t])'
    BY <1>0, <2>1 DEF GetResult, TypeOK, Told
  <2>3. \A u \in Thread \ {t} :
          /\ at'[u] = at[u] /\ result'[u] = result[u]
          /\ \A v : Told(u, v)' <=> Told(u, v)
    BY <1>0 DEF GetResult, Told
  <2>4. at'[t] = "leave"
    BY <1>0 DEF GetResult, TypeOK
  <2> QED BY <1>0, <2>2, <2>3, <2>4 DEF ToldOK
<1> QED BY <1>1, <1>2, <1>3, <1>4, <1>5, <1>6 DEF Inv

LEMMA GiveUpResultKeeps ==
  ASSUME Inv, TypeOK', NEW t \in Thread, GiveUpResult(t), Reliable
  PROVE  Inv'
<1> USE DEF msgVars, hevVars, sendVars, callVars, mixVars, daemonVars,
            Goto, Begin, Failure, Success
<1>0. /\ TypeOK /\ PlaceOK /\ AreaOK /\ ListedAllocated /\ ChannelOK
      /\ RequestsOK /\ ToldOK
  BY DEF Inv
<1>1. PlaceOK'
  BY <1>0 DEF GiveUpResult, PlaceOK
<1>2. AreaOK'
  BY <1>0 DEF GiveUpResult, AreaOK
<1>3. ListedAllocated'
  BY <1>0 DEF GiveUpResult, ListedAllocated
<1>4. ChannelOK'
  <2>1. Posted(t) /\ daemon = "stopped" /\ result[t] = Failure
    BY <1>0 DEF GiveUpResult, Reliable, Dead, RequestsOK, Posted, Serving,
       Answered, Busy
  <2> QED BY <2>1 DEF GiveUpResult, ChannelOK, Busy
<1>5. RequestsOK'
  BY <1>0 DEF GiveUpResult, Reliable, Dead, RequestsOK, Posted, Serving,
     Answered, Busy, Told, Command, Parameter
<1>6. ToldOK'
  <2>1. Posted(t) /\ daemon = "stopped" /\ result[t] = Failure
    BY <1>0 DEF GiveUpResult, Reliable, Dead, RequestsOK, Posted, Serving,
       Answered, Busy
  <2>2. at'[t] = "leave" /\ \A u \in Thread \ {t} : at'[u] = at[u]
    BY <1>0 DEF GiveUpResult, TypeOK
  <2>3. \A u, v : Told(u, v)' <=> Told(u, v)
    BY DEF GiveUpResult, Told
  <2>4. Told(t, result[t])
    BY <2>1 DEF Posted
  <2> QED BY <1>0, <2>2, <2>3, <2>4 DEF ToldOK, GiveUpResult
<1> QED BY <1>1, <1>2, <1>3, <1>4, <1>5, <1>6 DEF Inv

LEMMA LeaveAreaKeeps ==
  ASSUME Inv, TypeOK', NEW t \in Thread, LeaveArea(t)
  PROVE  Inv'
<1> USE DEF msgVars, hevVars, sendVars, callVars, mixVars, daemonVars,
            Goto, Begin, Failure, Success
<1>0. /\ TypeOK /\ PlaceOK /\ AreaOK /\ ListedAllocated /\ ChannelOK
      /\ RequestsOK /\ ToldOK
  BY DEF Inv
<1>1. PlaceOK'
  BY <1>0 DEF LeaveArea, PlaceOK
<1>2. AreaOK'
  BY <1>0, ProcessAssumption DEF LeaveArea, AreaOK, Thread, TypeOK
<1>3. ListedAllocated'
  BY <1>0 DEF LeaveArea, ListedAllocated
<1>4. ChannelOK'
  BY <1>0 DEF LeaveArea, ChannelOK, Busy
<1>5. RequestsOK'
  BY <1>0 DEF LeaveArea, RequestsOK, Posted, Serving, Answered, Busy, Told,
     Command, Parameter
<1>6. ToldOK'
  BY <1>0 DEF LeaveArea, ToldOK, Told
<1> QED BY <1>1, <1>2, <1>3, <1>4, <1>5, <1>6 DEF Inv

LEMMA CreateClientKeeps ==
  ASSUME Inv, TypeOK', NEW p \in Process, NEW c \in Client, CreateClient(p, c)
  PROVE  Inv'
<1> USE DEF msgVars, hevVars, sendVars, callVars, mixVars, daemonVars,
            Goto, Begin, Failure, Success
<1>0. /\ TypeOK /\ PlaceOK /\ AreaOK /\ ListedAllocated /\ ChannelOK
      /\ RequestsOK /\ ToldOK
  BY DEF Inv
<1>1. PlaceOK'
  BY <1>0, ProcessAssumption DEF CreateClient, PlaceOK, Thread, TypeOK
<1>2. AreaOK'
  BY <1>0 DEF CreateClient, Idle, AreaOK
<1>3. ListedAllocated'
  BY <1>0 DEF CreateClient, ListedAllocated
<1>4. ChannelOK'
  BY <1>0 DEF CreateClient, Idle, ChannelOK, Busy
<1>5. RequestsOK'
  BY <1>0 DEF CreateClient, Idle, RequestsOK, Posted, Serving, Answered,
     Busy, Told, Command, Parameter
<1>6. ToldOK'
  BY <1>0 DEF CreateClient, ToldOK, Told, TypeOK
<1> QED BY <1>1, <1>2, <1>3, <1>4, <1>5, <1>6 DEF Inv

LEMMA DestroyClientKeeps ==
  ASSUME Inv, TypeOK', NEW p \in Process, NEW c \in Client, DestroyClient(p, c)
  PROVE  Inv'
<1> USE DEF msgVars, hevVars, sendVars, callVars, mixVars, daemonVars,
            Goto, Begin, Failure, Success
<1>0. /\ TypeOK /\ PlaceOK /\ AreaOK /\ ListedAllocated /\ ChannelOK
      /\ RequestsOK /\ ToldOK
  BY DEF Inv
<1>1. PlaceOK'
  BY <1>0, ProcessAssumption DEF DestroyClient, PlaceOK, TypeOK
<1>2. AreaOK'
  BY <1>0 DEF DestroyClient, Idle, AreaOK
<1>3. ListedAllocated'
  BY <1>0 DEF DestroyClient, ListedAllocated
<1>4. ChannelOK'
  BY <1>0 DEF DestroyClient, Idle, ChannelOK, Busy
<1>5. RequestsOK'
  BY <1>0 DEF DestroyClient, Idle, RequestsOK, Posted, Serving, Answered,
     Busy, Told, Command, Parameter
<1>6. ToldOK'
  BY <1>0 DEF DestroyClient, Idle, ToldOK, Told
<1> QED BY <1>1, <1>2, <1>3, <1>4, <1>5, <1>6 DEF Inv

LEMMA AddNewBufferKeeps ==
  ASSUME Inv, TypeOK', NEW p \in Process, NEW c \in Client, AddNewBuffer(p, c)
  PROVE  Inv'
<1> USE DEF msgVars, hevVars, sendVars, callVars, mixVars, daemonVars,
            Goto, Begin, Failure, Success
<1>0. /\ TypeOK /\ PlaceOK /\ AreaOK /\ ListedAllocated /\ ChannelOK
      /\ RequestsOK /\ ToldOK
  BY DEF Inv
<1>1. PlaceOK'
  BY <1>0, ProcessAssumption DEF AddNewBuffer, PlaceOK, TypeOK
<1>2. AreaOK'
  BY <1>0 DEF AddNewBuffer, Idle, AreaOK
<1>3. ListedAllocated'
  BY <1>0 DEF AddNewBuffer, ListedAllocated
<1>4. ChannelOK'
  BY <1>0 DEF AddNewBuffer, Idle, ChannelOK, Busy
<1>5. RequestsOK'
  BY <1>0 DEF AddNewBuffer, Idle, RequestsOK, Posted, Serving, Answered,
     Busy, Told, Command, Parameter
<1>6. ToldOK'
  BY <1>0 DEF AddNewBuffer, Idle, ToldOK, Told
<1> QED BY <1>1, <1>2, <1>3, <1>4, <1>5, <1>6 DEF Inv

LEMMA LockClientKeeps ==
  ASSUME Inv, TypeOK', NEW p \in Process, LockClient(p)
  PROVE  Inv'
<1> USE DEF msgVars, hevVars, sendVars, callVars, mixVars, daemonVars,
            Goto, Begin, Failure, Success
<1>0. /\ TypeOK /\ PlaceOK /\ AreaOK /\ ListedAllocated /\ ChannelOK
      /\ RequestsOK /\ ToldOK
  BY DEF Inv
<1>1. PlaceOK'
  BY <1>0 DEF LockClient, PlaceOK
<1>2. AreaOK'
  BY <1>0 DEF LockClient, AreaOK
<1>3. ListedAllocated'
  BY <1>0 DEF LockClient, ListedAllocated
<1>4. ChannelOK'
  BY <1>0 DEF LockClient, ChannelOK, Busy
<1>5. RequestsOK'
  BY <1>0 DEF LockClient, RequestsOK, Posted, Serving, Answered, Busy, Told,
     Command, Parameter
<1>6. ToldOK'
  BY <1>0 DEF LockClient, ToldOK, Told
<1> QED BY <1>1, <1>2, <1>3, <1>4, <1>5, <1>6 DEF Inv

LEMMA ExitKeeps ==
  ASSUME Inv, TypeOK', NEW p \in Process, Exit(p)
  PROVE  Inv'
<1> USE DEF msgVars, hevVars, sendVars, callVars, mixVars, daemonVars,
            Goto, Begin, Failure, Success
<1>0. /\ TypeOK /\ PlaceOK /\ AreaOK /\ ListedAllocated /\ ChannelOK
      /\ RequestsOK /\ ToldOK
  BY DEF Inv
<1>1. PlaceOK'
  BY <1>0, ProcessAssumption DEF Exit, PlaceOK, TypeOK
<1>2. AreaOK'
  BY <1>0 DEF Exit, Idle, AreaOK
<1>3. ListedAllocated'
  BY <1>0 DEF Exit, ListedAllocated
<1>4. ChannelOK'
  BY <1>0 DEF Exit, Idle, ChannelOK, Busy
<1>5. RequestsOK'
  BY <1>0 DEF Exit, Idle, RequestsOK, Posted, Serving, Answered, Busy, Told,
     Command, Parameter
<1>6. ToldOK'
  BY <1>0 DEF Exit, Idle, ToldOK, Told
<1> QED BY <1>1, <1>2, <1>3, <1>4, <1>5, <1>6 DEF Inv

LEMMA ReturnCreateKeeps ==
  ASSUME Inv, TypeOK', NEW p \in Process, Return(p), ReturnCreate(p)
  PROVE  Inv'
<1> USE DEF msgVars, hevVars, sendVars, callVars, mixVars, daemonVars,
            Goto, Begin, Failure, Success
<1>0. /\ TypeOK /\ PlaceOK /\ AreaOK /\ ListedAllocated /\ ChannelOK
      /\ RequestsOK /\ ToldOK
  BY DEF Inv
<1>1. PlaceOK'
  BY <1>0 DEF ReturnCreate, PlaceOK, TypeOK
<1>2. AreaOK'
  BY <1>0 DEF Return, ReturnCreate, AreaOK
<1>3. ListedAllocated'
  <2>1. /\ object[p] \in Client
        /\ result[p] = Failure => object[p] \notin clients
    BY <1>0 DEF Return, ReturnCreate, PlaceOK, ToldOK, Told, Thread
  <2>2. \A c \in clients : memory'[c] = memory[c]
    BY <1>0, <2>1 DEF ReturnCreate
  <2> QED BY <1>0, <2>2 DEF ListedAllocated, Return
<1>4. ChannelOK'
  BY <1>0 DEF Return, ReturnCreate, ChannelOK, Busy
<1>5. RequestsOK'
  BY <1>0 DEF Return, ReturnCreate, RequestsOK, Posted, Serving, Answered,
     Busy, Told, Command, Parameter
<1>6. ToldOK'
  BY <1>0 DEF Return, ReturnCreate, ToldOK, Told, TypeOK
<1> QED BY <1>1, <1>2, <1>3, <1>4, <1>5, <1>6 DEF Inv

LEMMA ReturnDestroyKeeps ==
  ASSUME Inv, TypeOK', NEW p \in Process, Return(p), ReturnDestroy(p)
  PROVE  Inv'
<1> USE DEF msgVars, hevVars, sendVars, callVars, mixVars, daemonVars,
            Goto, Begin, Failure, Success
<1>0. /\ TypeOK /\ PlaceOK /\ AreaOK /\ ListedAllocated /\ ChannelOK
      /\ RequestsOK /\ ToldOK
  BY DEF Inv
<1>1. PlaceOK'
  BY <1>0 DEF Return, ReturnDestroy, PlaceOK, TypeOK
<1>2. AreaOK'
  BY <1>0 DEF Return, ReturnDestroy, AreaOK, TypeOK
<1>3. ListedAllocated'
  <2>1. /\ object[p] \in Client
        /\ result[p] # Failure => object[p] \notin clients
    BY <1>0 DEF Return, ReturnDestroy, PlaceOK, ToldOK, Told, Thread
  <2>2. \A c \in clients : memory'[c] = memory[c]
    BY <1>0, <2>1 DEF ReturnDestroy
  <2> QED BY <1>0, <2>2 DEF ListedAllocated, Return
<1>4. ChannelOK'
  BY <1>0 DEF Return, ReturnDestroy, ChannelOK, Busy, TypeOK
<1>5. RequestsOK'
  BY <1>0 DEF Return, ReturnDestroy, RequestsOK, Posted, Serving, Answered,
     Busy, Told, Command, Parameter, TypeOK
<1>6. ToldOK'
  BY <1>0 DEF Return, ReturnDestroy, ToldOK, Told, TypeOK
<1> QED BY <1>1, <1>2, <1>3, <1>4, <1>5, <1>6 DEF Inv

LEMMA ReturnAddNewBufferKeeps ==
  ASSUME Inv, TypeOK', NEW p \in Process, Return(p), ReturnAddNewBuffer(p)
  PROVE  Inv'
<1> USE DEF msgVars, hevVars, sendVars, callVars, mixVars, daemonVars,
            Goto, Begin, Failure, Success
<1>0. /\ TypeOK /\ PlaceOK /\ AreaOK /\ ListedAllocated /\ ChannelOK
      /\ RequestsOK /\ ToldOK
  BY DEF Inv
<1>1. PlaceOK'
  BY <1>0 DEF ReturnAddNewBuffer, PlaceOK, TypeOK
<1>2. AreaOK'
  BY <1>0 DEF Return, ReturnAddNewBuffer, AreaOK
<1>3. ListedAllocated'
  BY <1>0 DEF Return, ReturnAddNewBuffer, ListedAllocated
<1>4. ChannelOK'
  BY <1>0 DEF Return, ReturnAddNewBuffer, ChannelOK, Busy
<1>5. RequestsOK'
  BY <1>0 DEF Return, ReturnAddNewBuffer, RequestsOK, Posted, Serving,
     Answered, Busy, Told, Command, Parameter
<1>6. ToldOK'
  BY <1>0 DEF Return, ReturnAddNewBuffer, ToldOK, Told
<1> QED BY <1>1, <1>2, <1>3, <1>4, <1>5, <1>6 DEF Inv

LEMMA ReturnExitKeeps ==
  ASSUME Inv, TypeOK', NEW p \in Process, Return(p), ReturnExit(p)
  PROVE  Inv'
<1> USE DEF msgVars, hevVars, sendVars, callVars, mixVars, daemonVars,
            Goto, Begin, Failure, Success
<1>0. /\ TypeOK /\ PlaceOK /\ AreaOK /\ ListedAllocated /\ ChannelOK
      /\ RequestsOK /\ ToldOK
  BY DEF Inv
<1>1. PlaceOK'
  BY <1>0 DEF ReturnExit, PlaceOK, TypeOK
<1>2. AreaOK'
  BY <1>0 DEF Return, ReturnExit, AreaOK, TypeOK
<1>3. ListedAllocated'
  BY <1>0 DEF Return, ReturnExit, ListedAllocated
<1>4. ChannelOK'
  BY <1>0 DEF Return, ReturnExit, ChannelOK, Busy, TypeOK
<1>5. RequestsOK'
  BY <1>0 DEF Return, ReturnExit, RequestsOK, Posted, Serving, Answered,
     Busy, Told, Command, Parameter, TypeOK
<1>6. ToldOK'
  BY <1>0 DEF Return, ReturnExit, ToldOK, Told, TypeOK
<1> QED BY <1>1, <1>2, <1>3, <1>4, <1>5, <1>6 DEF Inv

LEMMA StopDaemonThreadKeeps ==
  ASSUME Inv, TypeOK', StopDaemonThread
  PROVE  Inv'
<1> USE DEF msgVars, hevVars, sendVars, callVars, mixVars, daemonVars,
            Goto, Begin, Failure, Success
<1>0. /\ TypeOK /\ PlaceOK /\ AreaOK /\ ListedAllocated /\ ChannelOK
      /\ RequestsOK /\ ToldOK
  BY DEF Inv
<1>1. PlaceOK'
  BY <1>0 DEF StopDaemonThread, PlaceOK, TypeOK
<1>2. AreaOK'
  BY <1>0 DEF StopDaemonThread, Idle, AreaOK
<1>3. ListedAllocated'
  BY <1>0 DEF StopDaemonThread, ListedAllocated
<1>4. ChannelOK'
  BY <1>0 DEF StopDaemonThread, Idle, ChannelOK, Busy
<1>5. RequestsOK'
  BY <1>0 DEF StopDaemonThread, Idle, RequestsOK, Posted, Serving, Answered,
     Busy, Told, Command, Parameter
<1>6. ToldOK'
  BY <1>0 DEF StopDaemonThread, Idle, ToldOK, Told
<1> QED BY <1>1, <1>2, <1>3, <1>4, <1>5, <1>6 DEF Inv

LEMMA ReturnStopKeeps ==
  ASSUME Inv, TypeOK', ReturnStop
  PROVE  Inv'
<1> USE DEF msgVars, hevVars, sendVars, callVars, mixVars, daemonVars,
            Goto, Begin, Failure, Success
<1>0. /\ TypeOK /\ PlaceOK /\ AreaOK /\ ListedAllocated /\ ChannelOK
      /\ RequestsOK /\ ToldOK
  BY DEF Inv
<1>1. PlaceOK'
  BY <1>0 DEF ReturnStop, PlaceOK, TypeOK
<1>2. AreaOK'
  BY <1>0 DEF ReturnStop, AreaOK
<1>3. ListedAllocated'
  BY <1>0 DEF ReturnStop, ListedAllocated
<1>4. ChannelOK'
  BY <1>0 DEF ReturnStop, ChannelOK, Busy
<1>5. RequestsOK'
  BY <1>0 DEF ReturnStop, RequestsOK, Posted, Serving, Answered, Busy, Told,
     Command, Parameter
<1>6. ToldOK'
  BY <1>0 DEF ReturnStop, ToldOK, Told
<1> QED BY <1>1, <1>2, <1>3, <1>4, <1>5, <1>6 DEF Inv

LEMMA StartDaemonThreadKeeps ==
  ASSUME Inv, TypeOK', StartDaemonThread
  PROVE  Inv'
<1> USE DEF msgVars, hevVars, sendVars, callVars, mixVars, daemonVars,
            Goto, Begin, Failure, Success
<1>0. /\ TypeOK /\ PlaceOK /\ AreaOK /\ ListedAllocated /\ ChannelOK
      /\ RequestsOK /\ ToldOK
  BY DEF Inv
<1>1. PlaceOK'
  BY <1>0 DEF StartDaemonThread, PlaceOK
<1>2. AreaOK'
  BY <1>0 DEF StartDaemonThread, AreaOK, TypeOK
<1>3. ListedAllocated'
  BY <1>0 DEF StartDaemonThread, ListedAllocated
<1>4. ChannelOK'
  BY <1>0 DEF StartDaemonThread, ChannelOK, Busy
<1>5. RequestsOK'
  BY <1>0 DEF StartDaemonThread, Idle, RequestsOK
<1>6. ToldOK'
  BY <1>0 DEF StartDaemonThread, ToldOK
<1> QED BY <1>1, <1>2, <1>3, <1>4, <1>5, <1>6 DEF Inv

LEMMA WaitForCommandKeeps ==
  ASSUME Inv, TypeOK', WaitForCommand
  PROVE  Inv'
<1> USE DEF msgVars, hevVars, sendVars, callVars, mixVars, daemonVars,
            Goto, Begin, Failure, Success
<1>0. /\ TypeOK /\ PlaceOK /\ AreaOK /\ ListedAllocated /\ ChannelOK
      /\ RequestsOK /\ ToldOK
  BY DEF Inv
<1>1. PlaceOK'
  BY <1>0 DEF WaitForCommand, PlaceOK
<1>2. AreaOK'
  BY <1>0 DEF WaitForCommand, AreaOK
<1>3. ListedAllocated'
  BY <1>0 DEF WaitForCommand, ListedAllocated
<1>4. ChannelOK'
  BY <1>0 DEF WaitForCommand, ChannelOK
<1>5. RequestsOK'
  BY <1>0 DEF WaitForCommand, RequestsOK, Posted, Serving, Answered, Told,
     Command, Parameter
<1>6. ToldOK'
  BY <1>0 DEF WaitForCommand, ToldOK, Told
<1> QED BY <1>1, <1>2, <1>3, <1>4, <1>5, <1>6 DEF Inv

LEMMA DispatchKeeps ==
  ASSUME Inv, TypeOK', Dispatch
  PROVE  Inv'
<1> USE DEF msgVars, hevVars, sendVars, callVars, mixVars, daemonVars,
            Goto, Begin, Failure, Success
<1>0. /\ TypeOK /\ PlaceOK /\ AreaOK /\ ListedAllocated /\ ChannelOK
      /\ RequestsOK /\ ToldOK
  BY DEF Inv
<1>1. PlaceOK'
  BY <1>0 DEF Dispatch, daemonUnchanged, PlaceOK
<1>2. AreaOK'
  BY <1>0 DEF Dispatch, daemonUnchanged, AreaOK
<1>3. ListedAllocated'
  BY <1>0 DEF Dispatch, daemonUnchanged, ListedAllocated
<1>4. ChannelOK'
  BY <1>0 DEF Dispatch, daemonUnchanged, ChannelOK, Busy
<1>5. RequestsOK'
  <2>1. PICK t \in Thread :
          /\ at[t] = "result" /\ result[t] = Failure /\ Serving(t)
          /\ \A u \in Thread \ {t} :
               at[u] \notin {"write", "result", "leave"}
    BY Served DEF Dispatch
  <2>2. \A u \in Thread : at'[u] = "result" => u = t
    BY <2>1 DEF daemonUnchanged, Dispatch
  <2>3. Command(t)' = Command(t) /\ Parameter(t)' = Parameter(t)
    BY DEF daemonUnchanged, Dispatch, Command, Parameter
  <2>4. /\ ~g_hevDaemonMsgReady' /\ ~g_hevDaemonMsgResultReady'
        /\ g_pDaemonMsgParameter' = Parameter(t)
        /\ result'[t] = Failure
        /\ \A v : Told(t, v)' <=> Told(t, v)
    BY <2>1 DEF Dispatch, daemonUnchanged, Serving, Told
  <2>5. g_iDaemonMsgValue = Command(t) /\ Told(t, Failure)
    BY <2>1 DEF Serving, Dispatch
  <2>6. \/ daemon' = "takelock" /\ Command(t) = TAKECLIENT
        \/ daemon' = "rellock" /\ Command(t) = RELEASECLIENT
        \/ daemon' = "getlock" /\ Command(t) = GETCLIENTFORPID
        \/ daemon' \in {"answer", "shutdown"} /\ Told(t, g_iDaemonMsgValue')
    <3>1. call[t] \in {"create", "destroy", "exitdestroy"} =>
            Command(t) \in {TAKECLIENT, RELEASECLIENT}
      BY DEF Command
    <3>2. Command(t) \notin {TAKECLIENT, RELEASECLIENT} =>
            \A v : Told(t, v)
      BY <3>1 DEF Told
    <3> QED BY <2>5, <3>2 DEF Dispatch, Done, TAKECLIENT, RELEASECLIENT,
    TAKEBUFFER, SHUTDOWN
  <2> QED BY <2>1, <2>2, <2>3, <2>4, <2>5, <2>6 DEF RequestsOK, Serving,
  Answered
<1>6. ToldOK'
  BY <1>0 DEF Dispatch, daemonUnchanged, ToldOK, Told
<1> QED BY <1>1, <1>2, <1>3, <1>4, <1>5, <1>6 DEF Inv

LEMMA LockListKeeps ==
  ASSUME Inv, TypeOK', 
         \/ LockList("takelock", "takelink")
         \/ LockList("rellock", "relunlink")
         \/ LockList("getlock", "getfind")
  PROVE  Inv'
<1> USE DEF msgVars, hevVars, sendVars, callVars, mixVars, daemonVars,
            Goto, Begin, Failure, Success
<1>0. /\ TypeOK /\ PlaceOK /\ AreaOK /\ ListedAllocated /\ ChannelOK
      /\ RequestsOK /\ ToldOK
  BY DEF Inv
<1>1. PlaceOK'
  BY <1>0 DEF LockList, daemonUnchanged, PlaceOK
<1>2. AreaOK'
  BY <1>0 DEF LockList, daemonUnchanged, AreaOK
<1>3. ListedAllocated'
  BY <1>0 DEF LockList, daemonUnchanged, ListedAllocated
<1>4. ChannelOK'
  BY <1>0 DEF LockList, daemonUnchanged, ChannelOK, Busy
<1>5. RequestsOK'
  BY <1>0 DEF LockList, Done, daemonUnchanged, RequestsOK, Posted, Serving,
     Answered, Busy, Told, Command, Parameter
<1>6. ToldOK'
  BY <1>0 DEF LockList, daemonUnchanged, ToldOK, Told
<1> QED BY <1>1, <1>2, <1>3, <1>4, <1>5, <1>6 DEF Inv

LEMMA TakeLinkKeeps ==
  ASSUME Inv, TypeOK', TakeLink
  PROVE  Inv'
<1> USE DEF msgVars, hevVars, sendVars, callVars, mixVars, daemonVars,
            Goto, Begin, Failure, Success
<1>0. /\ TypeOK /\ PlaceOK /\ AreaOK /\ ListedAllocated /\ ChannelOK
      /\ RequestsOK /\ ToldOK
  BY DEF Inv
<1>1. PlaceOK'
  BY <1>0 DEF TakeLink, daemonUnchanged, PlaceOK
<1>2. AreaOK'
  BY <1>0 DEF TakeLink, daemonUnchanged, AreaOK
<1>3. ListedAllocated'
  <2>1. PICK t \in Thread :
          /\ at[t] = "result" /\ result[t] = Failure /\ Serving(t)
          /\ \A u \in Thread \ {t} :
               at[u] \notin {"write", "result", "leave"}
    BY Served DEF TakeLink
  <2>2. /\ call[t] = "create" /\ g_pDaemonMsgParameter = object[t]
        /\ object[t] \in Client /\ memory[object[t]] = t
        /\ clients' = clients \cup {object[t]}
        /\ g_iDaemonMsgValue' = Success /\ daemon' = "answer"
    BY <1>0, <2>1, Commands DEF TakeLink, Done, Serving, PlaceOK
  <2>3. t # Nil
    BY <1>0, ProcessAssumption DEF Thread
  <2> QED BY <1>0, <2>2, <2>3 DEF ListedAllocated, TakeLink, daemonUnchanged
<1>4. ChannelOK'
  BY <1>0 DEF TakeLink, daemonUnchanged, ChannelOK, Busy
<1>5. RequestsOK'
  <2>1. PICK t \in Thread :
          /\ at[t] = "result" /\ result[t] = Failure /\ Serving(t)
          /\ \A u \in Thread \ {t} :
               at[u] \notin {"write", "result", "leave"}
    BY Served DEF TakeLink
  <2>2. /\ call[t] = "create" /\ g_pDaemonMsgParameter = object[t]
        /\ object[t] \in Client /\ memory[object[t]] = t
        /\ clients' = clients \cup {object[t]}
        /\ g_iDaemonMsgValue' = Success /\ daemon' = "answer"
    BY <1>0, <2>1, Commands DEF TakeLink, Done, Serving, PlaceOK
  <2>3. \A u \in Thread : at'[u] = "result" => u = t
    BY <2>1 DEF daemonUnchanged, TakeLink
  <2>4. Told(t, g_iDaemonMsgValue)'
    BY <2>2 DEF Told, TakeLink, daemonUnchanged
  <2>5. /\ ~g_hevDaemonMsgReady' /\ ~g_hevDaemonMsgResultReady'
        /\ result'[t] = Failure
    BY <2>1 DEF Serving, TakeLink, daemonUnchanged
  <2> QED BY <2>2, <2>3, <2>4, <2>5 DEF RequestsOK, Answered
<1>6. ToldOK'
  <2>1. PICK t \in Thread :
          /\ at[t] = "result" /\ result[t] = Failure /\ Serving(t)
          /\ \A u \in Thread \ {t} :
               at[u] \notin {"write", "result", "leave"}
    BY Served DEF TakeLink
  <2>2. /\ call[t] = "create" /\ g_pDaemonMsgParameter = object[t]
        /\ object[t] \in Client /\ memory[object[t]] = t
        /\ clients' = clients \cup {object[t]}
        /\ g_iDaemonMsgValue' = Success /\ daemon' = "answer"
    BY <1>0, <2>1, Commands DEF TakeLink, Done, Serving, PlaceOK
  <2>3. \A u \in Thread \ {t} : at[u] # "out" =>
          \A v : Told(u, v) => Told(u, v)'
    BY <1>0, <2>2 DEF Told, PlaceOK, TakeLink, daemonUnchanged
  <2>4. at' = at /\ result' = result
    BY DEF TakeLink, daemonUnchanged
  <2> QED BY <1>0, <2>1, <2>3, <2>4 DEF ToldOK
<1> QED BY <1>1, <1>2, <1>3, <1>4, <1>5, <1>6 DEF Inv

LEMMA UnlinkKeeps ==
  ASSUME Inv, TypeOK', Unlink
  PROVE  Inv'
<1> USE DEF msgVars, hevVars, sendVars, callVars, mixVars, daemonVars,
            Goto, Begin, Failure, Success
<1>0. /\ TypeOK /\ PlaceOK /\ AreaOK /\ ListedAllocated /\ ChannelOK
      /\ RequestsOK /\ ToldOK
  BY DEF Inv
<1>1. PlaceOK'
  BY <1>0 DEF Unlink, daemonUnchanged, PlaceOK
<1>2. AreaOK'
  BY <1>0 DEF Unlink, daemonUnchanged, AreaOK
<1>3. ListedAllocated'
  BY <1>0 DEF Unlink, daemonUnchanged, ListedAllocated
<1>4. ChannelOK'
  BY <1>0 DEF Unlink, daemonUnchanged, ChannelOK, Busy
<1>5. RequestsOK'
  BY <1>0 DEF Unlink, Done, daemonUnchanged, RequestsOK, Posted, Serving,
     Answered, Busy, Told, Parameter
<1>6. ToldOK'
  <2>1. PICK t \in Thread :
          /\ at[t] = "result" /\ result[t] = Failure /\ Serving(t)
          /\ \A u \in Thread \ {t} :
               at[u] \notin {"write", "result", "leave"}
    BY Served DEF Unlink
  <2>2. /\ call[t] \in {"destroy", "exitdestroy"}
        /\ g_pDaemonMsgParameter = object[t]
        /\ object[t] \in Client /\ memory[object[t]] = t
        /\ clients' = clients \ {object[t]}
    BY <1>0, <2>1, Commands DEF Unlink, Serving, PlaceOK
  <2>3. \A u \in Thread \ {t} : at[u] # "out" =>
          \A v : Told(u, v) => Told(u, v)'
    BY <1>0, <2>2 DEF Told, PlaceOK, Unlink, daemonUnchanged
  <2>4. at' = at /\ result' = result
    BY DEF Unlink, daemonUnchanged
  <2> QED BY <1>0, <2>1, <2>3, <2>4 DEF ToldOK
<1> QED BY <1>1, <1>2, <1>3, <1>4, <1>5, <1>6 DEF Inv

LEMMA FindKeeps ==
  ASSUME Inv, TypeOK', Find
  PROVE  Inv'
<1> USE DEF msgVars, hevVars, sendVars, callVars, mixVars, daemonVars,
            Goto, Begin, Failure, Success
<1>0. /\ TypeOK /\ PlaceOK /\ AreaOK /\ ListedAllocated /\ ChannelOK
      /\ RequestsOK /\ ToldOK
  BY DEF Inv
<1>1. PlaceOK'
  BY <1>0 DEF Find, daemonUnchanged, PlaceOK
<1>2. AreaOK'
  BY <1>0 DEF Find, daemonUnchanged, AreaOK
<1>3. ListedAllocated'
  BY <1>0 DEF Find, daemonUnchanged, ListedAllocated
<1>4. ChannelOK'
  BY <1>0 DEF Find, daemonUnchanged, ChannelOK, Busy
<1>5. RequestsOK'
  <2>1. PICK t \in Thread :
          /\ at[t] = "result" /\ result[t] = Failure /\ Serving(t)
          /\ \A u \in Thread \ {t} :
               at[u] \notin {"write", "result", "leave"}
    BY Served DEF Find
  <2>2. \A u \in Thread : at'[u] = "result" => u = t
    BY <2>1 DEF daemonUnchanged, Find
  <2>3. call[t] = "exit"
    BY <1>0, <2>1, Commands DEF Find, Serving
  <2>4. Told(t, g_iDaemonMsgValue)' /\ daemon' = "answer"
    BY <2>3 DEF Told, Find, Done, daemonUnchanged
  <2>5. /\ ~g_hevDaemonMsgReady' /\ ~g_hevDaemonMsgResultReady'
        /\ result'[t] = Failure
    BY <2>1 DEF Serving, Find, daemonUnchanged
  <2> QED BY <2>2, <2>4, <2>5 DEF RequestsOK, Answered
<1>6. ToldOK'
  BY <1>0 DEF Find, daemonUnchanged, ToldOK, Told
<1> QED BY <1>1, <1>2, <1>3, <1>4, <1>5, <1>6 DEF Inv

LEMMA AnswerKeeps ==
  ASSUME Inv, TypeOK', Answer
  PROVE  Inv'
<1> USE DEF msgVars, hevVars, sendVars, callVars, mixVars, daemonVars,
            Goto, Begin, Failure, Success
<1>0. /\ TypeOK /\ PlaceOK /\ AreaOK /\ ListedAllocated /\ ChannelOK
      /\ RequestsOK /\ ToldOK
  BY DEF Inv
<1>1. PlaceOK'
  BY <1>0 DEF Answer, PlaceOK
<1>2. AreaOK'
  BY <1>0 DEF Answer, AreaOK
<1>3. ListedAllocated'
  BY <1>0 DEF Answer, ListedAllocated
<1>4. ChannelOK'
  BY <1>0 DEF Answer, ChannelOK, Busy
<1>5. RequestsOK'
  BY <1>0 DEF Answer, RequestsOK, Posted, Serving, Answered, Busy, Told
<1>6. ToldOK'
  BY <1>0 DEF Answer, ToldOK, Told
<1> QED BY <1>1, <1>2, <1>3, <1>4, <1>5, <1>6 DEF Inv

LEMMA EndThreadKeeps ==
  ASSUME Inv, TypeOK', EndThread
  PROVE  Inv'
<1> USE DEF msgVars, hevVars, sendVars, callVars, mixVars, daemonVars,
            Goto, Begin, Failure, Success
<1>0. /\ TypeOK /\ PlaceOK /\ AreaOK /\ ListedAllocated /\ ChannelOK
      /\ RequestsOK /\ ToldOK
  BY DEF Inv
<1>1. PlaceOK'
  BY <1>0 DEF EndThread, daemonUnchanged, PlaceOK
<1>2. AreaOK'
  BY <1>0 DEF EndThread, daemonUnchanged, AreaOK
<1>3. ListedAllocated'
  BY <1>0 DEF EndThread, daemonUnchanged, ListedAllocated
<1>4. ChannelOK'
  BY <1>0 DEF EndThread, daemonUnchanged, ChannelOK, Busy
<1>5. RequestsOK'
  BY <1>0 DEF EndThread, daemonUnchanged, RequestsOK, Posted, Serving,
     Answered, Busy, Told, Command, Parameter
<1>6. ToldOK'
  BY <1>0 DEF EndThread, daemonUnchanged, ToldOK, Told
<1> QED BY <1>1, <1>2, <1>3, <1>4, <1>5, <1>6 DEF Inv

LEMMA InvNext ==
  ASSUME Reliable, Inv, [Next]_vars
  PROVE  Inv'
<1>1. TypeOK'
  BY TypeNext DEF Inv
<1>2. CASE Api
  BY <1>1, <1>2, CreateClientKeeps, DestroyClientKeeps, AddNewBufferKeeps,
     LockClientKeeps, ExitKeeps, ReturnCreateKeeps, ReturnDestroyKeeps,
     ReturnAddNewBufferKeeps, ReturnExitKeeps, StopDaemonThreadKeeps,
     ReturnStopKeeps, StartDaemonThreadKeeps DEF Api, Return
<1>3. CASE Daemon
  BY <1>1, <1>3, WaitForCommandKeeps, DispatchKeeps, LockListKeeps,
     TakeLinkKeeps, UnlinkKeeps, FindKeeps, AnswerKeeps,
     EndThreadKeeps DEF Daemon
<1>4. CASE Mixer
  BY <1>1, <1>4, QuietKeeps DEF Mixer, BeginMix, VisitClient, MixClient,
     EndMix, mixUnchanged
<1>5. CASE \E t \in Thread : Send(t)
  BY <1>1, <1>5, RequestAreaKeeps, WriteCommandKeeps, GetResultKeeps,
     GiveUpResultKeeps, LeaveAreaKeeps DEF Send
<1>6. CASE UNCHANGED vars
  BY <1>1, <1>6, QuietKeeps DEF vars, daemonVars
<1> QED BY <1>2, <1>3, <1>4, <1>5, <1>6 DEF Next

-----------------------------------------------------------------------------
LEMMA TypeAlways == Spec => []TypeOK
<1>1. TypeOK /\ [Next]_vars => TypeOK'
  BY TypeNext
<1> QED BY TypeInit, <1>1, PTL DEF Spec

\* Every variable of the channel keeps its type: the command and result code
\* stays in its range, the list holds clients only.
THEOREM TypeCorrect == Spec => []TypeOK
BY TypeAlways

LEMMA InvAlways ==
  ASSUME Reliable
  PROVE  Spec => []Inv
<1>1. Inv /\ [Next]_vars => Inv'
  BY InvNext
<1> QED BY InvInit, <1>1, PTL DEF Spec

\* When nobody gives up the wait for a result, the mixer never walks over a
\* client whose memory was freed.
THEOREM ListedCorrect ==
  ASSUME Reliable
  PROVE  Spec => []ListedAllocated
<1>1. Inv => ListedAllocated
  BY DEF Inv
<1> QED BY InvAlways, <1>1, PTL

\* ... and AudMixCreateClient() and AudMixDestroyClient() are told what became
\* of their own client.
THEOREM AnswerCorrect ==
  ASSUME Reliable
  PROVE  Spec => []AnswerTrue
<1>1. Inv => AnswerTrue
  BY DEF Inv, ToldOK, Told, AnswerTrue, Thread
<1> QED BY InvAlways, <1>1, PTL

\* ... and the result of a command, whose code is that of the shutdown command,
\* is never taken for a command.
THEOREM ShutdownCorrect ==
  ASSUME Reliable
  PROVE  Spec => ShutdownOnlyOnRequest
<1>1. Inv /\ [Next]_vars =>
        [daemon # "shutdown" /\ daemon' = "shutdown"
           => \A p \in Process : at[p] # "result"]_vars
  <2> SUFFICES ASSUME Inv, Next, daemon # "shutdown", daemon' = "shutdown",
                      NEW p \in Process, at[p] = "result"
               PROVE  FALSE
    OBVIOUS
  <2>1. Dispatch
    BY DEF Next, Api, Daemon, Mixer, Send, RequestArea, WriteCommand,
       GetResult, GiveUpResult, LeaveArea, CreateClient, DestroyClient,
       AddNewBuffer, LockClient, Exit, Return, StopDaemonThread, ReturnStop,
       StartDaemonThread, WaitForCommand, LockList, TakeLink, Unlink, Find,
       Answer, EndThread, BeginMix, VisitClient, MixClient, EndMix,
       mixUnchanged, daemonVars, Done
  <2>2. g_iDaemonMsgValue = SHUTDOWN /\ daemon = "dispatch"
    BY <2>1 DEF Dispatch, Done
  <2>3. PICK t \in Thread : /\ at[t] = "result" /\ Serving(t)
                            /\ \A u \in Thread \ {t} : at[u] # "result"
    BY <2>2, Served
  <2>4. Command(t) = SHUTDOWN
    BY <2>2, <2>3 DEF Serving
  <2>5. t = Admin /\ p # Admin
    BY <2>3, <2>4, Commands, ProcessAssumption DEF Inv
  <2> QED BY <2>3, <2>5 DEF Thread
<1> QED BY InvAlways, <1>1, PTL DEF Spec, ShutdownOnlyOnRequest

-----------------------------------------------------------------------------
(* The clients of a process that has ended, when only the mutexes of the   *)
(* clients are given up.                                                   *)

OnlyClients == TimesOut \subseteq {"client"}

\* The daemon has no client of t any more.
NoneOf(t) == \A c \in clients : memory[c] # t

\* What internal_CleanupClient() is told: a result v and a client o.
FoundFor(t, v, o) ==
  /\ v = Failure => Dead \/ NoneOf(t)
  /\ v # Failure => o \in Client /\ memory[o] = t

ExitOK ==
  \A p \in Process :
    /\ call[p] = "gone" => Dead \/ NoneOf(p)
    /\ call[p] = "exit" /\ at[p] \in {"leave", "return"} =>
         FoundFor(p, result[p], object[p])
    /\ /\ call[p] = "exit" /\ at[p] = "result"
       /\ daemon \in {"answer", "shutdown"} \/ g_hevDaemonMsgResultReady
       => FoundFor(p, g_iDaemonMsgValue, g_pDaemonMsgParameter)

LEMMA ExitInit == Init => ExitOK
BY DEF Init, ExitOK, Thread

LEMMA RequestAreaExit ==
  ASSUME OnlyClients, Inv, Inv', ExitOK, NEW t \in Thread, RequestArea(t)
  PROVE  ExitOK'
BY DEF Inv, PlaceOK, AreaOK, ExitOK, FoundFor, NoneOf, Dead, OnlyClients,
   RequestArea, GiveUp, msgVars, hevVars, sendVars, callVars, daemonVars,
   Goto, Thread, TypeOK

LEMMA WriteCommandExit ==
  ASSUME OnlyClients, Inv, ExitOK, NEW t \in Thread, WriteCommand(t)
  PROVE  ExitOK'
<1>1. \A u \in Thread : at[u] # "result"
  BY Alone DEF WriteCommand
<1>2. /\ ~g_hevDaemonMsgResultReady /\ daemon \notin {"answer", "shutdown"}
      /\ g_hevDaemonMsgReady => Dead
  BY <1>1 DEF Inv, ChannelOK, Busy, Dead
<1>3. \A u \in Thread \ {t} : at'[u] = at[u] /\ result'[u] = result[u]
  BY DEF WriteCommand, Goto
<1>4. /\ result'[t] = Failure
      /\ (at'[t] = "leave" /\ Dead) \/ at'[t] = "result"
  BY <1>2 DEF WriteCommand, Inv, TypeOK, Goto
<1>5. UNCHANGED <<call, object, daemon, clients, memory,
                  g_hevDaemonMsgResultReady>>
  BY DEF WriteCommand, callVars, daemonVars
<1> QED BY <1>1, <1>2, <1>3, <1>4, <1>5 DEF ExitOK, FoundFor, NoneOf, Dead,
           Thread

LEMMA GetResultExit ==
  ASSUME OnlyClients, Inv, Inv', ExitOK, NEW t \in Thread, GetResult(t)
  PROVE  ExitOK'
BY DEF Inv, PlaceOK, AreaOK, ExitOK, FoundFor, NoneOf, Dead, OnlyClients,
   GetResult, msgVars, hevVars, sendVars, daemonVars, Goto, TypeOK

LEMMA GiveUpResultExit ==
  ASSUME OnlyClients, Inv, ExitOK, NEW t \in Thread, GiveUpResult(t)
  PROVE  ExitOK'
<1>1. Dead /\ at[t] = "result" /\ result[t] = Failure
  BY DEF GiveUpResult, OnlyClients, Inv, RequestsOK
<1>2. \A u \in Thread \ {t} : at'[u] = at[u]
  BY DEF GiveUpResult, Goto
<1>3. at'[t] = "leave"
  BY DEF GiveUpResult, Inv, TypeOK, Goto
<1>4. UNCHANGED <<call, object, result, daemon, clients, memory,
                  g_hevDaemonMsgResultReady, g_iDaemonMsgValue,
                  g_pDaemonMsgParameter>>
  BY DEF GiveUpResult, callVars, daemonVars, msgVars, hevVars
<1> QED BY <1>1, <1>2, <1>3, <1>4 DEF ExitOK, FoundFor, Dead, Thread

LEMMA LeaveAreaExit ==
  ASSUME OnlyClients, Inv, Inv', ExitOK, NEW t \in Thread, LeaveArea(t)
  PROVE  ExitOK'
BY DEF Inv, PlaceOK, AreaOK, ExitOK, FoundFor, NoneOf, Dead, OnlyClients,
   LeaveArea, msgVars, hevVars, sendVars, callVars, daemonVars, Goto

LEMMA CreateClientExit ==
  ASSUME OnlyClients, Inv, Inv', ExitOK, NEW p \in Process, NEW c \in Client,
         CreateClient(p, c)
  PROVE  ExitOK'
BY ProcessAssumption DEF Inv, PlaceOK, AreaOK, ExitOK, FoundFor, NoneOf,
   Dead, OnlyClients, CreateClient, Idle, msgVars, hevVars, sendVars,
   daemonVars, Goto, Begin

LEMMA DestroyClientExit ==
  ASSUME OnlyClients, Inv, Inv', ExitOK, NEW p \in Process, NEW c \in Client,
         DestroyClient(p, c)
  PROVE  ExitOK'
BY DEF Inv, PlaceOK, AreaOK, ExitOK, FoundFor, NoneOf, Dead, OnlyClients,
   DestroyClient, Idle, msgVars, hevVars, sendVars, daemonVars, Goto, Begin

LEMMA AddNewBufferExit ==
  ASSUME OnlyClients, Inv, Inv', ExitOK, NEW p \in Process, NEW c \in Client,
         AddNewBuffer(p, c)
  PROVE  ExitOK'
BY DEF Inv, PlaceOK, AreaOK, ExitOK, FoundFor, NoneOf, Dead, OnlyClients,
   AddNewBuffer, Idle, msgVars, hevVars, sendVars, daemonVars, Goto, Begin

LEMMA LockClientExit ==
  ASSUME OnlyClients, Inv, Inv', ExitOK, NEW p \in Process, LockClient(p)
  PROVE  ExitOK'
BY DEF Inv, PlaceOK, AreaOK, ExitOK, FoundFor, NoneOf, Dead, OnlyClients,
   LockClient, msgVars, hevVars, sendVars, callVars, daemonVars, Goto

LEMMA ExitExit ==
  ASSUME OnlyClients, Inv, Inv', ExitOK, NEW p \in Process, Exit(p)
  PROVE  ExitOK'
BY DEF Inv, PlaceOK, AreaOK, ExitOK, FoundFor, NoneOf, Dead, OnlyClients,
   Exit, Idle, msgVars, hevVars, sendVars, daemonVars, Goto, Begin

LEMMA ReturnCreateExit ==
  ASSUME OnlyClients, Inv, Inv', ExitOK, NEW p \in Process, Return(p),
         ReturnCreate(p)
  PROVE  ExitOK'
BY ProcessAssumption DEF Inv, PlaceOK, AreaOK, ExitOK, FoundFor, NoneOf,
   Dead, OnlyClients, Return, ReturnCreate, msgVars, hevVars, sendVars,
   daemonVars, Goto, Begin, Thread

LEMMA ReturnDestroyExit ==
  ASSUME OnlyClients, Inv, Inv', ExitOK, NEW p \in Process, Return(p),
         ReturnDestroy(p)
  PROVE  ExitOK'
BY ProcessAssumption DEF Inv, PlaceOK, AreaOK, ExitOK, FoundFor, NoneOf,
   Dead, OnlyClients, Return, ReturnDestroy, msgVars, hevVars, sendVars,
   daemonVars, Goto, Begin, Thread, TypeOK

LEMMA ReturnAddNewBufferExit ==
  ASSUME OnlyClients, Inv, Inv', ExitOK, NEW p \in Process, Return(p),
         ReturnAddNewBuffer(p)
  PROVE  ExitOK'
BY DEF Inv, PlaceOK, AreaOK, ExitOK, FoundFor, NoneOf, Dead, OnlyClients,
   Return, ReturnAddNewBuffer, msgVars, hevVars, sendVars, daemonVars, Goto,
   Begin

LEMMA ReturnExitExit ==
  ASSUME OnlyClients, Inv, Inv', ExitOK, NEW p \in Process, Return(p),
         ReturnExit(p)
  PROVE  ExitOK'
BY ClientAssumption DEF Inv, PlaceOK, AreaOK, ExitOK, FoundFor, NoneOf, Dead,
   OnlyClients, Return, ReturnExit, msgVars, hevVars, sendVars, daemonVars,
   Goto, Begin, Thread, TypeOK

LEMMA StopDaemonThreadExit ==
  ASSUME OnlyClients, Inv, Inv', ExitOK, StopDaemonThread
  PROVE  ExitOK'
BY DEF Inv, PlaceOK, AreaOK, ExitOK, FoundFor, NoneOf, Dead, OnlyClients,
   StopDaemonThread, Idle, msgVars, hevVars, sendVars, daemonVars, Goto, Begin

LEMMA ReturnStopExit ==
  ASSUME OnlyClients, Inv, Inv', ExitOK, ReturnStop
  PROVE  ExitOK'
BY DEF Inv, PlaceOK, AreaOK, ExitOK, FoundFor, NoneOf, Dead, OnlyClients,
   ReturnStop, msgVars, hevVars, sendVars, daemonVars, Goto, Begin

LEMMA StartDaemonThreadExit ==
  ASSUME OnlyClients, Inv, Inv', ExitOK, StartDaemonThread
  PROVE  ExitOK'
BY DEF Inv, PlaceOK, AreaOK, ExitOK, FoundFor, NoneOf, Dead, OnlyClients,
   StartDaemonThread, Idle, msgVars, hevVars, sendVars, callVars

LEMMA WaitForCommandExit ==
  ASSUME OnlyClients, Inv, Inv', ExitOK, WaitForCommand
  PROVE  ExitOK'
BY DEF Inv, PlaceOK, AreaOK, ExitOK, FoundFor, NoneOf, Dead, OnlyClients,
   WaitForCommand, msgVars, hevVars, sendVars, callVars

LEMMA DispatchExit ==
  ASSUME OnlyClients, Inv, ExitOK, Dispatch
  PROVE  ExitOK'
<1>1. PICK t \in Thread :
        /\ at[t] = "result" /\ Serving(t)
        /\ \A u \in Thread \ {t} : at[u] # "result"
  BY Served DEF Dispatch
<1>2. UNCHANGED <<call, object, result, at, memory>>
  BY DEF Dispatch, daemonUnchanged, callVars, sendVars
<1>3. call[t] = "exit" => daemon' = "getlock"
  BY <1>1 DEF Dispatch, Serving, Command, GETCLIENTFORPID, TAKEBUFFER, SHUTDOWN
<1>4. ~Dead /\ clients' = clients /\ ~g_hevDaemonMsgResultReady'
  BY <1>1 DEF Dispatch, Serving, Dead, daemonUnchanged, hevVars
<1> QED BY <1>1, <1>2, <1>3, <1>4 DEF ExitOK, FoundFor, NoneOf, Thread

LEMMA LockListExit ==
  ASSUME OnlyClients, Inv, Inv', ExitOK, 
         \/ LockList("takelock", "takelink")
         \/ LockList("rellock", "relunlink")
         \/ LockList("getlock", "getfind")
  PROVE  ExitOK'
BY DEF Inv, PlaceOK, AreaOK, ExitOK, FoundFor, NoneOf, Dead, OnlyClients,
   LockList, Done, daemonUnchanged, msgVars, hevVars, sendVars, callVars

LEMMA TakeLinkExit ==
  ASSUME OnlyClients, Inv, ExitOK, TakeLink
  PROVE  ExitOK'
<1>1. PICK t \in Thread :
        /\ at[t] = "result" /\ Serving(t)
        /\ \A u \in Thread \ {t} : at[u] # "result"
  BY Served DEF TakeLink
<1>2. UNCHANGED <<call, object, result, at, memory>>
  BY DEF TakeLink, daemonUnchanged, callVars, sendVars
<1>3. /\ call[t] = "create" /\ object[t] \in Client
      /\ memory[object[t]] = t /\ g_pDaemonMsgParameter = object[t]
  BY <1>1, Commands DEF Inv, PlaceOK, TakeLink, Serving
<1>4. ~Dead /\ clients' = clients \cup {object[t]}
  BY <1>3 DEF TakeLink, Dead
<1> QED BY <1>1, <1>2, <1>3, <1>4 DEF ExitOK, FoundFor, NoneOf, Thread

LEMMA UnlinkExit ==
  ASSUME OnlyClients, Inv, ExitOK, Unlink
  PROVE  ExitOK'
<1>1. PICK t \in Thread :
        /\ at[t] = "result" /\ Serving(t)
        /\ \A u \in Thread \ {t} : at[u] # "result"
  BY Served DEF Unlink
<1>2. UNCHANGED <<call, object, result, at, memory>>
  BY DEF Unlink, daemonUnchanged, callVars, sendVars
<1>3. call[t] \in {"destroy", "exitdestroy"}
  BY <1>1, Commands DEF Inv, Unlink, Serving
<1>4. ~Dead /\ clients' \subseteq clients
  BY DEF Unlink, Dead
<1> QED BY <1>1, <1>2, <1>3, <1>4 DEF ExitOK, FoundFor, NoneOf, Thread

LEMMA FindExit ==
  ASSUME OnlyClients, Inv, ExitOK, Find
  PROVE  ExitOK'
<1>1. PICK t \in Thread :
        /\ at[t] = "result" /\ Serving(t)
        /\ \A u \in Thread \ {t} : at[u] # "result"
  BY Served DEF Find
<1>2. UNCHANGED <<call, object, result, at, memory>>
  BY DEF Find, daemonUnchanged, callVars, sendVars
<1>3. call[t] = "exit" /\ g_pDaemonMsgParameter = t
  BY <1>1, Commands DEF Inv, Find, Serving
<1>4. /\ ~Dead /\ clients' = clients /\ clients \subseteq Client
  BY DEF Find, Dead, Inv, TypeOK
<1>5. FoundFor(t, g_iDaemonMsgValue, g_pDaemonMsgParameter)'
  BY <1>2, <1>3, <1>4 DEF Find, Done, FoundFor, NoneOf, Failure, Success
<1> QED BY <1>1, <1>2, <1>4, <1>5 DEF ExitOK, FoundFor, NoneOf, Thread

LEMMA AnswerExit ==
  ASSUME OnlyClients, Inv, Inv', ExitOK, Answer
  PROVE  ExitOK'
BY DEF Inv, PlaceOK, AreaOK, ExitOK, FoundFor, NoneOf, Dead, OnlyClients,
   Answer, msgVars, hevVars, sendVars, callVars

LEMMA EndThreadExit ==
  ASSUME OnlyClients, Inv, Inv', ExitOK, EndThread
  PROVE  ExitOK'
BY DEF Inv, PlaceOK, AreaOK, ExitOK, FoundFor, NoneOf, Dead, OnlyClients,
   EndThread, daemonUnchanged, msgVars, hevVars, sendVars, callVars

LEMMA ExitNext ==
  ASSUME OnlyClients, Inv, Inv', ExitOK, [Next]_vars
  PROVE  ExitOK'
<1>1. CASE Api
  BY <1>1, CreateClientExit, DestroyClientExit, AddNewBufferExit,
     LockClientExit, ExitExit, ReturnCreateExit, ReturnDestroyExit,
     ReturnAddNewBufferExit, ReturnExitExit, StopDaemonThreadExit,
     ReturnStopExit, StartDaemonThreadExit DEF Api, Return
<1>2. CASE Daemon
  BY <1>2, WaitForCommandExit, DispatchExit, LockListExit, TakeLinkExit,
     UnlinkExit, FindExit, AnswerExit, EndThreadExit DEF Daemon
<1>3. CASE \E t \in Thread : Send(t)
  BY <1>3, RequestAreaExit, WriteCommandExit, GetResultExit,
     GiveUpResultExit, LeaveAreaExit DEF Send
<1>4. CASE Mixer \/ UNCHANGED vars
  <2>1. UNCHANGED <<msgVars, hevVars, daemon, clients, memory, sendVars,
                    callVars>>
    BY <1>4 DEF Mixer, BeginMix, VisitClient, MixClient, EndMix,
       mixUnchanged, vars, daemonVars
  <2> QED BY <2>1 DEF ExitOK, FoundFor, NoneOf, Dead, msgVars, hevVars,
  sendVars, callVars
<1> QED BY <1>1, <1>2, <1>3, <1>4 DEF Next

\* When a process has ended, the daemon mixes none of its clients any more,
\* if the command area, its results and the client list are waited for.
THEOREM ExitCorrect ==
  ASSUME OnlyClients
  PROVE  Spec => []ExitCleansUp
<1>1. Reliable
  BY DEF OnlyClients, Reliable
<1>2. Inv /\ Inv' /\ ExitOK /\ [Next]_vars => ExitOK'
  BY ExitNext
<1>3. ExitOK => ExitCleansUp
  BY DEF ExitOK, ExitCleansUp, NoneOf
<1>4. Spec => []Inv
  BY <1>1, InvAlways
<1> QED BY ExitInit, <1>2, <1>3, <1>4, PTL DEF Spec
=============================================================================
