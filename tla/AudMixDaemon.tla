----------------------------- MODULE AudMixDaemon -----------------------------
(***************************************************************************)
(* The command channel of the AudioMixer (AudMixer.c): client processes    *)
(* write a command and its parameter into shared variables, post           *)
(* g_hevDaemonMsgReady and wait for g_hevDaemonMsgResultReady; the command *)
(* thread of the daemon process executes the command, above all it puts    *)
(* clients into the list the mixer walks through and takes them out, and   *)
(* answers in the same variables.  Every wait gives up after five seconds, *)
(* and a command that was given up is still executed.                      *)
(*                                                                         *)
(* The steps are the accesses to shared variables, mutexes and events.     *)
(* Buffer commands only map or unmap memory.  Command and result codes are *)
(* those of the code, which overlap: a result of 1 is also the code of     *)
(* AUDMIX_COMMAND_SHUTDOWN.                                                *)
(***************************************************************************)
EXTENDS Naturals, FiniteSets

CONSTANTS
  Process,   \* client processes, with one thread each
  Admin,     \* the process of the daemon, with its main thread
  Client,    \* addresses of client structures
  Chunk,     \* the address of a buffer
  Nil,       \* a null pointer, and no owner of a mutex
  TimesOut   \* the waits that may give up though the other side is alive

ASSUME ProcessAssumption == Admin \notin Process /\ Nil \notin Process \cup {Admin}
ASSUME ClientAssumption ==
  /\ IsFiniteSet(Client)
  /\ Client \cap (Process \cup {Admin, Chunk, Nil}) = {}
  /\ Chunk \notin Process \cup {Admin, Nil}
ASSUME TimesOutAssumption == TimesOut \subseteq {"area", "result", "list", "client"}

Thread == Process \cup {Admin}

NOTHING == 0
SHUTDOWN == 1
TAKECLIENT == 2
RELEASECLIENT == 3
TAKEBUFFER == 4
GETCLIENTFORPID == 6
Failure == 0
Success == 1

VARIABLES
  g_bInitialized,
  g_iDaemonMsgValue, g_pDaemonMsgParameter,
  g_hevDaemonMsgReady, g_hevDaemonMsgResultReady,  \* posted or not
  g_hmtxUseDaemonMsgArea,                          \* the owner
  hmtxUseClientList,                               \* the owner
  hmtxUseClient,                                   \* the owner, per client
  clients,   \* the list that starts at pClientListHead
  memory,    \* the process that allocated a client structure, or Nil
  daemon,    \* where the command thread is
  mixer,     \* where the mixer is: "idle", "walking" or "mixing"
  todo,      \* the clients the mixer still has to visit
  at,        \* where a thread is in internal_SendDaemonCommand()
  call,      \* the API call it serves
  object,    \* the client the call is about
  result     \* what internal_SendDaemonCommand() returns

msgVars == <<g_iDaemonMsgValue, g_pDaemonMsgParameter>>
hevVars == <<g_hevDaemonMsgReady, g_hevDaemonMsgResultReady>>
callVars == <<call, object>>
mixVars == <<mixer, todo, hmtxUseClient>>
sendVars == <<at, result>>
daemonVars == <<daemon, hmtxUseClientList, clients>>
vars == <<g_bInitialized, msgVars, hevVars, g_hmtxUseDaemonMsgArea, mixVars,
          daemonVars, memory, sendVars, callVars>>

Call == {"none", "create", "destroy", "addbuffer", "stop", "exit", "exitdestroy",
         "gone"}

TypeOK ==
  /\ g_bInitialized \in BOOLEAN
  /\ g_iDaemonMsgValue \in 0..6
  /\ g_pDaemonMsgParameter \in Client \cup Thread \cup {Chunk, Nil}
  /\ g_hevDaemonMsgReady \in BOOLEAN
  /\ g_hevDaemonMsgResultReady \in BOOLEAN
  /\ g_hmtxUseDaemonMsgArea \in Thread \cup {Nil}
  /\ hmtxUseClientList \in {"daemon", "mixer", Nil}
  /\ hmtxUseClient \in [Client -> Process \cup {"mixer", Nil}]
  /\ clients \subseteq Client
  /\ memory \in [Client -> Process \cup {Nil}]
  /\ daemon \in {"waiting", "dispatch", "takelock", "takelink", "rellock",
                 "relunlink", "getlock", "getfind", "answer", "shutdown",
                 "stopping", "stopped", "crashed"}
  /\ mixer \in {"idle", "walking", "mixing"}
  /\ todo \subseteq Client
  /\ at \in [Thread -> {"out", "clientlock", "area", "write", "result",
                        "leave", "return"}]
  /\ call \in [Thread -> Call]
  /\ object \in [Thread -> Client \cup {Nil}]
  /\ result \in [Thread -> 0..6]

\* The main thread of the daemon has started the command thread.
Init ==
  /\ g_bInitialized = TRUE
  /\ g_iDaemonMsgValue = NOTHING /\ g_pDaemonMsgParameter = Nil
  /\ g_hevDaemonMsgReady = FALSE /\ g_hevDaemonMsgResultReady = FALSE
  /\ g_hmtxUseDaemonMsgArea = Nil /\ hmtxUseClientList = Nil
  /\ hmtxUseClient = [c \in Client |-> Nil]
  /\ clients = {} /\ memory = [c \in Client |-> Nil]
  /\ daemon = "waiting" /\ mixer = "idle" /\ todo = {}
  /\ at = [t \in Thread |-> "out"]
  /\ call = [t \in Thread |-> "none"]
  /\ object = [t \in Thread |-> Nil]
  /\ result = [t \in Thread |-> Failure]

Dead == daemon \in {"stopped", "crashed"}

Goto(t, a) == at' = [at EXCEPT ![t] = a]

-----------------------------------------------------------------------------
(* internal_SendDaemonCommand()                                            *)

\* The command of a call, and its parameter.
Command(t) ==
  CASE call[t] = "create" -> TAKECLIENT
    [] call[t] \in {"destroy", "exitdestroy"} -> RELEASECLIENT
    [] call[t] = "addbuffer" -> TAKEBUFFER
    [] call[t] = "exit" -> GETCLIENTFORPID
    [] OTHER -> SHUTDOWN

\* Mutation: the process asks for a client without saying for whose.
ParameterNoPid(t) == IF call[t] = "addbuffer" THEN Chunk ELSE object[t]

Parameter(t) ==
  CASE call[t] = "exit" -> t
    [] call[t] = "addbuffer" -> Chunk
    [] OTHER -> object[t]

\* The function returns to the API function without the area.
GiveUp(t) ==
  /\ result' = [result EXCEPT ![t] = Failure]
  /\ Goto(t, "return")

RequestArea(t) ==
  /\ at[t] = "area"
  /\ \/ /\ g_hmtxUseDaemonMsgArea = Nil
        /\ g_hmtxUseDaemonMsgArea' = t
        /\ Goto(t, "write")
        /\ UNCHANGED result
     \/ /\ g_hmtxUseDaemonMsgArea # Nil
        /\ "area" \in TimesOut \/ Dead
        /\ GiveUp(t)
        /\ UNCHANGED g_hmtxUseDaemonMsgArea
  /\ UNCHANGED <<g_bInitialized, msgVars, hevVars, mixVars, daemonVars, memory,
                 callVars>>

\* The command is written, and posted unless it is the second post in a row
\* (ERROR_ALREADY_POSTED), which counts as a failure.
WriteCommand(t) ==
  /\ at[t] = "write"
  /\ g_iDaemonMsgValue' = Command(t)
  /\ g_pDaemonMsgParameter' = Parameter(t)
  /\ g_hevDaemonMsgReady' = TRUE
  /\ result' = [result EXCEPT ![t] = Failure]
  /\ Goto(t, IF g_hevDaemonMsgReady THEN "leave" ELSE "result")
  /\ UNCHANGED <<g_bInitialized, g_hevDaemonMsgResultReady, mixVars, daemonVars,
                 g_hmtxUseDaemonMsgArea, memory, callVars>>

\* Mutation: the event does not reset itself.
GetResultKeepPosted(t) ==
  /\ at[t] = "result"
  /\ g_hevDaemonMsgResultReady
  /\ result' = [result EXCEPT ![t] = g_iDaemonMsgValue]
  /\ object' = [object EXCEPT ![t] =
                  IF call[t] = "exit" /\ g_pDaemonMsgParameter \in Client
                  THEN g_pDaemonMsgParameter ELSE @]
  /\ Goto(t, "leave")
  /\ UNCHANGED <<g_bInitialized, msgVars, hevVars, mixVars, daemonVars,
                 g_hmtxUseDaemonMsgArea, memory, call>>

\* The result is there; the event resets itself.
GetResult(t) ==
  /\ at[t] = "result"
  /\ g_hevDaemonMsgResultReady
  /\ g_hevDaemonMsgResultReady' = FALSE
  /\ result' = [result EXCEPT ![t] = g_iDaemonMsgValue]
  /\ object' = [object EXCEPT ![t] =
                  IF call[t] = "exit" /\ g_pDaemonMsgParameter \in Client
                  THEN g_pDaemonMsgParameter ELSE @]
  /\ Goto(t, "leave")
  /\ UNCHANGED <<g_bInitialized, msgVars, g_hevDaemonMsgReady, mixVars,
                 daemonVars, g_hmtxUseDaemonMsgArea, memory, call>>

GiveUpResult(t) ==
  /\ at[t] = "result" /\ ~g_hevDaemonMsgResultReady
  /\ "result" \in TimesOut \/ Dead
  /\ Goto(t, "leave")
  /\ UNCHANGED <<g_bInitialized, msgVars, hevVars, mixVars, daemonVars,
                 g_hmtxUseDaemonMsgArea, memory, callVars, result>>

LeaveArea(t) ==
  /\ at[t] = "leave"
  /\ g_hmtxUseDaemonMsgArea' = Nil
  /\ Goto(t, "return")
  /\ UNCHANGED <<g_bInitialized, msgVars, hevVars, mixVars, daemonVars, memory,
                 callVars, result>>

Send(t) ==
  \/ RequestArea(t) \/ WriteCommand(t) \/ GetResult(t) \/ GiveUpResult(t)
  \/ LeaveArea(t)

-----------------------------------------------------------------------------
(* The API calls of client processes.                                      *)

Idle(t) == at[t] = "out" /\ call[t] = "none"

Begin(t, name, c) ==
  /\ call' = [call EXCEPT ![t] = name]
  /\ object' = [object EXCEPT ![t] = c]

\* AudMixCreateClient() up to its command, without its buffers.
CreateClient(p, c) ==
  /\ Idle(p) /\ g_bInitialized
  /\ memory[c] = Nil /\ c \notin clients
  /\ memory' = [memory EXCEPT ![c] = p]
  /\ Begin(p, "create", c)
  /\ Goto(p, "area")
  /\ UNCHANGED <<g_bInitialized, msgVars, hevVars, g_hmtxUseDaemonMsgArea,
                 mixVars, daemonVars, result>>

\* AudMixDestroyClient() up to its command.
DestroyClient(p, c) ==
  /\ Idle(p) /\ g_bInitialized
  /\ memory[c] = p
  /\ Begin(p, "destroy", c)
  /\ Goto(p, "area")
  /\ UNCHANGED <<g_bInitialized, msgVars, hevVars, g_hmtxUseDaemonMsgArea,
                 mixVars, daemonVars, memory, result>>

\* AudMixAddNewBuffer(), AudMixResizeBuffer() and AudMixDestroyBuffer() send
\* their command while they own the mutex of the client.
AddNewBuffer(p, c) ==
  /\ Idle(p) /\ g_bInitialized
  /\ memory[c] = p
  /\ Begin(p, "addbuffer", c)
  /\ Goto(p, "clientlock")
  /\ UNCHANGED <<g_bInitialized, msgVars, hevVars, g_hmtxUseDaemonMsgArea,
                 mixVars, daemonVars, memory, result>>

LockClient(p) ==
  /\ at[p] = "clientlock"
  /\ hmtxUseClient[object[p]] = Nil
  /\ hmtxUseClient' = [hmtxUseClient EXCEPT ![object[p]] = p]
  /\ Goto(p, "area")
  /\ UNCHANGED <<g_bInitialized, msgVars, hevVars, g_hmtxUseDaemonMsgArea,
                 mixer, todo, daemonVars, memory, callVars, result>>

\* The process ends: internal_CleanupClient() asks for a client of its own.
Exit(p) ==
  /\ Idle(p) /\ g_bInitialized
  /\ Begin(p, "exit", Nil)
  /\ Goto(p, "area")
  /\ UNCHANGED <<g_bInitialized, msgVars, hevVars, g_hmtxUseDaemonMsgArea,
                 mixVars, daemonVars, memory, result>>

\* AudMixCreateClient() frees the client that was not taken.
ReturnCreate(p) ==
  /\ call[p] = "create"
  /\ memory' = IF result[p] = Failure THEN [memory EXCEPT ![object[p]] = Nil]
                                      ELSE memory
  /\ Goto(p, "out") /\ Begin(p, "none", Nil)
  /\ UNCHANGED mixVars

\* AudMixDestroyClient() frees the client that was released; at the end of
\* the process it is called until the daemon knows no client of the process.
ReturnDestroy(p) ==
  /\ call[p] \in {"destroy", "exitdestroy"}
  /\ memory' = IF result[p] # Failure THEN [memory EXCEPT ![object[p]] = Nil]
                                      ELSE memory
  /\ IF call[p] = "destroy"
     THEN Goto(p, "out") /\ Begin(p, "none", Nil)
     ELSE Goto(p, "area") /\ Begin(p, "exit", Nil)
  /\ UNCHANGED mixVars

\* The result of a buffer command is not looked at.
ReturnAddNewBuffer(p) ==
  /\ call[p] = "addbuffer"
  /\ hmtxUseClient' = [hmtxUseClient EXCEPT ![object[p]] = Nil]
  /\ Goto(p, "out") /\ Begin(p, "none", Nil)
  /\ UNCHANGED <<mixer, todo, memory>>

\* A client was found for internal_CleanupClient(), or there is none.  (With
\* a pointer that is no client of the process, the process ends badly.)
ReturnExit(p) ==
  /\ call[p] = "exit"
  /\ IF result[p] # Failure /\ object[p] # Nil /\ memory[object[p]] = p
     THEN Goto(p, "area") /\ Begin(p, "exitdestroy", object[p])
     ELSE Goto(p, "out") /\ Begin(p, "gone", Nil)
  /\ UNCHANGED <<mixVars, memory>>

Return(p) ==
  /\ at[p] = "return"
  /\ \/ ReturnCreate(p) \/ ReturnDestroy(p) \/ ReturnAddNewBuffer(p)
     \/ ReturnExit(p)
  /\ result' = [result EXCEPT ![p] = Failure]
  /\ UNCHANGED <<g_bInitialized, msgVars, hevVars, g_hmtxUseDaemonMsgArea,
                 daemonVars>>

-----------------------------------------------------------------------------
(* The main thread of the daemon process.                                  *)

\* AudMixStopDaemonThread()
StopDaemonThread ==
  /\ Idle(Admin) /\ g_bInitialized
  /\ Begin(Admin, "stop", Nil)
  /\ Goto(Admin, "area")
  /\ UNCHANGED <<g_bInitialized, msgVars, hevVars, g_hmtxUseDaemonMsgArea,
                 mixVars, daemonVars, memory, result>>

\* It waits for the end of the thread when the command succeeded.
ReturnStop ==
  /\ at[Admin] = "return" /\ call[Admin] = "stop"
  /\ result[Admin] # Failure => Dead
  /\ g_bInitialized' = (g_bInitialized /\ result[Admin] = Failure)
  /\ Goto(Admin, "out") /\ Begin(Admin, "none", Nil)
  /\ result' = [result EXCEPT ![Admin] = Failure]
  /\ UNCHANGED <<msgVars, hevVars, g_hmtxUseDaemonMsgArea, mixVars, daemonVars,
                 memory>>

\* AudMixStartDaemonThread(): the semaphores and the list are new.  Starts
\* while a call still waits for the old daemon are left out.
StartDaemonThread ==
  /\ \A t \in Thread : at[t] = "out"
  /\ Idle(Admin) /\ ~g_bInitialized /\ daemon = "stopped"
  /\ g_bInitialized' = TRUE
  /\ g_iDaemonMsgValue' = NOTHING /\ g_pDaemonMsgParameter' = Nil
  /\ g_hevDaemonMsgReady' = FALSE /\ g_hevDaemonMsgResultReady' = FALSE
  /\ g_hmtxUseDaemonMsgArea' = Nil /\ hmtxUseClientList' = Nil
  /\ clients' = {} /\ daemon' = "waiting"
  /\ UNCHANGED <<mixVars, memory, sendVars, callVars>>

Api ==
  \/ StopDaemonThread \/ ReturnStop \/ StartDaemonThread
  \/ \E p \in Process :
       \/ Exit(p) \/ LockClient(p) \/ Return(p)
       \/ \E c \in Client :
            CreateClient(p, c) \/ DestroyClient(p, c) \/ AddNewBuffer(p, c)

-----------------------------------------------------------------------------
(* internal_ProcessCommands() of the command thread.                       *)

\* The event that a command is there resets itself.
WaitForCommand ==
  /\ daemon = "waiting" /\ g_hevDaemonMsgReady
  /\ g_hevDaemonMsgReady' = FALSE
  /\ daemon' = "dispatch"
  /\ UNCHANGED <<g_bInitialized, msgVars, g_hevDaemonMsgResultReady, mixVars,
                 g_hmtxUseDaemonMsgArea, hmtxUseClientList, clients, memory,
                 sendVars, callVars>>

\* The command is done: it has result r.
Done(r) == g_iDaemonMsgValue' = r /\ daemon' = "answer"

daemonUnchanged == <<g_bInitialized, hevVars, g_hmtxUseDaemonMsgArea, mixVars,
                     memory, sendVars, callVars>>

\* Whether DosGetSharedMem() finds memory at p.
Mapped(p) == p = Chunk \/ (p \in Client /\ (memory[p] # Nil \/ p \in clients))

Dispatch ==
  /\ daemon = "dispatch"
  /\ CASE g_iDaemonMsgValue = TAKECLIENT ->
            IF Mapped(g_pDaemonMsgParameter)
            THEN daemon' = "takelock" /\ UNCHANGED g_iDaemonMsgValue
            ELSE Done(Failure)
       [] g_iDaemonMsgValue = RELEASECLIENT ->
            daemon' = "rellock" /\ UNCHANGED g_iDaemonMsgValue
       [] g_iDaemonMsgValue = GETCLIENTFORPID ->
            daemon' = "getlock" /\ UNCHANGED g_iDaemonMsgValue
       [] g_iDaemonMsgValue = TAKEBUFFER -> Done(Success)
       [] g_iDaemonMsgValue = SHUTDOWN ->
            g_iDaemonMsgValue' = Success /\ daemon' = "shutdown"
       [] OTHER -> Done(Failure)
  /\ UNCHANGED <<g_pDaemonMsgParameter, hmtxUseClientList, clients,
                 daemonUnchanged>>

\* The mutex of the list is requested on the way from `from' to `to'.
LockList(from, to) ==
  /\ daemon = from
  /\ \/ /\ hmtxUseClientList = Nil
        /\ hmtxUseClientList' = "daemon"
        /\ daemon' = to
        /\ UNCHANGED g_iDaemonMsgValue
     \/ /\ "list" \in TimesOut /\ hmtxUseClientList # Nil
        /\ Done(Failure)
        /\ UNCHANGED hmtxUseClientList
  /\ UNCHANGED <<g_pDaemonMsgParameter, clients, daemonUnchanged>>

\* The parameter is read again; when it is no client any more, the thread
\* writes through a bad pointer.
TakeLink ==
  /\ daemon = "takelink"
  /\ IF g_pDaemonMsgParameter \in Client
     THEN /\ clients' = clients \cup {g_pDaemonMsgParameter}
          /\ hmtxUseClientList' = Nil
          /\ Done(Success)
     ELSE daemon' = "crashed"
          /\ UNCHANGED <<clients, hmtxUseClientList, g_iDaemonMsgValue>>
  /\ UNCHANGED <<g_pDaemonMsgParameter, daemonUnchanged>>

\* Mutation: the client is found but stays linked.
FindOnly ==
  /\ daemon = "relunlink"
  /\ hmtxUseClientList' = Nil
  /\ Done(IF g_pDaemonMsgParameter \in clients THEN Success ELSE Failure)
  /\ UNCHANGED <<g_pDaemonMsgParameter, clients, daemonUnchanged>>

Unlink ==
  /\ daemon = "relunlink"
  /\ clients' = clients \ {g_pDaemonMsgParameter}
  /\ hmtxUseClientList' = Nil
  /\ Done(IF g_pDaemonMsgParameter \in clients THEN Success ELSE Failure)
  /\ UNCHANGED <<g_pDaemonMsgParameter, daemonUnchanged>>

\* A client of the process is searched, and returned as the parameter.
Find ==
  /\ daemon = "getfind"
  /\ hmtxUseClientList' = Nil
  /\ LET own == {c \in clients : memory[c] = g_pDaemonMsgParameter} IN
       IF own = {}
       THEN Done(Failure) /\ UNCHANGED g_pDaemonMsgParameter
       ELSE Done(Success) /\ g_pDaemonMsgParameter' \in own
  /\ UNCHANGED <<clients, daemonUnchanged>>

\* The result is announced.
Answer ==
  /\ daemon \in {"answer", "shutdown"}
  /\ daemon' = IF daemon = "answer" THEN "waiting" ELSE "stopping"
  /\ g_hevDaemonMsgResultReady' = TRUE
  /\ UNCHANGED <<g_bInitialized, msgVars, g_hevDaemonMsgReady, mixVars,
                 g_hmtxUseDaemonMsgArea, hmtxUseClientList, clients, memory,
                 sendVars, callVars>>

\* internal_StopMixing() waits for the callback that is in progress, and the
\* thread ends.
EndThread ==
  /\ daemon = "stopping" /\ mixer = "idle"
  /\ daemon' = "stopped"
  /\ UNCHANGED <<msgVars, hmtxUseClientList, clients, daemonUnchanged>>

Daemon ==
  \/ WaitForCommand \/ Dispatch \/ TakeLink \/ Unlink \/ Find \/ Answer
  \/ EndThread
  \/ LockList("takelock", "takelink") \/ LockList("rellock", "relunlink")
  \/ LockList("getlock", "getfind")

-----------------------------------------------------------------------------
(* internal_MixChannelsIntoBuffer() of the mixer thread.                   *)

mixUnchanged == <<g_bInitialized, msgVars, hevVars, g_hmtxUseDaemonMsgArea,
                  daemon, clients, memory, sendVars, callVars>>

\* (A request of the list that times out makes a round without clients.)
BeginMix ==
  /\ mixer = "idle" /\ ~Dead
  /\ hmtxUseClientList = Nil
  /\ hmtxUseClientList' = "mixer"
  /\ mixer' = "walking"
  /\ todo' = clients
  /\ UNCHANGED <<hmtxUseClient, mixUnchanged>>

\* Mutation: the mutex is waited for without a limit.
VisitClientForever ==
  /\ mixer = "walking"
  /\ \E c \in todo :
       /\ hmtxUseClient[c] = Nil
       /\ hmtxUseClient' = [hmtxUseClient EXCEPT ![c] = "mixer"]
  /\ mixer' = "mixing"
  /\ UNCHANGED <<todo, hmtxUseClientList, mixUnchanged>>

\* The mutex of the next client is owned, or given up after five seconds.
VisitClient ==
  /\ mixer = "walking"
  /\ \E c \in todo :
       \/ /\ hmtxUseClient[c] = Nil
          /\ hmtxUseClient' = [hmtxUseClient EXCEPT ![c] = "mixer"]
          /\ mixer' = "mixing"
          /\ UNCHANGED todo
       \/ /\ "client" \in TimesOut /\ hmtxUseClient[c] # Nil
          /\ todo' = todo \ {c}
          /\ UNCHANGED <<mixer, hmtxUseClient>>
  /\ UNCHANGED <<hmtxUseClientList, mixUnchanged>>

MixClient ==
  /\ mixer = "mixing"
  /\ \E c \in todo :
       /\ hmtxUseClient[c] = "mixer"
       /\ hmtxUseClient' = [hmtxUseClient EXCEPT ![c] = Nil]
       /\ todo' = todo \ {c}
  /\ mixer' = "walking"
  /\ UNCHANGED <<hmtxUseClientList, mixUnchanged>>

EndMix ==
  /\ mixer = "walking" /\ todo = {}
  /\ mixer' = "idle"
  /\ hmtxUseClientList' = Nil
  /\ UNCHANGED <<todo, hmtxUseClient, mixUnchanged>>

\* internal_DARTEventFunc() runs whenever the hardware has played a buffer.
Mixer == BeginMix \/ VisitClient \/ MixClient \/ EndMix

-----------------------------------------------------------------------------
Next == Api \/ Daemon \/ Mixer \/ \E t \in Thread : Send(t)

Spec == Init /\ [][Next]_vars

\* A thread inside an API call, the command thread and the mixer are
\* scheduled; a mutex goes to the threads that wait for it in turn, as OS/2
\* hands it on in the order of the requests.
Inside(p) == Send(p) \/ LockClient(p) \/ Return(p)
FairSpec ==
  /\ Spec
  /\ \A p \in Process : SF_vars(Inside(p))
  /\ SF_vars(Send(Admin)) /\ WF_vars(ReturnStop)
  /\ SF_vars(Daemon)
  /\ WF_vars(Mixer)

-----------------------------------------------------------------------------
(* Properties.                                                             *)

\* The mixer only ever walks over clients whose memory is still allocated:
\* AudMixDestroyClient() frees none that is in the list, and
\* AudMixCreateClient() none that its command has put there.
ListedAllocated == \A c \in clients : memory[c] # Nil

\* What AudMixCreateClient() and AudMixDestroyClient() are told by
\* internal_SendDaemonCommand() is what happened to their own client, however
\* commands of other processes and lock timeouts of the daemon interleave.
AnswerTrue ==
  \A p \in Process :
    at[p] = "return" =>
      /\ call[p] = "create" => (result[p] # Failure <=> object[p] \in clients)
      /\ call[p] = "destroy" => (result[p] # Failure => object[p] \notin clients)

\* When a process has ended, internal_CleanupClient() has left none of its
\* clients to a daemon that goes on mixing.
ExitCleansUp ==
  \A p \in Process :
    call[p] = "gone" => Dead \/ \A c \in clients : memory[c] # p

\* Every call returns: a thread that owns the mutex of a client and waits for
\* the command area, its owner that waits for the daemon, the daemon that
\* waits for the client list and the mixer that owns the list and waits for
\* the client do not wait for each other for ever.
CallReturns ==
  \A t \in Thread :
    call[t] \notin {"none", "gone"} ~> call[t] \in {"none", "gone"}

\* "Ok, memory chunk is unlinked from list of clients, time to clean it up!"
\* (AudMixer.c:1445), which AudMixDestroyClient() says when it was told that
\* its command succeeded.
UnlinkedBeforeCleanup ==
  \A p \in Process :
    at[p] = "return" /\ call[p] = "destroy" /\ result[p] # Failure
      => object[p] \notin clients

\* A command of a client process never stops the daemon ("Not allowed",
\* AudMixer.c:1265), although the code of the shutdown command is also the
\* result that stands in g_iDaemonMsgValue after every success.
ShutdownOnlyOnRequest ==
  [][daemon # "shutdown" /\ daemon' = "shutdown"
       => \A p \in Process : at[p] # "result"]_vars
=============================================================================
