-------------------------- MODULE LifecycleProofs --------------------------
(***************************************************************************)
(* Proofs about Lifecycle, for any number of instances started in any     *)
(* order.  What the properties depend on is where in main() an instance   *)
(* is: only between bind() and the unlink() of its shutdown can the file  *)
(* be its own, only after chmod() can it listen, and the event dispatcher *)
(* is there from before pjsua_start() to after the worker's end.          *)
(***************************************************************************)
EXTENDS Lifecycle, TLAPS

\* The file of an instance that is not dead is there only between bind() and
\* unlink(), or if that failed.
FileStages ==
    \A d \in Inst : file.owner = d =>
        \/ stage[d] \in {"chmod", "listen", "g_srv", "signal", "run", "close", "remove"}
        \/ stage[d] \in {"destroy", "free", "return", "exit"} /\ d \in stuck
        \/ stage[d] = "exit" /\ d \in killed

\* An instance that has got past chmod(), and whose file is still the one at
\* the path, has narrowed the mode of that file.
ModeNarrowed ==
    \A d \in Inst :
        file.owner = d /\ (stage[d] = "listen" \/ sock[d] = "listening") =>
            file.mode = "owner"

\* The dispatcher exists from its creation to the end of pjsua, and the worker
\* runs only in between.
EventsLive ==
    \A d \in Inst :
        /\ stage[d] \in {"init", "factory", "transport", "start", "close", "remove"}
                        \cup Serve => events[d] = "live"
        /\ worker[d] => /\ events[d] = "live"
                        /\ stage[d] \in Serve \cup {"close", "remove", "destroy"}

\* An instance that is alone has seen no other one run: once it has unlinked the
\* path there is no file, unless it could not be removed, and once it has bound
\* it the file is its own.
LoneStages ==
    \A d \in alone :
        /\ \A e \in Inst \ {d} : stage[e] \in {"off", "exit"}
        /\ stage[d] = "bind" => file = NoFile \/ d \in stuck
        /\ stage[d] \in {"chmod", "listen", "g_srv", "signal", "run"} =>
               file.owner = d

\* The inductive invariant.
IInv == TypeOK /\ FileStages /\ ModeNarrowed /\ EventsLive /\ LoneStages

\* The order of the calls, one by one.
LEMMA OrderOfCalls ==
    /\ After("create") = "pool" /\ After("pool") = "events"
    /\ After("events") = "init" /\ After("init") = "factory"
    /\ After("factory") = "transport" /\ After("transport") = "start"
    /\ After("start") = "socket" /\ After("socket") = "unlink"
    /\ After("unlink") = "bind" /\ After("bind") = "chmod"
    /\ After("chmod") = "listen" /\ After("listen") = "g_srv"
    /\ After("g_srv") = "signal" /\ After("signal") = "run"
  BY DEF After, Order

\* Nothing runs and there is no file at first.
LEMMA InitEstablishes == Init => IInv
<1> SUFFICES ASSUME Init PROVE IInv
  OBVIOUS
<1> USE InstAssumption DEF Init, NoFile
<1>1. TypeOK
  BY DEF TypeOK, Stage
<1>2. FileStages /\ ModeNarrowed
  BY DEF FileStages, ModeNarrowed
<1>3. EventsLive /\ LoneStages
  BY DEF EventsLive, LoneStages, Serve
<1> QED
  BY <1>1, <1>2, <1>3 DEF IInv

\* The calls of main() up to the loop preserve the invariant.
LEMMA StartupPreserves ==
    ASSUME IInv, NEW d \in Inst, Startup(d)
    PROVE  IInv'
<1> USE InstAssumption, OrderOfCalls
    DEF IInv, TypeOK, FileStages, ModeNarrowed, EventsLive, LoneStages, Stage, Boot, Serve,
        Down, ownVars, history, Goto, NoFile
<1>1. CASE BootStep(d)
  BY <1>1 DEF BootStep, Call
<1>2. CASE EventsCreate(d)
  BY <1>2 DEF EventsCreate, Call
<1>3. CASE PjsuaStart(d)
  BY <1>3 DEF PjsuaStart, Call
<1>4. CASE Socket(d)
  BY <1>4 DEF Socket, Call
<1>5. CASE UnlinkStale(d)
  BY <1>5 DEF UnlinkStale, Unlink, Call
<1>6. CASE Bind(d)
  BY <1>6 DEF Bind, Call
<1>7. CASE Chmod(d)
  <2>1. TypeOK'
    BY <1>7 DEF Chmod, Call
  <2>2. file'.owner = file.owner /\ file'.mode = "owner"
    BY <1>7 DEF Chmod
  <2>3. FileStages' /\ ModeNarrowed'
    BY <1>7, <2>2 DEF Chmod, Call
  <2>4. EventsLive'
    BY <1>7 DEF Chmod, Call
  <2>5. LoneStages'
    BY <1>7, <2>2 DEF Chmod, Call
  <2> QED
    BY <2>1, <2>3, <2>4, <2>5
<1>8. CASE Listen(d)
  BY <1>8 DEF Listen, Call
<1>9. CASE SetSrv(d)
  BY <1>9 DEF SetSrv, Call
<1>10. CASE InstallHandlers(d)
  BY <1>10 DEF InstallHandlers, Call
<1> QED
  BY <1>1, <1>2, <1>3, <1>4, <1>5, <1>6, <1>7, <1>8, <1>9, <1>10 DEF Startup

\* A call that fails preserves the invariant.
LEMMA FailurePreserves ==
    ASSUME IInv, NEW d \in Inst, Failure(d)
    PROVE  IInv'
<1> USE InstAssumption
    DEF IInv, TypeOK, FileStages, ModeNarrowed, EventsLive, LoneStages, Stage, Boot, Serve,
        Down, ownVars, history, Goto, NoFile
<1>1. CASE BootFail(d)
  BY <1>1 DEF BootFail
<1>2. CASE SocketFail(d) \/ BindFail(d)
  BY <1>2 DEF SocketFail, BindFail
<1>3. CASE ServeFail(d) \/ LoopFails(d)
  BY <1>3 DEF ServeFail, LoopFails
<1> QED
  BY <1>1, <1>2, <1>3 DEF Failure

\* Shutdown preserves the invariant.
LEMMA ShutdownPreserves ==
    ASSUME IInv, NEW d \in Inst, Shutdown(d)
    PROVE  IInv'
<1> USE InstAssumption
    DEF IInv, TypeOK, FileStages, ModeNarrowed, EventsLive, LoneStages, Stage, Boot, Serve,
        Down, ownVars, history, Goto, NoFile
<1>1. CASE LoopStops(d) \/ CloseListen(d)
  BY <1>1 DEF LoopStops, CloseListen
<1>2. CASE UnlinkOwn(d)
  BY <1>2 DEF UnlinkOwn, Unlink
<1>3. CASE StopWorker(d)
  BY <1>3 DEF StopWorker
<1>4. CASE FreePools(d)
  BY <1>4 DEF FreePools
<1>5. CASE Return(d)
  BY <1>5 DEF Return
<1> QED
  BY <1>1, <1>2, <1>3, <1>4, <1>5 DEF Shutdown

\* The launcher, signals and crashes preserve the invariant.
LEMMA OutsidePreserves ==
    ASSUME IInv, NEW d \in Inst, Launch(d) \/ Crash(d) \/ Signal(d)
    PROVE  IInv'
<1> USE InstAssumption
    DEF IInv, TypeOK, FileStages, ModeNarrowed, EventsLive, LoneStages, Stage, Boot, Serve,
        Down, ownVars, Goto, Running, NoFile
<1>1. ASSUME Die(d), signalled' \in {signalled, signalled \cup {d}}
      PROVE  IInv'
  BY <1>1 DEF Die
<1>2. CASE Launch(d)
  <2>1. file'.owner # d /\ file'.owner \in {file.owner, Gone} /\ file'.mode = file.mode
    BY <1>2 DEF Launch
  <2>2. alone' \subseteq Inst
    BY <1>2 DEF Launch
  <2>3. TypeOK'
    BY <1>2, <2>2 DEF Launch
  <2>4. FileStages' /\ ModeNarrowed'
    BY <1>2, <2>1 DEF Launch
  <2>5. EventsLive'
    BY <1>2 DEF Launch
  <2>6. LoneStages'
    <3>1. stage' = [stage EXCEPT ![d] = "create"]
      BY <1>2 DEF Launch
    <3>2. alone' \subseteq {d} /\ (d \in alone' => \A e \in Inst : ~Running(e))
      BY <1>2 DEF Launch
    <3> QED
      BY <3>1, <3>2
  <2> QED
    BY <2>3, <2>4, <2>5, <2>6
<1>3. CASE Crash(d)
  BY <1>1, <1>3 DEF Crash
<1>4. CASE Signal(d)
  <2>1. CASE Die(d)
    BY <1>1, <1>4, <2>1 DEF Signal
  <2>2. CASE ~Die(d)
    <3>1. /\ UNCHANGED <<stage, file, sock, events, worker, g_srv, handlers,
                         alone, killed, stuck>>
          /\ stop' \in [Inst -> BOOLEAN] /\ signalled' \subseteq Inst
      BY <1>4, <2>2 DEF Signal
    <3> QED
      BY <3>1
  <2> QED
    BY <2>1, <2>2
<1> QED
  BY <1>2, <1>3, <1>4

\* Every step preserves the invariant.
LEMMA StepPreserves == IInv /\ [Next]_vars => IInv'
<1> SUFFICES ASSUME IInv, [Next]_vars PROVE IInv'
  OBVIOUS
<1>1. CASE Next
  BY <1>1, StartupPreserves, FailurePreserves, ShutdownPreserves, OutsidePreserves
  DEF Next
<1>2. CASE UNCHANGED vars
  BY <1>2 DEF vars, ownVars, history, IInv, TypeOK, FileStages, ModeNarrowed,
              EventsLive, LoneStages
<1> QED
  BY <1>1, <1>2

\* Therefore the invariant always holds.
THEOREM Invariance == Spec => []IInv
<1> QED
  BY InitEstablishes, StepPreserves, PTL DEF Spec

\* main.c: the state of every instance is well typed.
THEOREM TypeCorrect == Spec => []TypeOK
<1>1. IInv => TypeOK
  BY DEF IInv
<1> QED
  BY Invariance, <1>1, PTL

\* pjsocky_server_create(): nobody but the owner can connect to a daemon, however
\* many instances fight for the path.
THEOREM OwnerOnly == Spec => []OnlyOwnerConnects
<1>1. IInv => OnlyOwnerConnects
  BY DEF IInv, ModeNarrowed, OnlyOwnerConnects
<1> QED
  BY Invariance, <1>1, PTL

\* main(): every return takes the instance's socket file with it, if unlink() can.
THEOREM FileIsRemoved == Spec => []NoFileLeftBehind
<1>1. IInv => NoFileLeftBehind
  BY DEF IInv, FileStages, NoFileLeftBehind
<1> QED
  BY Invariance, <1>1, PTL

\* pjsocky_server_create(): whatever a crash left at the path, a daemon that runs
\* alone and can remove it binds there; if it serves, it is found there.
THEOREM LoneIsReachable == Spec => []LoneDaemonIsReachable
<1>1. IInv => LoneDaemonIsReachable
  BY DEF IInv, LoneStages, LoneDaemonIsReachable
<1> QED
  BY Invariance, <1>1, PTL

\* main(): pjsua's callbacks find the event dispatcher on every way in and out.
THEOREM EventsFound == Spec => []CallbacksFindEvents
<1>1. IInv => CallbacksFindEvents
  BY DEF IInv, EventsLive, CallbacksFindEvents
<1> QED
  BY Invariance, <1>1, PTL
=============================================================================
