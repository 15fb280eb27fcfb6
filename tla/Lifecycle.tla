----------------------------- MODULE Lifecycle -----------------------------
(***************************************************************************)
(* src/main.c, with pjsocky_server_create() and _destroy() of             *)
(* src/proto/server.c: how the daemon starts, is stopped, dies and is     *)
(* started again, and what becomes of the socket file on the way.         *)
(*                                                                        *)
(* An instance is a process the launcher may start again and again, and   *)
(* it may start one while another is still there.  All of them use the    *)
(* same path.  A file has an owner, the instance that bound it; connect() *)
(* reaches that instance, if it listens.  pjsua and the kernel are        *)
(* external: pjsua_start() brings the worker thread up, pjsua_destroy()   *)
(* stops it and then releases every pool, and a dying process loses its   *)
(* sockets but leaves its file behind.                                    *)
(***************************************************************************)
EXTENDS Integers

CONSTANTS Inst,      \* instances of the daemon
          Gone       \* owner of a file whose process is no longer there

ASSUME InstAssumption == Gone \notin Inst

VARIABLES
    stage,      \* per instance: the call main() makes next
    sock,       \* the control socket in the kernel: "none", "open", "bound", "listening"
    file,       \* what is at the socket path
    events,     \* the event dispatcher: "none", "live", "freed"
    worker,     \* is pjsua's worker thread running?
    g_srv,      \* is g_srv set?
    handlers,   \* are the signal handlers installed?
    stop,       \* srv->stop_requested
    signalled,  \* history: instances a SIGTERM was delivered to
    alone,      \* history: instances that never ran beside another one
    killed,     \* history: instances that died instead of returning
    stuck       \* history: instances that could not unlink() a file

ownVars == <<sock, events, worker, g_srv, handlers, stop>>
history == <<signalled, alone, killed, stuck>>
vars == <<stage, file, ownVars, history>>

NoFile == [owner |-> Gone, mode |-> "none"]

Boot == {"create", "pool", "events", "init", "factory", "transport", "start"}
Serve == {"socket", "unlink", "bind", "chmod", "listen", "g_srv", "signal", "run"}
Down == {"close", "remove", "destroy", "free", "return"}
Stage == Boot \cup Serve \cup Down \cup {"off", "exit"}

Running(d) == stage[d] \notin {"off", "exit"}

Init ==
    /\ stage = [d \in Inst |-> "off"]
    /\ sock = [d \in Inst |-> "none"]
    /\ file = NoFile
    /\ events = [d \in Inst |-> "none"]
    /\ worker = [d \in Inst |-> FALSE]
    /\ g_srv = [d \in Inst |-> FALSE]
    /\ handlers = [d \in Inst |-> FALSE]
    /\ stop = [d \in Inst |-> FALSE]
    /\ signalled = {} /\ alone = {} /\ killed = {} /\ stuck = {}

-----------------------------------------------------------------------------
(* main(), one action per call. *)

\* The order of start-up: what follows a call that succeeds.
Order ==
    [create |-> "pool", pool |-> "events", events |-> "init",
     init |-> "factory", factory |-> "transport", transport |-> "start",
     start |-> "socket", socket |-> "unlink", unlink |-> "bind",
     bind |-> "chmod", chmod |-> "listen", listen |-> "g_srv",
     g_srv |-> "signal", signal |-> "run"]

\* Mutants of After: the mode is narrowed when the socket already listens;
\* the path is unlinked as soon as the daemon listens; the dispatcher is created
\* after pjsua is started; the handlers are installed before there is something
\* to stop.
AfterChmodLate(s) ==
    [Order EXCEPT !.bind = "listen", !.listen = "chmod", !.chmod = "g_srv"][s]

AfterUnlinkLast(s) ==
    [Order EXCEPT !.socket = "bind", !.listen = "unlink", !.unlink = "g_srv"][s]

AfterEventsLate(s) ==
    [Order EXCEPT !.pool = "init", !.start = "events", !.events = "socket"][s]

AfterHandlersFirst(s) ==
    [Order EXCEPT !.listen = "signal", !.signal = "g_srv", !.g_srv = "run"][s]

After(s) == Order[s]

Goto(d, s) == stage' = [stage EXCEPT ![d] = s]

\* main() is about to make call s, which succeeds.
Call(d, s) == stage[d] = s /\ Goto(d, After(s))

\* pjsua_create(), the start-up pool, pjsua_init(), the null renderer's
\* factory, the transport.
BootStep(d) ==
    /\ \E s \in {"create", "pool", "init", "factory", "transport"} : Call(d, s)
    /\ UNCHANGED <<file, ownVars, history>>

EventsCreate(d) ==
    /\ Call(d, "events")
    /\ events' = [events EXCEPT ![d] = "live"]
    /\ UNCHANGED <<file, sock, worker, g_srv, handlers, stop, history>>

\* pjsua_start(); the null sound device that may follow cannot fail start-up.
PjsuaStart(d) ==
    /\ Call(d, "start")
    /\ worker' = [worker EXCEPT ![d] = TRUE]
    /\ UNCHANGED <<file, sock, events, g_srv, handlers, stop, history>>

\* Every failure up to here ends in pjsua_destroy(), but the first.
BootFail(d) ==
    /\ stage[d] \in Boot
    /\ Goto(d, IF stage[d] = "create" THEN "exit" ELSE "destroy")
    /\ UNCHANGED <<file, ownVars, history>>

\* pjsocky_server_create() ...
Socket(d) ==
    /\ Call(d, "socket")
    /\ sock' = [sock EXCEPT ![d] = "open"]
    /\ UNCHANGED <<file, events, worker, g_srv, handlers, stop, history>>

\* A path that is too long, or no socket.
SocketFail(d) ==
    /\ stage[d] = "socket"
    /\ Goto(d, "destroy")
    /\ UNCHANGED <<file, ownVars, history>>

\* unlink() of the path, whose result nobody looks at: without permission to
\* remove what is there it stays.
Unlink(d) ==
    \/ file' = NoFile /\ UNCHANGED stuck
    \/ file # NoFile /\ UNCHANGED file /\ stuck' = stuck \cup {d}

\* ... removes whatever is at the path ...
UnlinkStale(d) ==
    /\ Call(d, "unlink")
    /\ Unlink(d)
    /\ UNCHANGED <<ownVars, signalled, alone, killed>>

\* ... binds, which makes a file with the mode the umask leaves ...
Bind(d) ==
    /\ Call(d, "bind")
    /\ file = NoFile
    /\ file' = [owner |-> d, mode |-> "umask"]
    /\ sock' = [sock EXCEPT ![d] = "bound"]
    /\ UNCHANGED <<events, worker, g_srv, handlers, stop, history>>

\* (the path is in use, or cannot be written: the socket is closed)
BindFail(d) ==
    /\ stage[d] = "bind"
    /\ Goto(d, "destroy")
    /\ sock' = [sock EXCEPT ![d] = "none"]
    /\ UNCHANGED <<file, events, worker, g_srv, handlers, stop, history>>

\* ... narrows the mode of the file that is at the path now ...
Chmod(d) ==
    /\ Call(d, "chmod")
    /\ file # NoFile
    /\ file' = [file EXCEPT !.mode = "owner"]
    /\ UNCHANGED <<ownVars, history>>

\* ... and listens.
Listen(d) ==
    /\ Call(d, "listen")
    /\ sock' = [sock EXCEPT ![d] = "listening"]
    /\ UNCHANGED <<file, events, worker, g_srv, handlers, stop, history>>

\* Mutant of ServeFail: the file that was bound is left behind.
ServeFailKeepsFile(d) ==
    /\ stage[d] \in {"chmod", "listen"}
    /\ Goto(d, "destroy")
    /\ sock' = [sock EXCEPT ![d] = "none"]
    /\ UNCHANGED <<file, events, worker, g_srv, handlers, stop, history>>

\* A chmod() or listen() that fails closes the socket and unlinks the path,
\* the two calls pjsocky_server_destroy() makes as well.
ServeFail(d) ==
    /\ stage[d] \in {"chmod", "listen"}
    /\ Goto(d, "close")
    /\ UNCHANGED <<file, ownVars, history>>

SetSrv(d) ==
    /\ Call(d, "g_srv")
    /\ g_srv' = [g_srv EXCEPT ![d] = TRUE]
    /\ UNCHANGED <<file, sock, events, worker, handlers, stop, history>>

InstallHandlers(d) ==
    /\ Call(d, "signal")
    /\ handlers' = [handlers EXCEPT ![d] = TRUE]
    /\ UNCHANGED <<file, sock, events, worker, g_srv, stop, history>>

\* pjsocky_server_run() sees the stop request ...
LoopStops(d) ==
    /\ stage[d] = "run" /\ stop[d]
    /\ Goto(d, "close")
    /\ UNCHANGED <<file, ownVars, history>>

\* ... or select() or accept() fails.
LoopFails(d) ==
    /\ stage[d] = "run"
    /\ Goto(d, "close")
    /\ UNCHANGED <<file, ownVars, history>>

\* pjsocky_server_destroy() closes the socket, then unlinks the path.
CloseListen(d) ==
    /\ stage[d] = "close"
    /\ Goto(d, "remove")
    /\ sock' = [sock EXCEPT ![d] = "none"]
    /\ UNCHANGED <<file, events, worker, g_srv, handlers, stop, history>>

UnlinkOwn(d) ==
    /\ stage[d] = "remove"
    /\ Goto(d, "destroy")
    /\ Unlink(d)
    /\ UNCHANGED <<ownVars, signalled, alone, killed>>

\* pjsua_destroy(): the worker ends, then the pools are released, with the
\* event dispatcher and the server in them.
StopWorker(d) ==
    /\ stage[d] = "destroy"
    /\ Goto(d, "free")
    /\ worker' = [worker EXCEPT ![d] = FALSE]
    /\ UNCHANGED <<file, sock, events, g_srv, handlers, stop, history>>

FreePools(d) ==
    /\ stage[d] = "free"
    /\ Goto(d, "return")
    /\ events' = [events EXCEPT ![d] = IF @ = "live" THEN "freed" ELSE @]
    /\ UNCHANGED <<file, sock, worker, g_srv, handlers, stop, history>>

Return(d) ==
    /\ stage[d] = "return"
    /\ Goto(d, "exit")
    /\ UNCHANGED <<file, ownVars, history>>

-----------------------------------------------------------------------------
(* The launcher, signals and crashes. *)

\* A process starts with everything as C leaves it; a file of its
\* predecessor belongs to nobody any more.
Launch(d) ==
    /\ ~Running(d)
    /\ Goto(d, "create")
    /\ sock' = [sock EXCEPT ![d] = "none"]
    /\ events' = [events EXCEPT ![d] = "none"]
    /\ worker' = [worker EXCEPT ![d] = FALSE]
    /\ g_srv' = [g_srv EXCEPT ![d] = FALSE]
    /\ handlers' = [handlers EXCEPT ![d] = FALSE]
    /\ stop' = [stop EXCEPT ![d] = FALSE]
    /\ file' = IF file.owner = d THEN [file EXCEPT !.owner = Gone] ELSE file
    /\ signalled' = signalled \ {d} /\ killed' = killed \ {d} /\ stuck' = stuck \ {d}
    /\ alone' = {e \in {d} : \A o \in Inst : ~Running(o)}

\* The process is gone from one instant to the next.
Die(d) ==
    /\ Goto(d, "exit")
    /\ sock' = [sock EXCEPT ![d] = "none"]
    /\ worker' = [worker EXCEPT ![d] = FALSE]
    /\ killed' = killed \cup {d}
    /\ UNCHANGED <<file, events, g_srv, handlers, stop, alone, stuck>>

Crash(d) == Running(d) /\ Die(d) /\ UNCHANGED signalled

\* SIGTERM or SIGINT.  Without a handler the process dies; the handler asks
\* the server to stop if there is one.  After pjsua_destroy() the server's
\* memory is no longer there: the write goes anywhere.
Signal(d) ==
    /\ Running(d) /\ d \notin signalled
    /\ signalled' = signalled \cup {d}
    /\ \/ ~handlers[d] /\ Die(d)
       \/ /\ handlers[d] /\ stage[d] # "return"
          /\ stop' = [stop EXCEPT ![d] = @ \/ g_srv[d]]
          /\ UNCHANGED <<stage, file, sock, events, worker, g_srv, handlers,
                         alone, killed, stuck>>
       \/ /\ handlers[d] /\ stage[d] = "return"
          /\ Die(d) \/ UNCHANGED <<stage, file, ownVars, alone, killed, stuck>>

Startup(d) ==
    \/ BootStep(d) \/ EventsCreate(d) \/ PjsuaStart(d) \/ Socket(d)
    \/ UnlinkStale(d) \/ Bind(d) \/ Chmod(d) \/ Listen(d) \/ SetSrv(d)
    \/ InstallHandlers(d)
Failure(d) ==
    BootFail(d) \/ SocketFail(d) \/ BindFail(d) \/ ServeFail(d) \/ LoopFails(d)
Shutdown(d) ==
    \/ LoopStops(d) \/ CloseListen(d) \/ UnlinkOwn(d) \/ StopWorker(d)
    \/ FreePools(d) \/ Return(d)

Next ==
    \E d \in Inst : \/ Launch(d) \/ Crash(d) \/ Signal(d)
                    \/ Startup(d) \/ Failure(d) \/ Shutdown(d)

Spec == Init /\ [][Next]_vars

\* main() goes on: a call succeeds or fails.  Nothing is assumed of the
\* launcher, of crashes and of signals, and a loop that nobody stops goes on.
Main(d) == Startup(d) \/ Shutdown(d) \/ (stage[d] # "run" /\ Failure(d))

FairSpec == Spec /\ \A d \in Inst : WF_vars(Main(d))

-----------------------------------------------------------------------------
(* Properties. *)

\* Every variable has its type.
TypeOK ==
    /\ stage \in [Inst -> Stage]
    /\ sock \in [Inst -> {"none", "open", "bound", "listening"}]
    /\ file \in [owner : Inst \cup {Gone}, mode : {"none", "umask", "owner"}]
    /\ events \in [Inst -> {"none", "live", "freed"}]
    /\ worker \in [Inst -> BOOLEAN] /\ g_srv \in [Inst -> BOOLEAN]
    /\ handlers \in [Inst -> BOOLEAN] /\ stop \in [Inst -> BOOLEAN]
    /\ signalled \subseteq Inst /\ alone \subseteq Inst /\ killed \subseteq Inst
    /\ stuck \subseteq Inst

\* server.c: "a socket whose mode could not be narrowed is not one this daemon
\* listens on".  Whenever connect() on the path can reach a daemon, the file
\* is its owner's alone, even when two instances unlink, bind and chmod the
\* same path in any order.
OnlyOwnerConnects ==
    \A d \in Inst : file.owner = d /\ sock[d] = "listening" => file.mode = "owner"

\* server.c: "Remove a stale socket file left behind by a previous run".  Whatever
\* crashed before it and at which point, a daemon that no other instance ran
\* beside finds nothing in the way of its bind() unless it could not remove it,
\* and if it gets to serve it is found at its path even then.
LoneDaemonIsReachable ==
    \A d \in alone : /\ stage[d] = "bind" => file = NoFile \/ d \in stuck
                     /\ stage[d] = "run" => file.owner = d

\* Every way out of main() that is not a death takes the daemon's own socket
\* file with it, if unlink() can remove it: each failure of start-up, an ended
\* loop, a stop request.
NoFileLeftBehind ==
    \A d \in Inst : stage[d] = "exit" /\ d \notin killed \cup stuck => file.owner # d

\* main.c: the dispatcher "must exist before pjsua_start()", since pjsua's
\* callbacks reach it without being given it; and it outlives the worker on
\* every way out.
CallbacksFindEvents == \A d \in Inst : worker[d] => events[d] = "live"

\* A SIGTERM or SIGINT ends the daemon, at whatever point of start-up, loop or
\* shutdown it arrives.
SignalEndsDaemon == \A d \in Inst : d \in signalled ~> stage[d] = "exit"

-----------------------------------------------------------------------------
(* Claims that TLC refutes on this module; README.md tells what happens.     *)

\* server.c takes a file it finds at its path for a stale one, and removes
\* the file at its path when it ends.  With two instances both may be the
\* socket of a daemon that serves.
ServingIsReachable == \A d \in Inst : stage[d] = "run" => file.owner = d

\* server.h says pjsocky_server_stop() is safe in a signal handler; main.c
\* leaves the handler installed when the server's memory is released.
SignalFindsServer ==
    [][\A d \in Inst : d \in signalled' \ signalled /\ handlers[d]
                           => stage[d] # "return"]_vars
=============================================================================
