# pjsocky in TLA+

pjsocky is a SIP user agent without a user interface: pjsua (pjsip) makes the
calls, and one client at a time steers it over a Unix socket with lines of
JSON. This directory specifies the part of that program that is its own: the
control connection, the account, the call, the choice of devices, the null
renderer, and the daemon's own start and end. The modules are checked with TLC
on small instances, and the central invariants are proved with TLAPS for every
value of the constants.

Paths below are relative to the repository (`src/call.c`, `docs/PROTOCOL.md`).

## The system

Two threads run the daemon's code. The **main thread** runs the `select()` loop
of `proto/server.c`: it accepts clients, reads lines, runs command handlers and
writes their responses. **pjsua's worker thread** runs pjsua's callbacks and
timers, which call into `account.c`, `call.c` and `im.c` and push events to
the client. A command handler calls pjsua, which may run a callback on the main
thread before it returns. The threads share the socket (under the lock of
`proto/events.c`) and the global variables of `account.c` and `call.c` (under
no lock at all).

| part | state | operations | talks to | what is hard |
|---|---|---|---|---|
| server loop, `proto/server.c` | listen socket, `conn` (socket, framing, active), `stop_requested` | run, open, refuse, close, handle input, stop | framing, events, dispatch | a second client, a client that leaves or stalls, failing system calls, a stop request at any time |
| event sink, `proto/events.c` | lock, pointer to the framing of the connection | set_conn, write_response, push | called by both threads, writes through framing | two writers on one socket, a pointer into another thread's stack frame |
| framing, read side, `proto/framing.c` | buffer, start, length | init, fill, extract_line | server loop | lines over several `recv()`s, several in one, in-place lines, full buffer |
| framing, write side, `proto/framing.c` | none | compact_json, send_all, write_line, write_json | event sink | partial sends, deadline, half a message, strings that look like layout |
| dispatch, `proto/dispatch.c` | none | one handler per command | account, call, im, device | error mapping, callbacks before the response |
| account, `account.c` | `g_acc_id`, `g_registered` | configure, register, unregister, remove, on_reg_state2 | pjsua | results that arrive while a command runs |
| call, `call.c` | `g_call_id`, `g_video_failed_call_id`, ring timeout, three timer entries with their flags, two watchdog counters | dial, answer, hangup, hangup_all, set_ring_timeout, five pjsua callbacks, three timer callbacks | pjsua, account, device | callbacks and timers racing commands, slots that are reused, one timer for many calls |
| device, `device.c` | selected capture device | set audio, set video, list | pjsua, account, call | change while an account or call is being set up; a sound device nobody uses |
| messages, `im.c` | none | send, on_pager | pjsua, event sink | nothing of its own |
| null renderer, `null_video_dev.c` | the format of each stream | pjmedia factory and stream operations | pjmedia | formats that change, and change back |
| start and stop, `main.c` | `g_srv`, pjsua, the socket file | start-up, signal handler, shutdown | everything | order of the calls, failures of any of them, signals, crashes, two instances |
| helpers, `proto/jsonutil.c`, `proto/version.c` | none | formatting | dispatch, events | nothing stateful |

What makes the parts correct:

- control connection: messages never mix on the wire, nothing is written to a
  closed socket or through a stale pointer, every request is answered in order,
  a stalled or second client disturbs nobody else, a stop request ends the loop;
- read side: exactly the lines that were sent, whatever the `recv()` boundaries;
- write side: what goes out is the message on one line, and a write ends in time;
- account: the flag other commands rely on is pjsua's own view;
- devices: what was selected last is what calls use, whichever order account,
  call and selection come in; a device without a picture is never used, and the
  sound device is open when there is audio and closes when there is none;
- null renderer: a port always gets to the size of the pictures that arrive;
- start and stop: the socket is its owner's alone before anyone can connect, it
  is found where it should be, it goes with the daemon, and a signal ends it;
- call: the current call exists; a ringing call keeps its ring timer and stops
  ringing; a video stream stays watched, and is given up once when it is dead;
  what takes a timer from a call is another call or a timer that cannot be
  scheduled, never the call's own callbacks.

## Modules

| module | models | module | proofs |
|---|---|---|---|
| `LineStream` | what the read side promises, without a buffer | | |
| `Framing` | `framing.c` read side, `handle_conn_input()` | `FramingProofs` | invariants, refinement of `LineStream` |
| `LineWriter` | `framing.c` write side: one message, byte by byte, with a clock | `LineWriterProofs` | invariants |
| `ControlMessages` | the lines and messages of the control connection | | |
| `ControlLink` | what the control connection promises its clients, without threads, lock and buffers | | |
| `ControlConn` | `server.c` loop, `events.c`, many messages on one connection | `ControlConnProofs` | invariants, an action property, refinement of `ControlLink` |
| `Account` | `account.c` and its commands | `AccountProofs` | invariants |
| `Device` | `device.c`, composed with `Account` and the device work of `call.c` | `DeviceProofs` | invariants, refinement of `Account` |
| `Call` | `call.c` and its commands | `CallProofs` | invariants |
| `NullVideo` | `null_video_dev.c` | `NullVideoProofs` | invariants |
| `Lifecycle` | `main.c`, creation and destruction of the server | `LifecycleProofs` | invariants |

`MCFraming`, `MCLineWriter`, `MCControlConn`, `MCDevice`, `MCCall`, `MCNullVideo` and
`MCLifecycle` are the TLC instances. In every module, a definition whose comment
begins "Mutant of" is a plausible bug in the definition after it; each property
is known to fail with one.

**Framing.** `buf`, `start`, `len` are the fields of `pjsocky_framing_t`; the
array has `MaxLine + 1` bytes because the code keeps one for a terminator. An
action is one return path of `pjsocky_framing_fill()` or `_extract_line()`.
`stream` and `recvd` are the socket, `taken` and `live` history: how much was
cut off, and which lines were returned since the last fill and may still be
read through their pointers. The buffer keeps its old bytes over a reconnect,
as `conn_state` does on `pjsocky_server_run()`'s stack.

**ControlConn.** `pc["main"]` walks through the loop, `open_conn()`,
`refuse_conn()` and `close_conn()`; either thread enters a write at `"lock"`,
holds `events->lock` during `"send"`, and returns where `After` says. A message
is `Units` units long, a socket buffer holds `Cap` of them; `send()` takes any
number that fits, and a write that meets a full buffer either goes on or ends
at its deadline. There is no clock: a deadline is a step that may happen while
the buffer is full (`LineWriter` has the clock). The client may send well-formed,
malformed and oversized lines, read or not, and leave at any time. `WorkerEvent`
stands for every event push of `account.c`, `call.c` and `im.c`,
`DispatchCallback` for a push that pjsua makes inside a command.

**ControlLink.** The phase of a connection is read off `ControlConn`'s sockets and the
loop's `conn`; a message has begun when its first unit is on the socket and is whole
when its last one is; the one sent last is that of the last unit. So a step of
the abstract module is the first `send()` of a message or its last one, and everything
the lock, the buffers and the two threads do in between is stuttering.

**LineWriter.** A message is a sequence of tokens (layout, a byte, a string),
since that is how `pj_json_write()` makes it and how the client takes it apart;
`compact_json()` sees only bytes. In a string every quote and backslash of its
content is escaped (`IsString`). `i`, `out`, `in_string` and `escaped` are its
variables, `sent` and `start` those of `send_all()`, which `write_line()` runs twice
(`part`). `Tick` is the only action that takes time and happens only inside
`select()`.

**Account.** pjsua has at most one request outstanding per account, reports it
by one callback, refreshes a registration by itself, and holds its lock during
the callback. `account.remove` is three steps, because the flag is read and
the variables are cleared outside that lock. `bound`, whether the registrar has the
account, is pjsua's own state, settled by the request that completes and not by the
daemon's flag. The callback's return for a failing `pjsua_acc_get_info()` is not
taken: pjsua fails there only for an account that does not exist, and the lock keeps
this one.

**Device.** Extends `Account` by the capture device of the account
(`vid_cap_dev`), calls reduced to what they do with devices, and pjsua's sound
device. `device.set_video` is two steps, the global and then the account, and
`device.set_audio` up to three (look, close, select), because INVITEs come in
on the worker in between. `on_call_media_state` is two steps on either thread:
`apply_video_capture_device()` reads the selection and then asks pjsua to change,
`connect_call_audio_to_sound_dev()` follows. A re-INVITE may take video away from a
call, or add it with the device the account has then. `mark` is history: whether a call was
set up after the last selection, and whether the account had taken it. What
pjsua is asked to open or to change may fail every time.

**Call.** Nothing in `call.c` is locked, so a step is one access to its variables or
one call of pjsua, and `fn`, `pc` and `call` say where each of the two threads is. pjsua
holds a lock of a call while it runs that call's callbacks and operations (`LockFree`):
`on_call_state()` of one call, inside `call.answer` on the main thread, and
`on_incoming_call()` of another on the worker run side by side, and a timer callback
holds no lock at all. Cancelling a timer is three steps (test the flag, take the entry out
of the heap, clear the flag) and so is arming it (`pj_timer_entry_init()`,
`pjsua_schedule_timer()`, set the flag), for all three timers and on either thread. `armed`
says that the entry is in the heap under its own id; an entry that is initialised or
scheduled while it is there stays behind under an id nobody knows (`orphan`) and is run
from it. `pjsua_schedule_timer()` may fail each time. `lost` is history: the calls that have lost a timer, by one of the ways
that `Lose` names. The properties about timers speak of the calls that have not lost
theirs, the refuted claims below of the others.

Two merges remain. `StateRing` reads the flag and the entry's call in one step, which
cannot be told from two: no other thread initialises the entry for the call whose lock
is held. `DogCount` updates the two watchdog counters in one step. Only `arm_video_watchdog()` of
another call on the main thread can come in between, with two slots, and lose its reset
of the counters: the next give-up is then one window early, which no property is about.
pjsua's giving up on a lock after a while is left out. `HangupCall`, `Confirm`,
`RemoteEnd` and the like are pjsua, modelled from how `call.c` uses it. The event pushes at the end of the callbacks are left
to `ControlConn`: they change nothing here.

**NullVideo.** `param` is the format each stream of the device remembers,
`port_fmt` the one pjmedia's port expects, `src_fmt` that of the frames. Format
changes travel as events and are handled later, in order.

**Lifecycle.** `stage` is the call `main()` makes next, `Order` the order of the
calls; each may fail, with the clean-up of its own error path. `file` is what is
at the socket path: who bound it, and its mode. Instances are processes that can
be started again, beside each other too; a crash takes the sockets and leaves
the file. `unlink()` may fail and leave what is there, which nobody looks at (`stuck`
remembers whose did). The signal handler can run between any two calls; after
`pjsua_destroy()` its write to the released server may do anything.

## Runs

| run | instance | shows |
|---|---|---|
| `framing` | buffer of 3 bytes, 5 bytes sent per connection, any number of connections | the window is the unconsumed stream, returned lines stay intact, `recv()` always has room, only too long lines are refused, no complete line is left waiting; implements `LineStream` |
| `write` | all texts of up to 3 tokens and 7 bytes, strings of up to 2 characters, scratch buffer of 6 bytes, socket buffer of 2, deadline of 2 ticks | compaction keeps every token, the wire is the line, no write exceeds its deadlines, every write ends |
| `control` | two clients, one line, one event | no write to a closed socket, no stale pointer, refusal and greeting protocol, no eviction (a connection is closed over a response only if that response is not on the wire as a whole); implements `ControlLink`; loop and newcomer are never stuck |
| `wire` | one client, two lines, two events | messages do not mix, responses in order, the worker gets out of its push, every request is answered |
| `device` | one account id, one call slot, two cameras behind the null renderer or the renderer alone, two sound devices | flag and reg_state events agree with pjsua; selections reach calls, the renderer never does, calls have sound, an idle sound device closes |
| `call` | one slot, audio and video, ring timer and watchdog | one give-up per call, the watchdog stays with its call, the ring timer is in the heap once; ringing ends, dead video is given up |
| `two_calls` | two slots, audio, ring timer or report, failing dials | the current call is live, and a ringing call loses the ring timer to the other call only |
| `renderer` | two ports, three formats, two changes on their way | the port follows every change |
| `lifecycle` | two instances, any number of starts and crashes | only the owner connects; a lone daemon starts over a stale file it can remove, and is found; no file it can remove is left; callbacks find the dispatcher; a signal ends the daemon |
| `hello_first`, `cut_message`, `lost_call` | as small as the behaviour allows | see "Where code and documentation disagree" |

`NoEviction` is an action property, `LineStreamSpec` and `LinkSpec` are refinements. All
other properties that are not invariants are liveness.

**Bounds.** A buffer of three bytes and five bytes sent have every case of the
code: an empty line, two lines in one `recv()`, a line that spans two, a window
that must be moved, a full buffer with and without newline, an oversized line
after a good one. The proofs remove this bound. Two units per message and a
socket buffer of two or three let a write be cut after its body and meet a full
buffer; further units only add more places of the same kind. Two clients are
needed for a refusal, and a third behaves as the second; two lines for order
and pipelining; two events so that one can fail and another follow. One packet
(`MaxTx`) tells the watchdog's two cases, before and after the first packet,
apart. `Works` bounds which timers are in use at the same time, the others then fail
to be scheduled: ring timer and watchdog in `call`, the ring timer or the report in
`two_calls`, whose audio calls never arm the watchdog. What the code does with one timer
does not look at another, so that each is met with all that concerns it. With all
three timers the one-slot instance has 4.2 million states and its invariants were
checked once. Two slots with video are too many to exhaust; 22 million states
breadth first and 100 million by simulation met no violation of `WatchdogKept`,
`CurrentCallIsLive` and `RingTimerKept`, which the proofs establish; neither did the
8.8 million of two audio calls with both timers at once. The two slots are
interchangeable, and `two_calls`, which has no liveness, is reduced by that symmetry.
Three tokens and strings of two characters hold every neighbourhood the compaction's
two flags tell apart (a space, an escaped quote or an escaped backslash before
the closing quote, layout before and after a string); a scratch buffer one byte
smaller than the longest text makes `pj_json_write()` fail, a socket buffer of
two bytes cuts every text, and two ticks let a wait be split. One call in
`device` is reused for any number of successive calls; a run with two calls and
one sound device (4.3 million states, too many for the liveness property) was
made once and found the same, and the proofs remove the bound. Two instances are
needed for an overlap. Three formats let a picture come back to an earlier one
by way of another. Nothing bounds the number of successive calls, connections
(in `Framing`), registrations, starts or crashes. `CHECK_DEADLOCK FALSE` is set for
`ControlConn` and `LineWriter`, which end.

**Fairness.** Of clients, peers, signals and devices nothing is assumed.
`Framing` and `ControlConn`: the main thread and a write in progress go on (weak
fairness), because `send_all()` never waits longer than its deadline and
`select()` returns for readable sockets; a failing `select()` is never forced.
`Call`: a thread that is in a function goes on (weak for the main thread; strong for the
worker, whose wait for a call's lock ends however often the main thread has it
first), and an entry that stays in pjsua's timer heap is run however often the worker is
busy with something else first (strong, since the worker's other work disables it again
and again).
`LineWriter`: the writing thread goes on (weak) and the clock does not stand still
for ever (strong, since each interruption of `select()` disables it for a
moment); that the client reads is not assumed. `Device`: callbacks go on (weak),
and pjsua's auto-close timer, once armed, is run or disarmed (strong, as for
`Call`); it is taken that `pjsua_set_snd_dev2()` leaves that timer alone.
`Lifecycle`: `main()` makes its next call, which succeeds or fails (weak); neither a
failing loop nor a signal is forced.
`DeadVideoIsGivenUp` excludes peers that renegotiate for ever: each
renegotiation restarts the watchdog.

## Proofs

| module | theorems (each `Spec => []...`) | assumptions |
|---|---|---|
| `FramingProofs` | `TypeCorrect`, `WindowCorrect`, `LinesValid`, `FillAlwaysHasRoom`, `TooBigIsJustified`, and `ImplementsLineStream` (`Spec => LineStreamSpec`) | `NL` and `NUL` are different bytes, `MaxLine` is positive |
| `AccountProofs` | `TypeCorrect`, `FlagCorrect`, `EventCorrect` | the null id is no id |
| `DeviceProofs` | `DevTypeCorrect`, `RendererNeverUsed`, `SelectionReaches`, `SoundReaches` (each `DevSpec => []...`), and `ImplementsAccount` (`DevSpec => Spec`) | the invalid device is in no enumeration and cannot capture, `Closed` is no device |
| `NullVideoProofs` | `TypeCorrect`, `RendererCorrect` | the default is a format, "no stream" is none |
| `LifecycleProofs` | `TypeCorrect`, `OwnerOnly`, `LoneIsReachable`, `FileIsRemoved`, `EventsFound` | a process that is gone is no instance |
| `CallProofs` | `InductiveInvariant`, `TypeCorrect`, `CurrentCallLive`, `RingTimerIsKept`, `WatchdogIsKept`; for one slot `RingTimerOnce` and `VideoTornDownOnce` | the null id is no id, `MaxTx` is positive |
| `ControlConnProofs` | `TypeCorrect`, `SocketsOutliveWrites`, `PointerIsCleared`, `MessagesAreWhole`, `ClientsAreGreetedOrRefused`, `ResponsesKeepTheOrder`, `NewcomersEvictNobody` (`Spec => NoEviction`) and `ImplementsControlLink` (`Spec => LinkSpec`) | the null socket is no socket, a message has a body and a newline, a socket buffer has room for something |
| `LineWriterProofs` | `InductiveInvariant`, `CompactIsLossless`, `WireCarriesTheLine`, `DeadlineKept` | texts are sequences of JSON tokens, the bounds are positive |

*Framing.* The invariants hold together. `LinesStayValid` is not inductive by
itself: that cutting another line does not overwrite one returned before needs
to know that every returned line, its terminator included, ends before the
window, or the window is empty (`LiveBehindWindow`). The refinement maps the
abstract text to the bytes as they lie in the buffer while they are handled, so
it fails if a line is changed under its reader.

*Account.* The two properties need each other and pjsua's lock: while the worker
is in the callback it holds the lock and the flag is still the outcome it will
report (`CallbackHoldsLock`); between `pjsua_acc_del()` and the clearing of the
variables there is no account to report about (`NothingAfterDelete`).

*Device.* Every step of the composition is a step of `Account` or leaves it alone, so
`Account`'s invariant comes for free, and is needed: a selection made when
`g_acc_id` names no account can only wait for the next `account.configure`
because pjsua then has none either. `AccountFollows` says the account has the
selection unless pjsua refused it or `device.set_video` is still under way;
`CopyIsCurrent` that the copy `on_call_media_state` carries is not older than a call
that counts on it. For the sound: nothing gets to its audio while
`device.set_audio` is about to close the device (`ClosingIsQuiet`), since there was
no call when it looked, and one that has come in since has no media until the
main thread, which is busy, answers it; and the timer is never armed beside a connected call
(`SoundFollows`).

*NullVideo.* The port's format is the one the device remembers, and the frames'
format is the last one announced: the last in the queue, or the port's when the
queue is empty.

*Lifecycle.* `FileStages`, which calls lie behind an instance that owns the file,
carries `NoFileLeftBehind`; `ModeNarrowed`, that a file whose owner is past `chmod()`
has its mode narrowed, carries `OnlyOwnerConnects`, and needs that another
instance's `chmod()` can only narrow; `LoneStages` says what is at the path of an
instance that ran alone, stage by stage; `EventsLive` that the dispatcher exists
from its creation to the release of the pools, which the worker never outlives.

*Call.* Layers again. `Typed` has where each thread can be; `StepKinds` lists the steps once,
so that each layer is a proof by the same cases. `Locks` is what the lock of a call gives:
two threads that hold one hold it for different calls, a call in a callback exists, and
one that is over is so inside its callback. On it rest three layers that hold for any number
of slots and for timers that fail. `EndingIsNotCurrent`: a thread that ends a call has seen
that it is not the current one, or made it so, and only a call's own function, under its
lock, makes it the current call. `HasRingTimer`: `on_call_state()` cancels only for a call that
does not ring (`CancelsAnswered`), so if the entry it takes out is a ringing call's, it is
another's, which has then lost it. `HasWatchdog` needs `GivesUpMarked`, that
`give_up_on_video()` has marked its call before it cancels, and `GivesUpLate`, that its call is past
its first media, so that no other thread arms the watchdog between the two.

Two layers hold for one slot only (`OneSlot`), where the lock of the call is one for
everything its callbacks touch. The flag of the ring timer never says less than the heap
where anyone reads it (`RingFlagTrue`), because only the worker arms it, and never while
the main thread is in a callback of the same call. And a call whose video was removed
is marked until it is over (`RemovedIsMarked`, `GivesUpOnce`). With two slots both are false
of the code; "Where code and documentation disagree" has the behaviours.

*ControlConn.* Five layers, each inductive relative to the ones before.
`Control` says where the threads are and what they hold: a writer holds the lock
and writes to the published connection, except for a refusal, which goes to a
socket of its own (`LockGuardsWrites`); the published pointer is the loop's
connection until `close_conn()` clears it (`PointerIsConn`); the listen queue holds
each unaccepted client once (`BacklogIsFresh`), which keeps the refused socket
apart from the served one. The socket and pointer theorems follow from this layer. `Wire` adds what is on the sockets: the last unit of a message that is
half written is the last unit of its socket (`WriterOwnsTheEnd`), from which
messages are whole, and before the greeting has begun there are only events on
the served socket (`KindsOnTheWire`). `Requests` adds which lines are answered:
responses on the wire are to lines taken before, less than the one in work until
its own response begins (`ResponsesToLines`), and every request before that one has its whole
response unless the connection is being closed (`EarlierAnswered`).

`Once` is what the refinement needs beyond that, since `ControlLink` forbids saying
anything twice: the number of an event is given out once, and the event is on no
socket until its thread begins to send it (`EventsOnce`); the line in work has no reply
yet, and no line is taken after one that was too long (`RepliesOnce`); a refusal is the
first message on its socket (`RefusalIsFirst`); of a message that is half written the
first unit is on the socket and the last is not (`HalfSaid`). Hence a message of which
nothing has been sent is nowhere on its socket (`FreshMessage`), and its first `send()`
is one of `TellRefusal`, `Greet`, `Push` and `Reply`; a later one is `Complete`, or
changes nothing.

`NoEviction` needs a last one: a connection that is being closed over a response has not got
that response to its end (`AnswerLost`), because the line is answered once and the loop
goes on to the next line when its response was written.

*LineWriter.* The invariant of the loop in `compact_json()` is that `i` lies `o` bytes
into token `k + 1`, the flags say where in a string that is, and the buffer begins with
the first `k` tokens without layout and the `o` bytes (`Compacting`); the bytes
still to be read have not been overwritten, since the output never overtakes
the input. It needs the tokens to be JSON: the flags agree with the position
only because every quote inside a string is escaped. `Delivered` says that
the socket has a prefix of the line, `InTime` bounds the clock by the deadlines of
the calls made so far. The text is the concatenation of its tokens, defined by a
recursive function of the community modules; what the proof needs of it is
by induction over the tokens. The induction theorems of the library take
an operator and cannot be instantiated, so `NatSetInduction` restates induction for a
set of numbers, proved from the well-foundedness of `<` on them.

Type correctness is left to the proofs; no run spends a property on it.

Every invariant that a passing run checks is proved, and so are the action property
and the refinements. Only model-checked is liveness, which this prover does not
reach: `CompleteLinesAreTaken`, `WriteEnds`, `StopEndsTheLoop`, `WorkerIsReleased`,
`NewcomersAreAnswered`, `RequestsAreAnswered`, `IdleDeviceCloses`, `RingingEnds`,
`DeadVideoIsGivenUp` and `SignalEndsDaemon`.

## Where code and documentation disagree

Each of the first three is a run that ends with a counterexample.

- `hello_first`: `open_conn()` publishes the connection before it pushes the
  greeting; an event of the worker can be first. `server.c:234` and
  `docs/PROTOCOL.md:116` say nothing can.
- `cut_message`: the failure of an event write is ignored; the next message
  follows the fragment. `docs/PROTOCOL.md:156` says the connection is dropped.
- `lost_call`: a failing `call.dial` resets `g_call_id` although another call is
  up; `call.hangup_all` then does nothing. `call.h:15` says otherwise.

TLC refutes these claims too; they are stated in the modules and are not runs:

- `ExitsOnlyOnSignal` (`ControlConn`): a failing `accept()` ends the daemon
  (`server.c:414`). `docs/PROTOCOL.md:217` says only a signal does.
- `OneDeadlinePerMessage` (`LineWriter`): the newline of a message has a deadline of
  its own, so a message can take twice the configured time (`framing.c:178`).
  `framing.c:34` says the deadline is "measured across the whole message".
- `ServingIsReachable` (`Lifecycle`): a second instance on the same path removes the
  file of a daemon that serves, when it starts (`server.c:78`) and, if it
  fails or ends, when it goes (`server.c:444`). `server.c:76` calls the file stale.
- `SignalFindsServer` (`Lifecycle`): a second signal after `pjsua_destroy()` runs the
  handler on released memory (`main.c:362`, `main.c:647`).
- `AnsweredCallIsNotRejected` (`Call`): a call answered between the check and the
  hangup of `ring_timer_cb()` is hung up (`call.c:212`). The comment at `call.c:21`
  describes the re-check as the defence against this.
- `WatchdogGuardsVideo` (`Call`), that a call sending video has the watchdog, as the comment
  at `call.c:41` says. With early media or a late ACK it fires before the call is confirmed,
  returns, and is not armed again (`call.c:592`); the end or the media of another call
  cancels or takes it (`call.c:438`, `call.c:694`); `pjsua_schedule_timer()` fails. `WatchdogKept`
  is what remains: there is no other way.
- `CancelsItsOwnTimer` (`Call`, two slots): `on_call_state()` of an answered call passes the
  check at `call.c:423-427`, the worker arms the timer for a new call (`call.c:930-940`), and
  `pjsua_cancel_timer()` (`call.c:191`) takes that one out: the new call, the current one,
  rings without a timer.
- `RingTimerScheduledOnce` with two slots (`Call`): main clears the flag (`call.c:192`) after
  the worker has set it (`call.c:940`), and the next incoming call initialises and schedules an
  entry that is in the heap.
- `VideoRemovedOnce` with two slots (`Call`): there is one mark for all calls. Video of call A is
  given up, then that of B, and the mark is B's (`call.c:530`); the device of A reports again and
  the video of A is torn down a second time. The comment at `call.c:33` says "exactly once".
- `HangupAllHasCall` (`Call`): `call.hangup_all` reads `g_call_id` twice (`call.c:298`,
  `call.c:303`); if the call ends in between, pjsua is given an invalid id and its range
  check aborts the process, as the comment at `call.c:215` tells.
- `RemoveOnlyUnregistered` (`Account`): a REGISTER that succeeds between the check
  and `pjsua_acc_del()` is removed while registered (`account.c:181`).
- `DialReportsItsCall` (`Call`): a call that ends before `call.dial` reads
  `g_call_id` back is reported with another id than its own (`call.c:284`).
- `VideoFailedCallIsLive` (`Call`): a hangup between a device failure and
  `give_up_on_video()` leaves the mark behind for the next call in that slot
  (`call.c:530`).
- `ReportIsArmedAnew` (`Call`): `media_report_cb()` clears
  its flag after another thread armed the report; the next renegotiation
  schedules an entry that is in the heap (`call.c:637`).
- `VideoIsNotRetried` (`Call`): a later offer of the peer brings video back on a
  call whose video was given up (`call.c:860`).

That every ringing call has the ring timer holds for no number of slots, since it may not
be schedulable; with two, a second incoming call takes the timer of the first
(`call.c:933`), and the first rings on. `RingTimerKept` and `RingingEnds` are what remains
true, of the calls that have not lost it.

## Not modelled

`jsonutil.c` and `version.c`, which keep no state; in `dispatch.c` the validation of
parameters and the mapping of status codes to errors, a table without state
(two codes of `docs/PROTOCOL.md` "Errors", `not_found` and `internal_error`, are in
it nowhere); in `main.c` the reading of environment variables into pjsua's
configuration; in `call.c` call information and counters, in `device.c` the two
lists, which read pjsua and change nothing here; in `im.c` the two commands, each
one call of pjsua. pjsua, pjmedia, the kernel and the client are modelled
from how the code uses them.

## Plan

Done, in this order: the read side with its abstract specification; the control
connection; the account; the call; their first proofs; the write side with its
clock; start-up, shutdown and restart; the devices, composed with the account; the
null renderer; the proofs of the last three, of the control connection, of the write
side and of the rest of the call; the abstract control connection and the proof that
the detailed one implements it. Next: `Dispatch`, the outcome of every command as an
error code, against the table of `docs/PROTOCOL.md` "Errors".
