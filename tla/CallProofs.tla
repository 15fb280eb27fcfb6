----------------------------- MODULE CallProofs -----------------------------
(***************************************************************************)
(* Proofs about Call, for two threads that interleave between any two      *)
(* accesses to the variables of call.c.                                    *)
(*                                                                         *)
(* The inductive invariant is built in layers, each needing those          *)
(* before it.  Typed: every variable in its range, every thread at a place *)
(* of its program.  Locks: what the lock of a call gives, namely that two  *)
(* threads in callbacks are in those of different calls and that a call in *)
(* a callback exists.  Then three independent ones: the current call, the  *)
(* ring timer, the watchdog.  CallInv is their conjunction and holds with  *)
(* any number of call slots, and with timers that cannot be scheduled.     *)
(*                                                                         *)
(* Two more layers hold with one slot only, for then the lock of the call  *)
(* is one for everything its callbacks touch: the flag of the ring timer   *)
(* tells what the heap holds, and the mark of failed video stays where it  *)
(* is until the call is over.                                              *)
(***************************************************************************)
EXTENDS Call, TLAPS

\* Where a thread can be.
MainPlace(f, p) ==
    \/ f = "reply" /\ p = "read"
    \/ f = "hangup_all" /\ p = "call"
WorkerPlace(f, p) ==
    \/ f = "incoming" /\ p \in {"current", "timeout", "test", "cancel", "clear",
                                "init", "schedule", "set"}
    \/ f = "ring_cb" /\ p \in {"read", "unflag", "look", "reject"}
    \/ f = "dog_cb" /\ p \in {"read", "unflag", "look", "count", "schedule", "set"}
    \/ f = "report_cb" /\ p \in {"read", "unflag", "look", "schedule", "set"}
    \/ f = "giveup" /\ p \in {"check", "mark", "test", "cancel", "clear", "remove"}
EitherPlace(f, p) ==
    \/ f = "pjsua" /\ p = "idle"
    \/ f = "dial" /\ p = "store"
    \/ f = "state" /\ p \in {"ring", "test", "cancel", "clear", "over", "forget",
                             "mark", "unmark"}
    \/ f = "endwatch" /\ p \in {"test", "cancel", "clear"}
    \/ f = "endreport" /\ p \in {"test", "cancel", "clear", "free"}
    \/ f = "watch" /\ p \in {"test", "cancel", "clear", "video", "init", "schedule",
                             "set"}
    \/ f = "report" /\ p \in {"test", "cancel", "clear", "init", "schedule", "set",
                              "done"}
Places ==
    /\ EitherPlace(fn["main"], pc["main"]) \/ MainPlace(fn["main"], pc["main"])
    /\ EitherPlace(fn["worker"], pc["worker"]) \/ WorkerPlace(fn["worker"], pc["worker"])

\* A function has a call, except a timer callback that has yet to read it.
HasCall ==
    \A t \in Thread :
        fn[t] # "pjsua" /\ ~(t = "worker" /\ pc[t] = "read") => call[t] \in CallId

\* The part of TypeOK about the threads, with where they are.
ThreadsTyped ==
    /\ fn \in [Thread -> Function] /\ pc \in [Thread -> Place]
    /\ call \in [Thread -> CallId \cup {NoCall}] /\ goal \in [Thread -> CallState]
    /\ Places /\ HasCall

\* At start both threads are in pjsua.
LEMMA TypedInit == Init => TypeOK /\ ThreadsTyped
<1> SUFFICES ASSUME Init PROVE TypeOK /\ ThreadsTyped
  OBVIOUS
<1> USE DEF Init, Timer, Thread
<1>1. /\ data \in [Timer -> CallId]
      /\ lost \in [{"ring", "dog"} -> SUBSET CallId]
  OBVIOUS
<1>4. /\ st \in [CallId -> CallState] /\ media \in [CallId -> {"none", "audio", "video"}]
      /\ tx \in [CallId -> 0 .. MaxTx] /\ seen \in 0 .. MaxTx /\ stall \in Nat
      /\ goal \in [Thread -> CallState]
  BY MaxTxAssumption DEF CallState
<1>5. /\ fn \in [Thread -> Function] /\ pc \in [Thread -> Place]
      /\ call \in [Thread -> CallId \cup {NoCall}]
  BY DEF Function, Place
<1>6. /\ armed \in [Timer -> BOOLEAN] /\ flag \in [Timer -> BOOLEAN]
      /\ orphan \subseteq Timer
  OBVIOUS
<1>3. TypeOK
  BY <1>1, <1>4, <1>5, <1>6 DEF TypeOK
<1>2. Places /\ HasCall
  BY DEF Places, HasCall, EitherPlace
<1> QED
  BY <1>3, <1>2 DEF TypeOK, ThreadsTyped

\* A thread that goes to a place of its program stays typed.
LEMMA EnterTyped ==
    ASSUME ThreadsTyped, NEW t \in Thread, NEW c \in CallId \cup {NoCall}, NEW f,
           NEW p, Enter(t, c, f, p),
           \/ EitherPlace(f, p)
           \/ t = "main" /\ MainPlace(f, p)
           \/ t = "worker" /\ WorkerPlace(f, p),
           f = "pjsua" \/ c \in CallId \/ (t = "worker" /\ p = "read"),
           goal' \in [Thread -> CallState]
    PROVE  ThreadsTyped'
<1>1. f \in Function /\ p \in Place
  BY DEF EitherPlace, MainPlace, WorkerPlace, Function, Place
<1>2. /\ fn' \in [Thread -> Function] /\ pc' \in [Thread -> Place]
      /\ call' \in [Thread -> CallId \cup {NoCall}]
      /\ fn'[t] = f /\ pc'[t] = p /\ call'[t] = c
      /\ \A u \in Thread \ {t} : fn'[u] = fn[u] /\ pc'[u] = pc[u] /\ call'[u] = call[u]
  BY <1>1 DEF Enter, ThreadsTyped
<1>3. HasCall'
  BY <1>2 DEF HasCall, ThreadsTyped
<1>4. Places'
  BY <1>2 DEF Places, ThreadsTyped, Thread
<1> QED
  BY <1>2, <1>3, <1>4 DEF ThreadsTyped

\* The steps of cancelling and arming a timer do so.
LEMMA TimerStepThreads ==
    ASSUME ThreadsTyped, NEW t \in Thread, TimerStep(t)
    PROVE  ThreadsTyped'
<1> USE DEF Go, Return, ThreadsTyped, Places, HasCall, EitherPlace, MainPlace,
    WorkerPlace, Thread
<1>1. CASE TestFlag(t)
  BY <1>1, EnterTyped DEF TestFlag, AfterCancel
<1>2. CASE CancelEntry(t)
  BY <1>2, EnterTyped DEF CancelEntry
<1>3. CASE ClearFlag(t)
  BY <1>3, EnterTyped DEF ClearFlag, AfterCancel
<1>4. CASE InitEntry(t)
  BY <1>4, EnterTyped DEF InitEntry
<1>5. CASE Schedule(t)
  BY <1>5, EnterTyped DEF Schedule, AfterArm
<1>6. CASE SetFlag(t)
  BY <1>6, EnterTyped DEF SetFlag, AfterArm
<1> QED
  BY <1>1, <1>2, <1>3, <1>4, <1>5, <1>6 DEF TimerStep

\* So do those of on_call_state() and on_call_media_state(),
LEMMA CallbackStepThreads ==
    ASSUME ThreadsTyped, NEW t \in Thread, CallbackStep(t)
    PROVE  ThreadsTyped'
<1> USE DEF Go, Return, ThreadsTyped, Places, HasCall, EitherPlace, MainPlace,
    WorkerPlace, Thread
<1>1. CASE StateRing(t)
  BY <1>1, EnterTyped DEF StateRing, At
<1>2. CASE StateOver(t)
  BY <1>2, EnterTyped DEF StateOver, At
<1>3. CASE Forget(t)
  BY <1>3, EnterTyped DEF Forget, At
<1>4. CASE StateMark(t)
  BY <1>4, EnterTyped DEF StateMark, At
<1>5. CASE Unmark(t)
  BY <1>5, EnterTyped DEF Unmark, At
<1>6. CASE FreeSlot(t)
  BY <1>6, EnterTyped DEF FreeSlot, At
<1>7. CASE WatchVideo(t)
  BY <1>7, EnterTyped DEF WatchVideo, At
<1>8. CASE MediaDone(t)
  BY <1>8, EnterTyped DEF MediaDone, At, CallState
<1> QED
  BY <1>1, <1>2, <1>3, <1>4, <1>5, <1>6, <1>7, <1>8 DEF CallbackStep

\* those of the commands,
LEMMA MainStepThreads ==
    ASSUME ThreadsTyped, TypeOK, MainStep
    PROVE  ThreadsTyped'
<1> USE DEF Go, Return, ThreadsTyped, Places, HasCall, EitherPlace, MainPlace,
    WorkerPlace, Thread
<1>1. CASE TimerStep("main") \/ CallbackStep("main")
  BY <1>1, TimerStepThreads, CallbackStepThreads
<1>2. CASE DialStore
  BY <1>2, EnterTyped DEF DialStore, At
<1>3. CASE DialReturn
  BY <1>3, EnterTyped DEF DialReturn, At
<1>4. CASE HangupCurrent
  <2>1. PICK c \in {call["main"], g_call_id} \ {NoCall} : HangupIfLive("main", c)
    BY <1>4 DEF HangupCurrent
  <2>2. c \in CallId
    BY <1>4, <2>1 DEF HangupCurrent, At, TypeOK
  <2> QED
    BY <2>1, <2>2, EnterTyped DEF HangupIfLive, HangupCall, HangupLater, EnterState
<1> QED
  BY <1>1, <1>2, <1>3, <1>4 DEF MainStep

\* and those of on_incoming_call() and the timer callbacks.
LEMMA WorkerStepThreads ==
    ASSUME ThreadsTyped, TypeOK, WorkerStep
    PROVE  ThreadsTyped'
<1> USE DEF Go, Return, ThreadsTyped, Places, HasCall, EitherPlace, MainPlace,
    WorkerPlace, Thread
<1>1. CASE TimerStep("worker") \/ CallbackStep("worker")
  BY <1>1, TimerStepThreads, CallbackStepThreads
<1>2. CASE IncomingCurrent
  BY <1>2, EnterTyped DEF IncomingCurrent, At
<1>3. CASE IncomingTimeout
  BY <1>3, EnterTyped DEF IncomingTimeout, At
<1>4. CASE ReadEntry
  BY <1>4, EnterTyped DEF ReadEntry, TypeOK, Uses, Timer
<1>5. CASE Unflag
  BY <1>5, EnterTyped DEF Unflag
<1>6. CASE RingLook
  BY <1>6, EnterTyped DEF RingLook, At
<1>7. CASE RingReject
  BY <1>7, EnterTyped DEF RingReject, At, HangupIfLive, HangupCall, HangupLater,
      EnterState
<1>8. CASE DogLook
  BY <1>8, EnterTyped DEF DogLook, At
<1>9. CASE DogCount
  BY <1>9, EnterTyped DEF DogCount, At
<1>10. CASE ReportLook
  BY <1>10, EnterTyped DEF ReportLook, At
<1>11. CASE GiveUpCheck
  BY <1>11, EnterTyped DEF GiveUpCheck, At
<1>12. CASE GiveUpMark
  BY <1>12, EnterTyped DEF GiveUpMark, At
<1>13. CASE GiveUpRemove
  BY <1>13, EnterTyped DEF GiveUpRemove, At
<1> QED
  BY <1>1, <1>2, <1>3, <1>4, <1>5, <1>6, <1>7, <1>8, <1>9, <1>10, <1>11, <1>12,
      <1>13 DEF WorkerStep

\* Threads stay at places of their program, and with a call.
LEMMA NextThreads ==
    ASSUME ThreadsTyped, TypeOK, [Next]_vars
    PROVE  ThreadsTyped'
<1> USE DEF ThreadsTyped, Places, HasCall, EitherPlace, MainPlace, WorkerPlace, Thread
<1>1. CASE UNCHANGED vars
  BY <1>1 DEF vars, threadVars
<1>2. CASE MainStep \/ WorkerStep
  BY <1>2, MainStepThreads, WorkerStepThreads
<1>3. ASSUME NEW c \in CallId, Command(c) \/ PjsuaCallback(c)
      PROVE  ThreadsTyped'
  BY <1>3, EnterTyped DEF Command, PjsuaCallback, Dial, Hangup, Answer, Incoming,
      Progress, Confirm,
     Acknowledge, Reinvite, RemoteEnd, MediaEvent, HangupCall, HangupLater, EnterState,
         EnterMedia, Return, CallState
<1>4. ASSUME NEW c \in CallId, VideoTx(c)
      PROVE  ThreadsTyped'
  BY <1>4 DEF VideoTx, threadVars
<1>5. ASSUME NEW x \in Timer, Expire(x)
      PROVE  ThreadsTyped'
  BY <1>5, EnterTyped DEF Expire, Callback, Go, Timer, Idle, At
<1>6. CASE HangupAll \/ DialError \/ SetRingTimeout
  BY <1>6, EnterTyped DEF HangupAll, DialError, SetRingTimeout, threadVars, TypeOK
<1> QED
  BY <1>1, <1>2, <1>3, <1>4, <1>5, <1>6 DEF Next

\* The part of TypeOK that is not about the threads.
DataTyped ==
    /\ st \in [CallId -> CallState]
    /\ media \in [CallId -> {"none", "audio", "video"}]
    /\ tx \in [CallId -> 0 .. MaxTx]
    /\ g_call_id \in CallId \cup {NoCall}
    /\ g_video_failed_call_id \in CallId \cup {NoCall}
    /\ ringSet \in BOOLEAN
    /\ seen \in 0 .. MaxTx /\ stall \in Nat
    /\ armed \in [Timer -> BOOLEAN] /\ flag \in [Timer -> BOOLEAN]
    /\ orphan \subseteq Timer
    /\ data \in [Timer -> CallId]
    /\ lost \in [{"ring", "dog"} -> SUBSET CallId]
    /\ removed \subseteq CallId

\* The history of lost timers contains calls, whichever way it is updated.
LEMMA LostInTyped ==
    ASSUME lost \in [{"ring", "dog"} -> SUBSET CallId], NEW c, NEW s
    PROVE  LostIn(c, s) \in [{"ring", "dog"} -> SUBSET CallId]
  BY DEF LostIn

\* (The same for Lose.)
LEMMA LoseTyped ==
    ASSUME lost \in [{"ring", "dog"} -> SUBSET CallId], NEW x,
           NEW gone \in SUBSET CallId, NEW back,
           Lose(x, gone, back)
    PROVE  lost' \in [{"ring", "dog"} -> SUBSET CallId]
  BY DEF Lose

\* Every function works on one of the three timers.
LEMMA UsesTimer == \A f : Uses(f) \in Timer
  BY DEF Uses, Timer

\* The data stay typed when pjsua begins a callback or a hangup,
LEMMA EntersTyped ==
    ASSUME DataTyped, NEW t \in Thread, NEW c \in CallId, NEW s \in CallState,
           \/ EnterState(t, c, s) \/ EnterMedia(t, c, s)
           \/ HangupIfLive(t, c) \/ HangupCall(t, c)
    PROVE  DataTyped'
<1> USE DEF DataTyped, pjsuaVars, globals, dogVars, timerVars, history
<1>1. ASSUME NEW r \in CallState, EnterState(t, c, r)
      PROVE  DataTyped'
  BY <1>1, LostInTyped DEF EnterState
<1>2. CASE EnterMedia(t, c, s)
  BY <1>2, MaxTxAssumption DEF EnterMedia, Outcome
<1>3. CASE HangupIfLive(t, c) \/ HangupCall(t, c)
  <2>1. CASE EnterState(t, c, "over")
    BY <2>1, <1>1 DEF CallState
  <2>2. CASE st' = [st EXCEPT ![c] = "ending"] /\ lost' = LostIn(c, "ending")
               /\ UNCHANGED <<media, tx, globals, dogVars, timerVars, removed>>
    BY <2>2, LostInTyped DEF CallState
  <2> QED
    BY <1>3, <2>1, <2>2 DEF HangupIfLive, HangupCall, HangupLater
<1> QED
  BY <1>1, <1>2, <1>3

\* when a timer is cancelled or armed,
LEMMA TimerStepTyped ==
    ASSUME DataTyped, ThreadsTyped, NEW t \in Thread, TimerStep(t)
    PROVE  DataTyped'
<1> USE UsesTimer DEF DataTyped, pjsuaVars, globals, dogVars, timerVars, history
<1>1. CASE TestFlag(t)
  BY <1>1 DEF TestFlag
<1>2. CASE CancelEntry(t)
  BY <1>2, LoseTyped DEF CancelEntry, Robbed
<1>3. CASE ClearFlag(t)
  BY <1>3 DEF ClearFlag
<1>4. ASSUME pc[t] \in {"init", "schedule"}
      PROVE  call[t] \in CallId
  BY <1>4 DEF ThreadsTyped, HasCall, Places, EitherPlace, MainPlace, WorkerPlace, Thread
<1>5. CASE InitEntry(t)
  BY <1>4, <1>5, MaxTxAssumption, LoseTyped DEF InitEntry, Robbed
<1>6. CASE Schedule(t)
  <2>1. {call[t]} \in SUBSET CallId /\ {} \in SUBSET CallId
    BY <1>4, <1>6 DEF Schedule
  <2>2. lost' \in [{"ring", "dog"} -> SUBSET CallId]
    BY <1>6, <2>1, LoseTyped DEF Schedule
  <2>3. armed' \in [Timer -> BOOLEAN] /\ orphan' \subseteq Timer
    BY <1>6 DEF Schedule
  <2> QED
    BY <1>6, <2>2, <2>3 DEF Schedule
<1>7. CASE SetFlag(t)
  BY <1>7 DEF SetFlag
<1> QED
  BY <1>1, <1>2, <1>3, <1>5, <1>6, <1>7 DEF TimerStep

\* in the callbacks that run on either thread,
LEMMA CallbackStepTyped ==
    ASSUME DataTyped, ThreadsTyped, NEW t \in Thread, CallbackStep(t)
    PROVE  DataTyped'
<1> USE DEF DataTyped, pjsuaVars, globals, dogVars, timerVars, history
<1>1. CASE StateRing(t) \/ StateOver(t) \/ Forget(t) \/ StateMark(t) \/ WatchVideo(t)
  BY <1>1 DEF StateRing, StateOver, Forget, StateMark, WatchVideo
<1>2. CASE Unmark(t)
  <2>1. {g_video_failed_call_id} \ {NoCall, call[t]} \in SUBSET CallId
    OBVIOUS
  <2> QED
    BY <1>2, <2>1, LoseTyped DEF Unmark
<1>3. CASE FreeSlot(t)
  <2>1. /\ st' \in [CallId -> CallState]
        /\ media' \in [CallId -> {"none", "audio", "video"}]
        /\ removed' \subseteq CallId
    BY <1>3 DEF FreeSlot, CallState
  <2>3. 0 \in 0 .. MaxTx
    BY MaxTxAssumption
  <2>2. tx' \in [CallId -> 0 .. MaxTx]
    BY <1>3, <2>3 DEF FreeSlot
  <2> QED
    BY <1>3, <2>1, <2>2, LostInTyped DEF FreeSlot
<1>4. CASE MediaDone(t)
  BY <1>4, LostInTyped DEF MediaDone, ThreadsTyped
<1> QED
  BY <1>1, <1>2, <1>3, <1>4 DEF CallbackStep

\* and in every other step.
LEMMA NextData ==
    ASSUME DataTyped, ThreadsTyped, [Next]_vars
    PROVE  DataTyped'
<1> USE DEF DataTyped, pjsuaVars, globals, dogVars, timerVars, history
<1>1. CASE UNCHANGED vars
  BY <1>1 DEF vars
<1>2. ASSUME NEW t \in Thread, TimerStep(t) \/ CallbackStep(t)
      PROVE  DataTyped'
  BY <1>2, TimerStepTyped, CallbackStepTyped
<1>3. CASE MainStep
  <2>1. CASE DialStore \/ DialReturn
    BY <2>1 DEF DialStore, DialReturn, ThreadsTyped, Thread
  <2>2. CASE HangupCurrent
    <3>1. PICK c \in {call["main"], g_call_id} \ {NoCall} : HangupIfLive("main", c)
      BY <2>2 DEF HangupCurrent
    <3>2. c \in CallId
      BY <3>1 DEF ThreadsTyped, Thread
    <3> QED
      BY <3>1, <3>2, EntersTyped DEF Thread, CallState
  <2> QED
    BY <1>2, <1>3, <2>1, <2>2 DEF MainStep, Thread
<1>4. CASE WorkerStep
  <2> USE DEF At
  <2>1. /\ fn["worker"] # "pjsua" /\ pc["worker"] # "read" => call["worker"] \in CallId
        /\ call["worker"] \in CallId \cup {NoCall}
        /\ fn["worker"] = "pjsua" => pc["worker"] = "idle"
    BY DEF ThreadsTyped, HasCall, Places, EitherPlace, WorkerPlace, Thread
  <2>2. CASE IncomingCurrent
    BY <2>1, <2>2 DEF IncomingCurrent
  <2>3. CASE IncomingTimeout
    <3>1. {call["worker"]} \in SUBSET CallId
      BY <2>1, <2>3 DEF IncomingTimeout
    <3> QED
      BY <2>3, <3>1, LoseTyped DEF IncomingTimeout
  <2>4. CASE ReadEntry \/ Unflag \/ RingLook \/ ReportLook \/ GiveUpCheck
    BY <2>4, UsesTimer DEF ReadEntry, Unflag, RingLook, ReportLook, GiveUpCheck
  <2>5. CASE RingReject
    BY <2>1, <2>5, EntersTyped DEF RingReject, Thread, CallState
  <2>6. CASE DogLook
    <3>1. {call["worker"]} \in SUBSET CallId
      BY <2>1, <2>6 DEF DogLook
    <3> QED
      BY <2>6, <3>1, LoseTyped DEF DogLook
  <2>7. CASE DogCount
    <3>1. tx[call["worker"]] \in 0 .. MaxTx
      BY <2>1, <2>7 DEF DogCount
    <3> QED
      BY <2>7, <3>1 DEF DogCount
  <2>8. CASE GiveUpMark
    <3>1. {g_video_failed_call_id} \ {NoCall} \in SUBSET CallId
      OBVIOUS
    <3> QED
      BY <2>1, <2>8, <3>1, LoseTyped DEF GiveUpMark
  <2>9. CASE GiveUpRemove
    BY <2>1, <2>9 DEF GiveUpRemove
  <2> QED
    BY <1>2, <1>4, <2>2, <2>3, <2>4, <2>5, <2>6, <2>7, <2>8, <2>9 DEF WorkerStep, Thread
<1>5. ASSUME NEW c \in CallId, Command(c)
      PROVE  DataTyped'
  BY <1>5, EntersTyped DEF Command, Dial, Hangup, Answer, CallState, Thread
<1>6. ASSUME NEW c \in CallId, PjsuaCallback(c)
      PROVE  DataTyped'
  <2>1. CASE Incoming(c) \/ MediaEvent(c)
    BY <2>1 DEF Incoming, MediaEvent, CallState
  <2> QED
    BY <1>6, <2>1, EntersTyped DEF PjsuaCallback, Progress, Confirm, Acknowledge,
        Reinvite,
         RemoteEnd, CallState, Thread
<1>7. ASSUME NEW c \in CallId, VideoTx(c)
      PROVE  DataTyped'
  BY <1>7, MaxTxAssumption DEF VideoTx
<1>8. ASSUME NEW x \in Timer, Expire(x)
      PROVE  DataTyped'
  BY <1>8 DEF Expire
<1>9. CASE HangupAll \/ DialError \/ SetRingTimeout
  BY <1>9, FlagAssumption DEF HangupAll, DialError, SetRingTimeout
<1> QED
  BY <1>1, <1>3, <1>4, <1>5, <1>6, <1>7, <1>8, <1>9 DEF Next

\* Every variable in its range, every thread at a place of its program.
Typed == DataTyped /\ ThreadsTyped

-----------------------------------------------------------------------------
(* How a thread begins with a call. *)

\* What thread t is doing when it begins with call d.
Begins(t, d) ==
    \/ Idle(t)
    \/ t = "main" /\ At(t, "hangup_all", "call")
    \/ t = "worker" /\ At(t, "ring_cb", "reject") /\ call[t] = d

\* pjsua calls on_call_state() for a transition of d to s.
StateBegins(t, d, s) ==
    /\ EnterState(t, d, s) /\ Begins(t, d)
    /\ st[d] # "over" /\ s # "free"
    /\ At(t, "ring_cb", "reject") => s = "over"
    /\ s \in {"incoming", "ringing"} => t = "main" /\ st[d] \in {"incoming", "ringing"}

\* pjsua calls on_call_media_state() for d, on its way to s.
MediaBegins(t, d, s) ==
    /\ EnterMedia(t, d, s) /\ Idle(t)
    /\ st[d] \notin {"free", "over"}
    /\ s \in {"ringing", "connecting", "early", "confirmed"}
    /\ s = "ringing" => t = "main"
    /\ t = "main" => st[d] \in {"incoming", "ringing"} /\ media[d] = "none"

\* d is hung up, its peer has yet to answer that; or it is gone already.
HangupBegins(t, d) ==
    HangupLater(t, d) /\ Begins(t, d) /\ ~Ended(d)

HangupRefused(t, d) ==
    /\ Return(t) /\ Begins(t, d) /\ Ended(d)
    /\ UNCHANGED <<pjsuaVars, globals, dogVars, timerVars, history>>

\* Every step is of one of these kinds.
LEMMA StepKinds ==
    ASSUME Typed, [Next]_vars
    PROVE  \/ UNCHANGED vars
           \/ \E t \in Thread : TimerStep(t) \/ CallbackStep(t)
           \/ \E t \in Thread, d \in CallId :
                 \/ \E s \in CallState : StateBegins(t, d, s) \/ MediaBegins(t, d, s)
                 \/ HangupBegins(t, d) \/ HangupRefused(t, d)
           \/ DialStore \/ DialReturn \/ HangupAll \/ DialError \/ SetRingTimeout
           \/ \E d \in CallId : Incoming(d) \/ MediaEvent(d) \/ VideoTx(d)
           \/ \E x \in Timer : Expire(x)
           \/ IncomingCurrent \/ IncomingTimeout \/ ReadEntry \/ Unflag
           \/ RingLook \/ ReportLook \/ DogLook \/ DogCount
           \/ GiveUpCheck \/ GiveUpMark \/ GiveUpRemove
<1> USE DEF Typed, DataTyped, ThreadsTyped, Thread, CallState
<1>1. ASSUME NEW t \in Thread, NEW d \in CallId, Begins(t, d), HangupIfLive(t, d)
      PROVE  StateBegins(t, d, "over") \/ HangupBegins(t, d) \/ HangupRefused(t, d)
  BY <1>1 DEF HangupIfLive, HangupCall, StateBegins, HangupBegins, HangupRefused, Ended
<1>2. ASSUME HangupCurrent
      PROVE  \E d \in CallId : StateBegins("main", d, "over") \/ HangupBegins("main", d)
                                 \/ HangupRefused("main", d)
  <2>1. PICK d \in {call["main"], g_call_id} \ {NoCall} : HangupIfLive("main", d)
    BY <1>2 DEF HangupCurrent
  <2>2. d \in CallId /\ Begins("main", d)
    BY <1>2 DEF HangupCurrent, Begins
  <2> QED
    BY <1>1, <2>1, <2>2
<1>3. ASSUME RingReject
      PROVE  LET d == call["worker"]
             IN  /\ d \in CallId
                 /\ \/ StateBegins("worker", d, "over") \/ HangupBegins("worker", d)
                    \/ HangupRefused("worker", d)
  BY <1>1, <1>3 DEF RingReject, Begins, At, HasCall
<1>4. ASSUME NEW d \in CallId, Command(d)
      PROVE  \/ \E s \in CallState :
                  StateBegins("main", d, s) \/ MediaBegins("main", d, s)
             \/ HangupBegins("main", d) \/ HangupRefused("main", d)
  <2>1. Begins("main", d) /\ ~At("main", "ring_cb", "reject") /\ Idle("main")
    BY <1>4 DEF Command, Dial, Hangup, Answer, Begins, Idle, At
  <2>2. CASE Dial(d)
    BY <2>1, <2>2 DEF Dial, StateBegins
  <2>3. CASE Hangup(d)
    BY <1>1, <2>1, <2>3 DEF Hangup, HangupIfLive
  <2>4. CASE Answer(d)
    BY <2>1, <2>4 DEF Answer, StateBegins, MediaBegins
  <2> QED
    BY <1>4, <2>2, <2>3, <2>4 DEF Command
<1>5. ASSUME NEW d \in CallId, PjsuaCallback(d), ~Incoming(d), ~MediaEvent(d)
      PROVE  \E s \in CallState :
                StateBegins("worker", d, s) \/ MediaBegins("worker", d, s)
  <2>1. Begins("worker", d) /\ ~At("worker", "ring_cb", "reject") /\ Idle("worker")
    BY <1>5 DEF PjsuaCallback, Progress, Confirm, Acknowledge, Reinvite, RemoteEnd,
        Begins,
         Idle, At
  <2> QED
    BY <1>5, <2>1 DEF PjsuaCallback, Progress, Confirm, Acknowledge, Reinvite, RemoteEnd,
         StateBegins, MediaBegins
<1> QED
  BY <1>2, <1>3, <1>4, <1>5 DEF Next, MainStep, WorkerStep

-----------------------------------------------------------------------------
\* Two threads that hold a lock hold it for different calls.
Exclusive ==
    fn["main"] \in Locked /\ fn["worker"] \in Locked => call["main"] # call["worker"]

\* The call whose lock is held exists.
LockedLive == \A t \in Thread : fn[t] \in Locked => st[call[t]] # "free"

\* A thread is past the test for DISCONNECTED.
Ending(t) ==
    \/ fn[t] \in {"endwatch", "endreport"}
    \/ fn[t] = "state" /\ pc[t] \in {"forget", "mark", "unmark"}
EndingIsOver == \A t \in Thread : Ending(t) => st[call[t]] = "over"
\* A call that is over is so inside its callback.
OverIsHeld ==
    \A c \in CallId : st[c] = "over" =>
        \E t \in Thread : call[t] = c /\ fn[t] \in {"state", "endwatch", "endreport"}

\* on_call_state() cancels the ring timer of a call that does not ring.
CancelsAnswered ==
    \A t \in Thread : fn[t] = "state" /\ pc[t] \in {"test", "cancel", "clear"}
        => st[call[t]] \notin Ringing

\* Media are negotiated before the call goes on to its next state; the main
\* thread only answers.
MediaStates ==
    \A t \in Thread : fn[t] \in {"watch", "report"} =>
        /\ st[call[t]] # "over"
        /\ goal[t] \in {"ringing", "connecting", "early", "confirmed"}
        /\ goal[t] = "ringing" \/ t = "main" => st[call[t]] \in {"incoming", "ringing"}

\* A slot taken back has no stream.
FreeHasNoMedia == \A c \in CallId : st[c] = "free" => media[c] = "none"

\* What the locks of the calls give.
Locks ==
    /\ Exclusive /\ LockedLive /\ EndingIsOver /\ OverIsHeld /\ CancelsAnswered
    /\ MediaStates /\ FreeHasNoMedia

\* pjsua begins with a call only if the other thread does not hold its lock, and
\* a thread works on the call it has locked.
LEMMA NextLocks ==
    ASSUME Typed, Locks, [Next]_vars
    PROVE  Locks'
<1> USE DEF Typed, DataTyped, ThreadsTyped, Places, EitherPlace, MainPlace,
    WorkerPlace, HasCall,
    At, Go, Return, Enter, Thread, Timer, pjsuaVars, globals, dogVars, timerVars, history,
    Locks, Exclusive, LockedLive, EndingIsOver, Ending, CancelsAnswered, MediaStates,
    FreeHasNoMedia, Locked, OverIsHeld
<1>1. CASE UNCHANGED vars
  BY <1>1 DEF vars, threadVars
<1>2. ASSUME NEW t \in Thread, TimerStep(t)
      PROVE  Locks'
  <2>1. CASE TestFlag(t)
    BY <2>1 DEF TestFlag, AfterCancel
  <2>2. CASE CancelEntry(t)
    BY <2>2 DEF CancelEntry
  <2>3. CASE ClearFlag(t)
    BY <2>3 DEF ClearFlag, AfterCancel
  <2>4. CASE InitEntry(t)
    BY <2>4 DEF InitEntry
  <2>5. CASE Schedule(t)
    BY <2>5 DEF Schedule, AfterArm
  <2>6. CASE SetFlag(t)
    BY <2>6 DEF SetFlag, AfterArm
  <2> QED
    BY <1>2, <2>1, <2>2, <2>3, <2>4, <2>5, <2>6 DEF TimerStep
<1>3. ASSUME NEW t \in Thread, CallbackStep(t)
      PROVE  Locks'
  <2>1. CASE StateRing(t)
    BY <2>1 DEF StateRing
  <2>2. CASE StateOver(t)
    BY <2>2 DEF StateOver
  <2>3. CASE Forget(t)
    BY <2>3 DEF Forget
  <2>4. CASE StateMark(t)
    BY <2>4 DEF StateMark
  <2>5. CASE Unmark(t)
    BY <2>5 DEF Unmark
  <2>6. CASE FreeSlot(t)
    BY <2>6 DEF FreeSlot
  <2>7. CASE WatchVideo(t)
    BY <2>7 DEF WatchVideo
  <2>8. CASE MediaDone(t)
    BY <2>8 DEF MediaDone
  <2> QED
    BY <1>3, <2>1, <2>2, <2>3, <2>4, <2>5, <2>6, <2>7, <2>8 DEF CallbackStep
<1>4. ASSUME NEW t \in Thread, NEW d \in CallId, NEW s \in CallState, StateBegins(t, d, s)
      PROVE  Locks'
  BY <1>4 DEF StateBegins, Begins, EnterState, LockFree, Idle
<1>5. ASSUME NEW t \in Thread, NEW d \in CallId, NEW s \in CallState, MediaBegins(t, d, s)
      PROVE  Locks'
  BY <1>5 DEF MediaBegins, EnterMedia, LockFree, Idle
<1>6. ASSUME NEW t \in Thread, NEW d \in CallId, HangupBegins(t, d) \/ HangupRefused(t, d)
      PROVE  Locks'
  BY <1>6 DEF HangupBegins, HangupRefused, HangupLater, Begins, Ended, LockFree, Idle
<1>7. CASE DialStore \/ DialReturn
  BY <1>7 DEF DialStore, DialReturn
<1>8. CASE HangupAll \/ DialError \/ SetRingTimeout
  BY <1>8 DEF HangupAll, DialError, SetRingTimeout, threadVars, Idle
<1>9. CASE IncomingCurrent \/ IncomingTimeout
  BY <1>9 DEF IncomingCurrent, IncomingTimeout
<1>10. CASE ReadEntry \/ Unflag
  BY <1>10 DEF ReadEntry, Unflag
<1>11. CASE RingLook \/ ReportLook
  BY <1>11 DEF RingLook, ReportLook
<1>12. CASE DogLook
  BY <1>12 DEF DogLook
<1>13. CASE DogCount
  BY <1>13 DEF DogCount
<1>14. CASE GiveUpCheck
  BY <1>14 DEF GiveUpCheck
<1>15. CASE GiveUpMark
  BY <1>15 DEF GiveUpMark
<1>16. CASE GiveUpRemove
  BY <1>16 DEF GiveUpRemove, LockFree
<1>17. ASSUME NEW d \in CallId, Incoming(d) \/ MediaEvent(d) \/ VideoTx(d)
       PROVE  Locks'
  BY <1>17 DEF Incoming, MediaEvent, VideoTx, threadVars, Idle
<1>18. ASSUME NEW x \in Timer, Expire(x)
       PROVE  Locks'
  BY <1>18 DEF Expire, Callback, Idle
<1> QED
  BY StepKinds, <1>1, <1>2, <1>3, <1>4, <1>5, <1>6, <1>7, <1>8, <1>9, <1>10, <1>11,
      <1>12, <1>13, <1>14, <1>15, <1>16, <1>17, <1>18

-----------------------------------------------------------------------------
\* A thread that ends a call has found that it is not the current one, or made
\* it so.
EndingIsNotCurrent ==
    \A t \in Thread : Ending(t) /\ pc[t] # "forget" => g_call_id # call[t]

\* g_call_id is set to a call by that call's own function, which holds its lock,
\* and cleared before that call's slot is taken back.
LEMMA NextCurrent ==
    ASSUME Typed, Locks, CurrentCallIsLive, EndingIsNotCurrent, [Next]_vars
    PROVE  CurrentCallIsLive' /\ EndingIsNotCurrent'
<1> USE DEF Typed, DataTyped, ThreadsTyped, Places, EitherPlace, MainPlace,
    WorkerPlace, HasCall,
    At, Go, Return, Enter, Thread, Timer, pjsuaVars, globals, dogVars, timerVars, history,
    Locks, Exclusive, LockedLive, EndingIsOver, Ending, CancelsAnswered, MediaStates,
    FreeHasNoMedia, Locked, CurrentCallIsLive, EndingIsNotCurrent
<1>1. CASE UNCHANGED vars
  BY <1>1 DEF vars, threadVars
<1>2. ASSUME NEW t \in Thread, TimerStep(t)
      PROVE  CurrentCallIsLive' /\ EndingIsNotCurrent'
  <2>1. CASE TestFlag(t)
    BY <2>1 DEF TestFlag, AfterCancel
  <2>2. CASE CancelEntry(t)
    BY <2>2 DEF CancelEntry
  <2>3. CASE ClearFlag(t)
    BY <2>3 DEF ClearFlag, AfterCancel
  <2>4. CASE InitEntry(t)
    BY <2>4 DEF InitEntry
  <2>5. CASE Schedule(t)
    BY <2>5 DEF Schedule, AfterArm
  <2>6. CASE SetFlag(t)
    BY <2>6 DEF SetFlag, AfterArm
  <2> QED
    BY <1>2, <2>1, <2>2, <2>3, <2>4, <2>5, <2>6 DEF TimerStep
<1>3. ASSUME NEW t \in Thread, CallbackStep(t)
      PROVE  CurrentCallIsLive' /\ EndingIsNotCurrent'
  <2>1. CASE StateRing(t)
    BY <2>1 DEF StateRing
  <2>2. CASE StateOver(t)
    BY <2>2 DEF StateOver
  <2>3. CASE Forget(t)
    BY <2>3, CallAssumption DEF Forget
  <2>4. CASE StateMark(t)
    BY <2>4 DEF StateMark
  <2>5. CASE Unmark(t)
    BY <2>5 DEF Unmark
  <2>6. CASE FreeSlot(t)
    BY <2>6 DEF FreeSlot
  <2>7. CASE WatchVideo(t)
    BY <2>7 DEF WatchVideo
  <2>8. CASE MediaDone(t)
    BY <2>8 DEF MediaDone
  <2> QED
    BY <1>3, <2>1, <2>2, <2>3, <2>4, <2>5, <2>6, <2>7, <2>8 DEF CallbackStep
<1>4. ASSUME NEW t \in Thread, NEW d \in CallId, NEW s \in CallState, StateBegins(t, d, s)
      PROVE  CurrentCallIsLive' /\ EndingIsNotCurrent'
  BY <1>4 DEF StateBegins, Begins, EnterState, LockFree, Idle
<1>5. ASSUME NEW t \in Thread, NEW d \in CallId, NEW s \in CallState, MediaBegins(t, d, s)
      PROVE  CurrentCallIsLive' /\ EndingIsNotCurrent'
  BY <1>5 DEF MediaBegins, EnterMedia, LockFree, Idle
<1>6. ASSUME NEW t \in Thread, NEW d \in CallId, HangupBegins(t, d) \/ HangupRefused(t, d)
      PROVE  CurrentCallIsLive' /\ EndingIsNotCurrent'
  BY <1>6 DEF HangupBegins, HangupRefused, HangupLater, Begins, Ended, LockFree, Idle
<1>7. CASE DialStore \/ DialReturn
  BY <1>7 DEF DialStore, DialReturn
<1>8. CASE HangupAll \/ DialError \/ SetRingTimeout
  BY <1>8, CallAssumption DEF HangupAll, DialError, SetRingTimeout, threadVars, Idle
<1>9. CASE IncomingCurrent \/ IncomingTimeout
  BY <1>9 DEF IncomingCurrent, IncomingTimeout
<1>10. CASE ReadEntry \/ Unflag
  BY <1>10 DEF ReadEntry, Unflag
<1>11. CASE RingLook \/ ReportLook
  BY <1>11 DEF RingLook, ReportLook
<1>12. CASE DogLook
  BY <1>12 DEF DogLook
<1>13. CASE DogCount
  BY <1>13 DEF DogCount
<1>14. CASE GiveUpCheck
  BY <1>14 DEF GiveUpCheck
<1>15. CASE GiveUpMark
  BY <1>15 DEF GiveUpMark
<1>16. CASE GiveUpRemove
  BY <1>16 DEF GiveUpRemove, LockFree
<1>17. ASSUME NEW d \in CallId, Incoming(d) \/ MediaEvent(d) \/ VideoTx(d)
       PROVE  CurrentCallIsLive' /\ EndingIsNotCurrent'
  BY <1>17 DEF Incoming, MediaEvent, VideoTx, threadVars, Idle
<1>18. ASSUME NEW x \in Timer, Expire(x)
       PROVE  CurrentCallIsLive' /\ EndingIsNotCurrent'
  BY <1>18 DEF Expire, Callback, Idle
<1> QED
  BY StepKinds, <1>1, <1>2, <1>3, <1>4, <1>5, <1>6, <1>7, <1>8, <1>9, <1>10, <1>11,
      <1>12, <1>13, <1>14, <1>15, <1>16, <1>17, <1>18

\* A ringing call that has not lost the ring timer is under it; once the entry
\* is scheduled, on_incoming_call() is no longer needed for that.
HasRingTimer(c) ==
    st[c] \in {"incoming", "ringing"} /\ c \notin lost["ring"] =>
        \/ Armed("ring", c)
        \/ At("worker", "ring_cb", "read") /\ data["ring"] = c
        \/ call["worker"] = c /\ fn["worker"] = "ring_cb" /\ pc["worker"] # "read"
        \/ call["worker"] = c /\ fn["worker"] = "incoming" /\ pc["worker"] # "set"

\* Only on_call_state() of a call that does not ring cancels the entry, and if it
\* is another call's by then, that call has lost it.
LEMMA NextRingTimer ==
    ASSUME Typed, Locks, NEW c \in CallId, HasRingTimer(c), [Next]_vars
    PROVE  HasRingTimer(c)'
<1> USE DEF Typed, DataTyped, ThreadsTyped, Places, EitherPlace, MainPlace,
    WorkerPlace, HasCall,
    At, Go, Return, Enter, Thread, Timer, pjsuaVars, globals, dogVars, timerVars, history,
    Locks, Exclusive, LockedLive, EndingIsOver, Ending, CancelsAnswered, MediaStates,
    FreeHasNoMedia, Locked, HasRingTimer,
    Armed, Lose, LostIn, Robbed, Uses, Ringing
<1>1. CASE UNCHANGED vars
  BY <1>1 DEF vars, threadVars
<1>2. ASSUME NEW t \in Thread, TimerStep(t)
      PROVE  HasRingTimer(c)'
  <2>1. CASE TestFlag(t)
    BY <2>1 DEF TestFlag, AfterCancel
  <2>2. CASE CancelEntry(t)
    BY <2>2 DEF CancelEntry
  <2>3. CASE ClearFlag(t)
    BY <2>3 DEF ClearFlag, AfterCancel
  <2>4. CASE InitEntry(t)
    BY <2>4 DEF InitEntry
  <2>5. CASE Schedule(t)
    BY <2>5 DEF Schedule, AfterArm
  <2>6. CASE SetFlag(t)
    BY <2>6 DEF SetFlag, AfterArm
  <2> QED
    BY <1>2, <2>1, <2>2, <2>3, <2>4, <2>5, <2>6 DEF TimerStep
<1>3. ASSUME NEW t \in Thread, CallbackStep(t)
      PROVE  HasRingTimer(c)'
  <2>1. CASE StateRing(t)
    BY <2>1 DEF StateRing
  <2>2. CASE StateOver(t)
    BY <2>2 DEF StateOver
  <2>3. CASE Forget(t)
    BY <2>3 DEF Forget
  <2>4. CASE StateMark(t)
    BY <2>4 DEF StateMark
  <2>5. CASE Unmark(t)
    BY <2>5 DEF Unmark
  <2>6. CASE FreeSlot(t)
    BY <2>6 DEF FreeSlot
  <2>7. CASE WatchVideo(t)
    BY <2>7 DEF WatchVideo
  <2>8. CASE MediaDone(t)
    BY <2>8 DEF MediaDone
  <2> QED
    BY <1>3, <2>1, <2>2, <2>3, <2>4, <2>5, <2>6, <2>7, <2>8 DEF CallbackStep
<1>4. ASSUME NEW t \in Thread, NEW d \in CallId, NEW s \in CallState, StateBegins(t, d, s)
      PROVE  HasRingTimer(c)'
  <2>1. CASE d = c
    BY <1>4, <2>1 DEF StateBegins, EnterState
  <2>2. CASE d # c
    BY <1>4, <2>2 DEF StateBegins, Begins, EnterState, Idle
  <2> QED
    BY <2>1, <2>2
<1>5. ASSUME NEW t \in Thread, NEW d \in CallId, NEW s \in CallState, MediaBegins(t, d, s)
      PROVE  HasRingTimer(c)'
  BY <1>5 DEF MediaBegins, EnterMedia, LockFree, Idle
<1>6. ASSUME NEW t \in Thread, NEW d \in CallId, HangupBegins(t, d) \/ HangupRefused(t, d)
      PROVE  HasRingTimer(c)'
  BY <1>6 DEF HangupBegins, HangupRefused, HangupLater, Begins, Ended, LockFree, Idle
<1>7. CASE DialStore \/ DialReturn
  BY <1>7 DEF DialStore, DialReturn
<1>8. CASE HangupAll \/ DialError \/ SetRingTimeout
  BY <1>8 DEF HangupAll, DialError, SetRingTimeout, threadVars, Idle
<1>9. CASE IncomingCurrent \/ IncomingTimeout
  BY <1>9 DEF IncomingCurrent, IncomingTimeout
<1>10. CASE ReadEntry \/ Unflag
  BY <1>10 DEF ReadEntry, Unflag
<1>11. CASE RingLook \/ ReportLook
  BY <1>11 DEF RingLook, ReportLook
<1>12. CASE DogLook
  BY <1>12 DEF DogLook
<1>13. CASE DogCount
  BY <1>13 DEF DogCount
<1>14. CASE GiveUpCheck
  BY <1>14 DEF GiveUpCheck
<1>15. CASE GiveUpMark
  BY <1>15 DEF GiveUpMark
<1>16. CASE GiveUpRemove
  BY <1>16 DEF GiveUpRemove, LockFree
<1>17. ASSUME NEW d \in CallId, Incoming(d) \/ MediaEvent(d) \/ VideoTx(d)
       PROVE  HasRingTimer(c)'
  BY <1>17 DEF Incoming, MediaEvent, VideoTx, threadVars, Idle
<1>18. ASSUME NEW x \in Timer, Expire(x)
       PROVE  HasRingTimer(c)'
  BY <1>18 DEF Expire, Callback, Idle
<1> QED
  BY StepKinds, <1>1, <1>2, <1>3, <1>4, <1>5, <1>6, <1>7, <1>8, <1>9, <1>10, <1>11,
      <1>12, <1>13, <1>14, <1>15, <1>16, <1>17, <1>18

\* A call that sends video not given up on is under the watchdog; once the entry
\* is scheduled, arm_video_watchdog() is no longer needed for that.
HasWatchdog(c) ==
    /\ media[c] = "video" /\ st[c] # "over"
    /\ g_video_failed_call_id # c /\ c \notin lost["dog"]
    =>
        \/ Armed("dog", c)
        \/ At("worker", "dog_cb", "read") /\ data["dog"] = c
        \/ /\ call["worker"] = c /\ fn["worker"] = "dog_cb"
           /\ pc["worker"] \notin {"read", "set"}
        \/ call["worker"] = c /\ fn["worker"] = "giveup"
        \/ \E t \in Thread : call[t] = c /\ fn[t] = "watch" /\ pc[t] # "set"

\* give_up_on_video() has marked its call, unless the mark has passed on, which
\* it has not while the main thread arms the watchdog of that call.
GivesUpMarked ==
    LET c == call["worker"]
    IN  fn["worker"] = "giveup" /\ pc["worker"] \notin {"check", "mark"} =>
            \/ g_video_failed_call_id = c
            \/ /\ c \in lost["dog"] \/ media[c] # "video" \/ st[c] = "over"
               /\ ~(fn["main"] = "watch" /\ call["main"] = c)

\* It is about a call whose media were negotiated, or which no longer rings.
GivesUpLate ==
    LET c == call["worker"]
    IN  fn["worker"] = "giveup" \/ At("worker", "dog_cb", "count") =>
            media[c] # "none" \/ st[c] \notin {"incoming", "ringing"}

\* The worker alone marks a call, and only the end of a call takes a mark away.
LEMMA NextGivesUp ==
    ASSUME Typed, Locks, GivesUpMarked, GivesUpLate, [Next]_vars
    PROVE  GivesUpMarked' /\ GivesUpLate'
<1> USE DEF Typed, DataTyped, ThreadsTyped, Places, EitherPlace, MainPlace,
    WorkerPlace, HasCall,
    At, Go, Return, Enter, Thread, Timer, pjsuaVars, globals, dogVars, timerVars, history,
    Locks, Exclusive, LockedLive, EndingIsOver, Ending, CancelsAnswered, MediaStates,
    FreeHasNoMedia, Locked, GivesUpMarked, GivesUpLate,
    Lose, LostIn, Robbed, Uses
<1>1. CASE UNCHANGED vars
  BY <1>1 DEF vars, threadVars
<1>2. ASSUME NEW t \in Thread, TimerStep(t)
      PROVE  GivesUpMarked' /\ GivesUpLate'
  <2>1. CASE TestFlag(t)
    BY <2>1 DEF TestFlag, AfterCancel
  <2>2. CASE CancelEntry(t)
    BY <2>2 DEF CancelEntry
  <2>3. CASE ClearFlag(t)
    BY <2>3 DEF ClearFlag, AfterCancel
  <2>4. CASE InitEntry(t)
    BY <2>4 DEF InitEntry
  <2>5. CASE Schedule(t)
    BY <2>5 DEF Schedule, AfterArm
  <2>6. CASE SetFlag(t)
    BY <2>6 DEF SetFlag, AfterArm
  <2> QED
    BY <1>2, <2>1, <2>2, <2>3, <2>4, <2>5, <2>6 DEF TimerStep
<1>3. ASSUME NEW t \in Thread, CallbackStep(t)
      PROVE  GivesUpMarked' /\ GivesUpLate'
  <2>1. CASE StateRing(t)
    BY <2>1 DEF StateRing
  <2>2. CASE StateOver(t)
    BY <2>2 DEF StateOver
  <2>3. CASE Forget(t)
    BY <2>3 DEF Forget
  <2>4. CASE StateMark(t)
    BY <2>4 DEF StateMark
  <2>5. CASE Unmark(t)
    BY <2>5 DEF Unmark
  <2>6. CASE FreeSlot(t)
    BY <2>6 DEF FreeSlot
  <2>7. CASE WatchVideo(t)
    BY <2>7 DEF WatchVideo
  <2>8. CASE MediaDone(t)
    BY <2>8 DEF MediaDone
  <2> QED
    BY <1>3, <2>1, <2>2, <2>3, <2>4, <2>5, <2>6, <2>7, <2>8 DEF CallbackStep
<1>4. ASSUME NEW t \in Thread, NEW d \in CallId, NEW s \in CallState, StateBegins(t, d, s)
      PROVE  GivesUpMarked' /\ GivesUpLate'
  BY <1>4 DEF StateBegins, Begins, EnterState, LockFree, Idle
<1>5. ASSUME NEW t \in Thread, NEW d \in CallId, NEW s \in CallState, MediaBegins(t, d, s)
      PROVE  GivesUpMarked' /\ GivesUpLate'
  BY <1>5 DEF MediaBegins, EnterMedia, LockFree, Idle
<1>6. ASSUME NEW t \in Thread, NEW d \in CallId, HangupBegins(t, d) \/ HangupRefused(t, d)
      PROVE  GivesUpMarked' /\ GivesUpLate'
  BY <1>6 DEF HangupBegins, HangupRefused, HangupLater, Begins, Ended, LockFree, Idle
<1>7. CASE DialStore \/ DialReturn
  BY <1>7 DEF DialStore, DialReturn
<1>8. CASE HangupAll \/ DialError \/ SetRingTimeout
  BY <1>8 DEF HangupAll, DialError, SetRingTimeout, threadVars, Idle
<1>9. CASE IncomingCurrent \/ IncomingTimeout
  BY <1>9 DEF IncomingCurrent, IncomingTimeout
<1>10. CASE ReadEntry \/ Unflag
  BY <1>10 DEF ReadEntry, Unflag
<1>11. CASE RingLook \/ ReportLook
  BY <1>11 DEF RingLook, ReportLook
<1>12. CASE DogLook
  BY <1>12 DEF DogLook
<1>13. CASE DogCount
  BY <1>13 DEF DogCount
<1>14. CASE GiveUpCheck
  BY <1>14 DEF GiveUpCheck
<1>15. CASE GiveUpMark
  BY <1>15 DEF GiveUpMark
<1>16. CASE GiveUpRemove
  BY <1>16 DEF GiveUpRemove, LockFree
<1>17. ASSUME NEW d \in CallId, Incoming(d) \/ MediaEvent(d) \/ VideoTx(d)
       PROVE  GivesUpMarked' /\ GivesUpLate'
  BY <1>17 DEF Incoming, MediaEvent, VideoTx, threadVars, Idle
<1>18. ASSUME NEW x \in Timer, Expire(x)
       PROVE  GivesUpMarked' /\ GivesUpLate'
  BY <1>18 DEF Expire, Callback, Idle
<1> QED
  BY StepKinds, <1>1, <1>2, <1>3, <1>4, <1>5, <1>6, <1>7, <1>8, <1>9, <1>10, <1>11,
      <1>12, <1>13, <1>14, <1>15, <1>16, <1>17, <1>18

\* on_call_media_state() arms the watchdog whenever it finds video, and the
\* watchdog arms itself unless it gives up.
LEMMA NextWatchdog ==
    ASSUME Typed, Locks, GivesUpMarked, GivesUpLate, NEW c \in CallId, HasWatchdog(c),
           [Next]_vars
    PROVE  HasWatchdog(c)'
<1> USE DEF Typed, DataTyped, ThreadsTyped, Places, EitherPlace, MainPlace,
    WorkerPlace, HasCall,
    At, Go, Return, Enter, Thread, Timer, pjsuaVars, globals, dogVars, timerVars, history,
    Locks, Exclusive, LockedLive, EndingIsOver, Ending, CancelsAnswered, MediaStates,
    FreeHasNoMedia, Locked, GivesUpMarked, GivesUpLate, HasWatchdog,
    Armed, Lose, LostIn, Robbed, Uses
<1>1. CASE UNCHANGED vars
  BY <1>1 DEF vars, threadVars
<1>2. ASSUME NEW t \in Thread, TimerStep(t)
      PROVE  HasWatchdog(c)'
  <2>1. CASE TestFlag(t)
    BY <2>1 DEF TestFlag, AfterCancel
  <2>2. CASE CancelEntry(t)
    BY <2>2 DEF CancelEntry
  <2>3. CASE ClearFlag(t)
    BY <2>3 DEF ClearFlag, AfterCancel
  <2>4. CASE InitEntry(t)
    BY <2>4 DEF InitEntry
  <2>5. CASE Schedule(t)
    BY <2>5 DEF Schedule, AfterArm
  <2>6. CASE SetFlag(t)
    BY <2>6 DEF SetFlag, AfterArm
  <2> QED
    BY <1>2, <2>1, <2>2, <2>3, <2>4, <2>5, <2>6 DEF TimerStep
<1>3. ASSUME NEW t \in Thread, CallbackStep(t)
      PROVE  HasWatchdog(c)'
  <2>1. CASE StateRing(t)
    BY <2>1 DEF StateRing
  <2>2. CASE StateOver(t)
    BY <2>2 DEF StateOver
  <2>3. CASE Forget(t)
    BY <2>3 DEF Forget
  <2>4. CASE StateMark(t)
    BY <2>4 DEF StateMark
  <2>5. CASE Unmark(t)
    BY <2>5 DEF Unmark
  <2>6. CASE FreeSlot(t)
    BY <2>6 DEF FreeSlot
  <2>7. CASE WatchVideo(t)
    BY <2>7 DEF WatchVideo
  <2>8. CASE MediaDone(t)
    BY <2>8 DEF MediaDone
  <2> QED
    BY <1>3, <2>1, <2>2, <2>3, <2>4, <2>5, <2>6, <2>7, <2>8 DEF CallbackStep
<1>4. ASSUME NEW t \in Thread, NEW d \in CallId, NEW s \in CallState, StateBegins(t, d, s)
      PROVE  HasWatchdog(c)'
  BY <1>4 DEF StateBegins, Begins, EnterState, LockFree, Idle
<1>5. ASSUME NEW t \in Thread, NEW d \in CallId, NEW s \in CallState, MediaBegins(t, d, s)
      PROVE  HasWatchdog(c)'
  BY <1>5 DEF MediaBegins, EnterMedia, LockFree, Idle
<1>6. ASSUME NEW t \in Thread, NEW d \in CallId, HangupBegins(t, d) \/ HangupRefused(t, d)
      PROVE  HasWatchdog(c)'
  BY <1>6 DEF HangupBegins, HangupRefused, HangupLater, Begins, Ended, LockFree, Idle
<1>7. CASE DialStore \/ DialReturn
  BY <1>7 DEF DialStore, DialReturn
<1>8. CASE HangupAll \/ DialError \/ SetRingTimeout
  BY <1>8 DEF HangupAll, DialError, SetRingTimeout, threadVars, Idle
<1>9. CASE IncomingCurrent \/ IncomingTimeout
  BY <1>9 DEF IncomingCurrent, IncomingTimeout
<1>10. CASE ReadEntry \/ Unflag
  BY <1>10 DEF ReadEntry, Unflag
<1>11. CASE RingLook \/ ReportLook
  BY <1>11 DEF RingLook, ReportLook
<1>12. CASE DogLook
  BY <1>12 DEF DogLook
<1>13. CASE DogCount
  BY <1>13 DEF DogCount
<1>14. CASE GiveUpCheck
  BY <1>14 DEF GiveUpCheck
<1>15. CASE GiveUpMark
  BY <1>15, CallAssumption DEF GiveUpMark
<1>16. CASE GiveUpRemove
  BY <1>16 DEF GiveUpRemove, LockFree
<1>17. ASSUME NEW d \in CallId, Incoming(d) \/ MediaEvent(d) \/ VideoTx(d)
       PROVE  HasWatchdog(c)'
  BY <1>17 DEF Incoming, MediaEvent, VideoTx, threadVars, Idle
<1>18. ASSUME NEW x \in Timer, Expire(x)
       PROVE  HasWatchdog(c)'
  BY <1>18 DEF Expire, Callback, Idle
<1> QED
  BY StepKinds, <1>1, <1>2, <1>3, <1>4, <1>5, <1>6, <1>7, <1>8, <1>9, <1>10, <1>11,
      <1>12, <1>13, <1>14, <1>15, <1>16, <1>17, <1>18

-----------------------------------------------------------------------------
(* With one call slot. *)

\* pjsua is configured for one call, or the clients make one at a time.
OneSlot == \A c, d \in CallId : c = d

\* The ring entry is in the heap only while its flag says so, or is about to; no
\* thread that clears the flag or arms the timer finds it there, nor does
\* ring_timer_cb().
RingFlagTrue ==
    /\ armed["ring"] => flag["ring"] \/ At("worker", "incoming", "set")
    /\ \A t \in Thread : At(t, "state", "clear") => ~armed["ring"]
    /\ fn["worker"] = "incoming" /\ pc["worker"] \in {"clear", "init", "schedule"}
           => ~armed["ring"]
    /\ fn["worker"] = "ring_cb" => ~armed["ring"]

\* Whoever finds the flag cleared also finds the entry outside the heap.
LEMMA NextRingFlag ==
    ASSUME Typed, Locks, OneSlot, RingTimerScheduledOnce, RingFlagTrue, [Next]_vars
    PROVE  RingTimerScheduledOnce' /\ RingFlagTrue'
<1> USE DEF Typed, DataTyped, ThreadsTyped, Places, EitherPlace, MainPlace,
    WorkerPlace, HasCall,
    At, Go, Return, Enter, Thread, Timer, pjsuaVars, globals, dogVars, timerVars, history,
    Locks, Exclusive, LockedLive, EndingIsOver, Ending, CancelsAnswered, MediaStates,
    FreeHasNoMedia, Locked, RingTimerScheduledOnce, RingFlagTrue, OneSlot, Uses
<1>1. CASE UNCHANGED vars
  BY <1>1 DEF vars, threadVars
<1>2. ASSUME NEW t \in Thread, TimerStep(t)
      PROVE  RingTimerScheduledOnce' /\ RingFlagTrue'
  <2>1. CASE TestFlag(t)
    BY <2>1 DEF TestFlag, AfterCancel
  <2>2. CASE CancelEntry(t)
    BY <2>2 DEF CancelEntry
  <2>3. CASE ClearFlag(t)
    BY <2>3 DEF ClearFlag, AfterCancel
  <2>4. CASE InitEntry(t)
    BY <2>4 DEF InitEntry
  <2>5. CASE Schedule(t)
    BY <2>5 DEF Schedule, AfterArm
  <2>6. CASE SetFlag(t)
    BY <2>6 DEF SetFlag, AfterArm
  <2> QED
    BY <1>2, <2>1, <2>2, <2>3, <2>4, <2>5, <2>6 DEF TimerStep
<1>3. ASSUME NEW t \in Thread, CallbackStep(t)
      PROVE  RingTimerScheduledOnce' /\ RingFlagTrue'
  <2>1. CASE StateRing(t)
    BY <2>1 DEF StateRing
  <2>2. CASE StateOver(t)
    BY <2>2 DEF StateOver
  <2>3. CASE Forget(t)
    BY <2>3 DEF Forget
  <2>4. CASE StateMark(t)
    BY <2>4 DEF StateMark
  <2>5. CASE Unmark(t)
    BY <2>5 DEF Unmark
  <2>6. CASE FreeSlot(t)
    BY <2>6 DEF FreeSlot
  <2>7. CASE WatchVideo(t)
    BY <2>7 DEF WatchVideo
  <2>8. CASE MediaDone(t)
    BY <2>8 DEF MediaDone
  <2> QED
    BY <1>3, <2>1, <2>2, <2>3, <2>4, <2>5, <2>6, <2>7, <2>8 DEF CallbackStep
<1>4. ASSUME NEW t \in Thread, NEW d \in CallId, NEW s \in CallState, StateBegins(t, d, s)
      PROVE  RingTimerScheduledOnce' /\ RingFlagTrue'
  BY <1>4 DEF StateBegins, Begins, EnterState, LockFree, Idle
<1>5. ASSUME NEW t \in Thread, NEW d \in CallId, NEW s \in CallState, MediaBegins(t, d, s)
      PROVE  RingTimerScheduledOnce' /\ RingFlagTrue'
  BY <1>5 DEF MediaBegins, EnterMedia, LockFree, Idle
<1>6. ASSUME NEW t \in Thread, NEW d \in CallId, HangupBegins(t, d) \/ HangupRefused(t, d)
      PROVE  RingTimerScheduledOnce' /\ RingFlagTrue'
  BY <1>6 DEF HangupBegins, HangupRefused, HangupLater, Begins, Ended, LockFree, Idle
<1>7. CASE DialStore \/ DialReturn
  BY <1>7 DEF DialStore, DialReturn
<1>8. CASE HangupAll \/ DialError \/ SetRingTimeout
  BY <1>8 DEF HangupAll, DialError, SetRingTimeout, threadVars, Idle
<1>9. CASE IncomingCurrent \/ IncomingTimeout
  BY <1>9 DEF IncomingCurrent, IncomingTimeout
<1>10. CASE ReadEntry \/ Unflag
  BY <1>10 DEF ReadEntry, Unflag
<1>11. CASE RingLook \/ ReportLook
  BY <1>11 DEF RingLook, ReportLook
<1>12. CASE DogLook
  BY <1>12 DEF DogLook
<1>13. CASE DogCount
  BY <1>13 DEF DogCount
<1>14. CASE GiveUpCheck
  BY <1>14 DEF GiveUpCheck
<1>15. CASE GiveUpMark
  BY <1>15 DEF GiveUpMark
<1>16. CASE GiveUpRemove
  BY <1>16 DEF GiveUpRemove, LockFree
<1>17. ASSUME NEW d \in CallId, Incoming(d) \/ MediaEvent(d) \/ VideoTx(d)
       PROVE  RingTimerScheduledOnce' /\ RingFlagTrue'
  BY <1>17 DEF Incoming, MediaEvent, VideoTx, threadVars, Idle
<1>18. ASSUME NEW x \in Timer, Expire(x)
       PROVE  RingTimerScheduledOnce' /\ RingFlagTrue'
  BY <1>18 DEF Expire, Callback, Idle
<1> QED
  BY StepKinds, <1>1, <1>2, <1>3, <1>4, <1>5, <1>6, <1>7, <1>8, <1>9, <1>10, <1>11,
      <1>12, <1>13, <1>14, <1>15, <1>16, <1>17, <1>18

\* A call whose video was torn down is marked until it is over.
RemovedIsMarked == \A c \in removed : g_video_failed_call_id = c \/ st[c] = "over"

\* give_up_on_video() goes on with a call that it has just marked, and whose
\* video it has not torn down before.
GivesUpOnce ==
    LET c == call["worker"]
    IN  fn["worker"] = "giveup" /\ pc["worker"] # "check" =>
            /\ c \notin removed \/ st[c] = "over"
            /\ \/ pc["worker"] = "mark" \/ g_video_failed_call_id = c
               \/ media[c] # "video" \/ st[c] = "over"

\* A mark keeps give_up_on_video() from a call until that call is over.
LEMMA NextRemoved ==
    ASSUME Typed, Locks, GivesUpLate, OneSlot, RemovedIsMarked, GivesUpOnce, [Next]_vars
    PROVE  RemovedIsMarked' /\ GivesUpOnce'
<1> USE DEF Typed, DataTyped, ThreadsTyped, Places, EitherPlace, MainPlace,
    WorkerPlace, HasCall,
    At, Go, Return, Enter, Thread, Timer, pjsuaVars, globals, dogVars, timerVars, history,
    Locks, Exclusive, LockedLive, EndingIsOver, Ending, CancelsAnswered, MediaStates,
    FreeHasNoMedia, Locked, GivesUpLate, RemovedIsMarked, GivesUpOnce, OneSlot,
        LockFree, OverIsHeld
<1>1. CASE UNCHANGED vars
  BY <1>1 DEF vars, threadVars
<1>2. ASSUME NEW t \in Thread, TimerStep(t)
      PROVE  RemovedIsMarked' /\ GivesUpOnce'
  <2>1. CASE TestFlag(t)
    BY <2>1 DEF TestFlag, AfterCancel
  <2>2. CASE CancelEntry(t)
    BY <2>2 DEF CancelEntry
  <2>3. CASE ClearFlag(t)
    BY <2>3 DEF ClearFlag, AfterCancel
  <2>4. CASE InitEntry(t)
    BY <2>4 DEF InitEntry
  <2>5. CASE Schedule(t)
    BY <2>5 DEF Schedule, AfterArm
  <2>6. CASE SetFlag(t)
    BY <2>6 DEF SetFlag, AfterArm
  <2> QED
    BY <1>2, <2>1, <2>2, <2>3, <2>4, <2>5, <2>6 DEF TimerStep
<1>3. ASSUME NEW t \in Thread, CallbackStep(t)
      PROVE  RemovedIsMarked' /\ GivesUpOnce'
  <2>1. CASE StateRing(t)
    BY <2>1 DEF StateRing
  <2>2. CASE StateOver(t)
    BY <2>2 DEF StateOver
  <2>3. CASE Forget(t)
    BY <2>3 DEF Forget
  <2>4. CASE StateMark(t)
    BY <2>4 DEF StateMark
  <2>5. CASE Unmark(t)
    BY <2>5 DEF Unmark
  <2>6. CASE FreeSlot(t)
    BY <2>6 DEF FreeSlot
  <2>7. CASE WatchVideo(t)
    BY <2>7 DEF WatchVideo
  <2>8. CASE MediaDone(t)
    BY <2>8 DEF MediaDone
  <2> QED
    BY <1>3, <2>1, <2>2, <2>3, <2>4, <2>5, <2>6, <2>7, <2>8 DEF CallbackStep
<1>4. ASSUME NEW t \in Thread, NEW d \in CallId, NEW s \in CallState, StateBegins(t, d, s)
      PROVE  RemovedIsMarked' /\ GivesUpOnce'
  BY <1>4 DEF StateBegins, Begins, EnterState, LockFree, Idle
<1>5. ASSUME NEW t \in Thread, NEW d \in CallId, NEW s \in CallState, MediaBegins(t, d, s)
      PROVE  RemovedIsMarked' /\ GivesUpOnce'
  BY <1>5 DEF MediaBegins, EnterMedia, LockFree, Idle
<1>6. ASSUME NEW t \in Thread, NEW d \in CallId, HangupBegins(t, d) \/ HangupRefused(t, d)
      PROVE  RemovedIsMarked' /\ GivesUpOnce'
  BY <1>6 DEF HangupBegins, HangupRefused, HangupLater, Begins, Ended, LockFree, Idle
<1>7. CASE DialStore \/ DialReturn
  BY <1>7 DEF DialStore, DialReturn
<1>8. CASE HangupAll \/ DialError \/ SetRingTimeout
  BY <1>8 DEF HangupAll, DialError, SetRingTimeout, threadVars, Idle
<1>9. CASE IncomingCurrent \/ IncomingTimeout
  BY <1>9 DEF IncomingCurrent, IncomingTimeout
<1>10. CASE ReadEntry \/ Unflag
  BY <1>10 DEF ReadEntry, Unflag
<1>11. CASE RingLook \/ ReportLook
  BY <1>11 DEF RingLook, ReportLook
<1>12. CASE DogLook
  BY <1>12 DEF DogLook
<1>13. CASE DogCount
  BY <1>13 DEF DogCount
<1>14. CASE GiveUpCheck
  BY <1>14 DEF GiveUpCheck
<1>15. CASE GiveUpMark
  BY <1>15 DEF GiveUpMark
<1>16. CASE GiveUpRemove
  BY <1>16 DEF GiveUpRemove, LockFree
<1>17. ASSUME NEW d \in CallId, Incoming(d) \/ MediaEvent(d) \/ VideoTx(d)
       PROVE  RemovedIsMarked' /\ GivesUpOnce'
  BY <1>17 DEF Incoming, MediaEvent, VideoTx, threadVars, Idle
<1>18. ASSUME NEW x \in Timer, Expire(x)
       PROVE  RemovedIsMarked' /\ GivesUpOnce'
  BY <1>18 DEF Expire, Callback, Idle
<1> QED
  BY StepKinds, <1>1, <1>2, <1>3, <1>4, <1>5, <1>6, <1>7, <1>8, <1>9, <1>10, <1>11,
      <1>12, <1>13, <1>14, <1>15, <1>16, <1>17, <1>18

-----------------------------------------------------------------------------
(* The inductive invariant, and what follows from it. *)

\* The inductive invariant.
CallInv ==
    /\ Typed /\ Locks
    /\ CurrentCallIsLive /\ EndingIsNotCurrent
    /\ \A c \in CallId : HasRingTimer(c) /\ HasWatchdog(c)
    /\ GivesUpMarked /\ GivesUpLate

\* At start both threads are in pjsua, and there is neither a call nor a timer.
LEMMA InitEstablishes == Init => CallInv
<1> SUFFICES ASSUME Init PROVE CallInv
  OBVIOUS
<1>1. Typed
  BY TypedInit DEF Typed, TypeOK, DataTyped
<1>2. Locks
  BY DEF Init, Locks, Exclusive, LockedLive, EndingIsOver, Ending, OverIsHeld,
     CancelsAnswered, MediaStates, FreeHasNoMedia, Locked, Thread
<1>3. /\ CurrentCallIsLive /\ EndingIsNotCurrent
      /\ \A c \in CallId : HasRingTimer(c) /\ HasWatchdog(c)
      /\ GivesUpMarked /\ GivesUpLate
  BY DEF Init, CurrentCallIsLive, EndingIsNotCurrent, Ending, HasRingTimer, HasWatchdog,
     GivesUpMarked, GivesUpLate, Thread, At
<1> QED
  BY <1>1, <1>2, <1>3 DEF CallInv

\* No step of either thread breaks it, wherever the other one is.
LEMMA StepPreserves == CallInv /\ [Next]_vars => CallInv'
<1> SUFFICES ASSUME CallInv, [Next]_vars PROVE CallInv'
  OBVIOUS
<1>1. Typed'
  <2>1. TypeOK
    BY DEF CallInv, Typed, TypeOK, DataTyped, ThreadsTyped
  <2> QED
    BY <2>1, NextThreads, NextData DEF CallInv, Typed
<1>2. /\ Locks' /\ CurrentCallIsLive' /\ EndingIsNotCurrent'
      /\ GivesUpMarked' /\ GivesUpLate'
  BY NextLocks, NextCurrent, NextGivesUp DEF CallInv
<1>3. ASSUME NEW c \in CallId
      PROVE  HasRingTimer(c)' /\ HasWatchdog(c)'
  BY NextRingTimer, NextWatchdog DEF CallInv
<1> QED
  BY <1>1, <1>2, <1>3 DEF CallInv

\* Both threads keep CallInv for ever, whatever number of calls there is, and
\* whether or not timers can be scheduled.
THEOREM InductiveInvariant == Spec => []CallInv
  BY InitEstablishes, StepPreserves, PTL DEF Spec

\* Every variable of call.c, of pjsua's slots and of its timer heap stays in its
\* range, and the video counters in theirs, in every interleaving of the two
\* threads.
THEOREM TypeCorrect == Spec => []TypeOK
<1>1. CallInv => TypeOK
  BY DEF CallInv, Typed, TypeOK, DataTyped, ThreadsTyped
<1> QED
  BY <1>1, InductiveInvariant, PTL

\* status.get and call.hangup_all never name a call that is gone: with any number
\* of calls g_call_id is a call that pjsua has, or none.
THEOREM CurrentCallLive == Spec => []CurrentCallIsLive
<1>1. CallInv => CurrentCallIsLive
  BY DEF CallInv
<1> QED
  BY <1>1, InductiveInvariant, PTL

\* With any number of calls, a ringing call is under the ring timer until another
\* call takes the entry or cancels it, or scheduling fails: on_call_state() of
\* its own never cancels it early, and ring_timer_cb() does not drop it.
THEOREM RingTimerIsKept == Spec => []RingTimerKept
<1>1. CallInv => RingTimerKept
  BY DEF CallInv, RingTimerKept, HasRingTimer, UnderRingTimer
<1> QED
  BY <1>1, InductiveInvariant, PTL

\* With any number of calls, confirmed video not given up on is under the watchdog
\* until another call takes or cancels the entry, scheduling fails, or the
\* watchdog fires before the call is confirmed.
THEOREM WatchdogIsKept == Spec => []WatchdogKept
<1>1. CallInv => WatchdogKept
  BY DEF CallInv, Locks, MediaStates, WatchdogKept, HasWatchdog, Thread, At
<1> QED
  BY <1>1, InductiveInvariant, PTL

\* With one call slot g_ring_timer is never initialised or scheduled while it is in
\* the heap: the threads take turns by the lock of the one call.
THEOREM RingTimerOnce ==
    ASSUME OneSlot PROVE Spec => []RingTimerScheduledOnce
<1>1. Init => RingTimerScheduledOnce /\ RingFlagTrue
  BY DEF Init, RingTimerScheduledOnce, RingFlagTrue, At, Timer, Thread
<1>2. CallInv /\ RingTimerScheduledOnce /\ RingFlagTrue /\ [Next]_vars
          => RingTimerScheduledOnce' /\ RingFlagTrue'
  BY OneSlot, NextRingFlag DEF CallInv
<1> QED
  BY <1>1, <1>2, InductiveInvariant, PTL DEF Spec

\* With one call slot give_up_on_video() tears a call's video down at most once: the
\* mark stays until the call is over, and then its lock keeps it out.
THEOREM VideoTornDownOnce ==
    ASSUME OneSlot PROVE Spec => []VideoRemovedOnce
<1>1. Init => RemovedIsMarked /\ GivesUpOnce
  BY DEF Init, RemovedIsMarked, GivesUpOnce, Thread
<1>2. CallInv /\ RemovedIsMarked /\ GivesUpOnce /\ [Next]_vars
          => RemovedIsMarked' /\ GivesUpOnce'
  BY OneSlot, NextRemoved DEF CallInv
<1>3. CallInv /\ GivesUpOnce => VideoRemovedOnce
  <2> SUFFICES ASSUME CallInv, GivesUpOnce, At("worker", "giveup", "remove"),
                      LockFree("worker", call["worker"])
               PROVE  call["worker"] \notin removed
    BY DEF VideoRemovedOnce
  <2>1. call["worker"] \in CallId
    BY DEF CallInv, Typed, ThreadsTyped, HasCall, Thread, At
  <2>2. st[call["worker"]] # "over"
    BY <2>1 DEF CallInv, Locks, OverIsHeld, LockFree, Locked, Thread, At
  <2> QED
    BY <2>2 DEF GivesUpOnce, At
<1> QED
  BY <1>1, <1>2, <1>3, InductiveInvariant, PTL DEF Spec

=============================================================================
