-------------------------------- MODULE Call --------------------------------
(***************************************************************************)
(* src/call.c: the current call, the ring timeout, the video watchdog and  *)
(* the media report.  Commands run on the main thread, and so do the       *)
(* callbacks pjsua makes before such a command returns (a hangup that ends *)
(* the call at once, the media of a call being answered).  All other       *)
(* callbacks and all timers run on pjsua's one worker thread.              *)
(*                                                                         *)
(* Nothing in call.c locks its variables.  A step of a thread is therefore *)
(* one access to them, or one call of pjsua, and the other thread can come *)
(* in between any two.  All that pjsua guarantees is that callbacks and    *)
(* operations on the same call exclude each other: it holds a lock of that *)
(* call, not one for all calls, and none during timer callbacks.           *)
(*                                                                         *)
(* pjsua is external and modelled from how call.c uses it: call slots that *)
(* are reused, one callback per transition, a timer heap that runs an      *)
(* entry once per pjsua_schedule_timer().                                  *)
(***************************************************************************)
EXTENDS Integers

CONSTANTS CallId,       \* pjsua's call slots
          NoCall,       \* PJSUA_INVALID_ID
          HasVideo,     \* is video offered and accepted, or is every call
                        \* audio only (vid_cnt = 0)?
          RingTimeouts, \* the values of g_ring_timeout_sec > 0 that clients
                        \* may configure
          DialErrors,   \* can pjsua_call_make_call() fail?
          Works,        \* bound: the sets of timers that can be in use at a
                        \* time, all others fail to be scheduled
          MaxTx         \* bound: video packets counted per stream

ASSUME CallAssumption == NoCall \notin CallId
ASSUME FlagAssumption ==
    /\ HasVideo \in BOOLEAN /\ DialErrors \in BOOLEAN
    /\ RingTimeouts \subseteq BOOLEAN
    /\ Works \subseteq SUBSET {"ring", "dog", "report"}
ASSUME MaxTxAssumption == MaxTx \in Nat \ {0}

VARIABLES
    st,          \* pjsua: state of each call slot
    media,       \* pjsua: "none" negotiated yet, "audio", or "video" if there
                 \* is an active, sending video stream
    tx,          \* pjsua: packets that video stream has sent
    g_call_id, g_video_failed_call_id,
    ringSet,     \* g_ring_timeout_sec > 0
    seen,        \* g_video_tx_packets_seen
    stall,       \* g_video_stall_ticks
    armed,       \* timer heap: is the entry scheduled?
    orphan,      \* timer heap: entries also in it under an id they forgot
    flag,        \* g_*_scheduled
    data,        \* entry.user_data: the call it was initialised for
    fn, pc,      \* the function each thread is in, and where
    call,        \* its call_id
    goal,        \* pjsua: the state the call goes to once its media are up
    lost,        \* history: calls that lost timer x, see Lose
    removed      \* history: calls whose video was torn down

pjsuaVars == <<st, media, tx>>
globals == <<g_call_id, g_video_failed_call_id, ringSet>>
dogVars == <<seen, stall>>
timerVars == <<armed, orphan, flag, data>>
threadVars == <<fn, pc, call, goal>>
history == <<lost, removed>>
vars == <<pjsuaVars, globals, dogVars, timerVars, threadVars, history>>

Timer == {"ring", "dog", "report"}
Thread == {"main", "worker"}

\* "early" and "ringing" are both PJSIP_INV_STATE_EARLY, of an outgoing and
\* of an incoming call; "ending" is a call that we hung up and whose peer has
\* yet to answer that, "over" is DISCONNECTED.
CallState == {"free", "calling", "early", "incoming", "ringing", "connecting",
              "confirmed", "ending", "over"}
Ended(c) == st[c] \in {"free", "ending", "over"}
Ringing == {"incoming", "ringing", "early"}
Outcome == IF HasVideo THEN {"audio", "video"} ELSE {"audio"}

Function == {"pjsua", "dial", "reply", "hangup_all", "state", "endwatch", "endreport",
             "watch", "report", "incoming", "ring_cb", "dog_cb", "report_cb", "giveup"}
Place == {"idle", "store", "read", "call", "test", "cancel", "clear", "init", "schedule",
          "set", "ring", "over", "forget", "mark", "unmark", "free", "video", "done",
          "current", "timeout", "unflag", "look", "reject", "count", "check", "remove"}

\* The functions that run with the lock of their call held.
Locked == {"dial", "state", "endwatch", "endreport", "watch", "report", "incoming"}
LockFree(t, c) == \A u \in Thread \ {t} : fn[u] \in Locked => call[u] # c

At(t, f, p) == fn[t] = f /\ pc[t] = p
Idle(t) == At(t, "pjsua", "idle")

Init ==
    /\ st = [c \in CallId |-> "free"]
    /\ media = [c \in CallId |-> "none"]
    /\ tx = [c \in CallId |-> 0]
    /\ g_call_id = NoCall /\ g_video_failed_call_id = NoCall
    /\ ringSet = FALSE /\ seen = 0 /\ stall = 0
    /\ armed = [x \in Timer |-> FALSE] /\ orphan = {}
    /\ flag = [x \in Timer |-> FALSE]
    /\ \E c \in CallId : data = [x \in Timer |-> c]   \* zero, a call's id
    /\ fn = [t \in Thread |-> "pjsua"] /\ pc = [t \in Thread |-> "idle"]
    /\ call = [t \in Thread |-> NoCall]
    /\ goal = [t \in Thread |-> "free"]
    /\ lost = [x \in {"ring", "dog"} |-> {}]
    /\ removed = {}

-----------------------------------------------------------------------------
(* Threads. *)

\* Thread t is at step p of function f, for call c.
Enter(t, c, f, p) ==
    /\ fn' = [fn EXCEPT ![t] = f]
    /\ pc' = [pc EXCEPT ![t] = p]
    /\ call' = [call EXCEPT ![t] = c]

Go(t, f, p) == Enter(t, call[t], f, p) /\ UNCHANGED goal
Return(t) == Enter(t, NoCall, "pjsua", "idle") /\ UNCHANGED goal

\* Who rings no longer needs no ring timer, and who is gone needs none.
LostIn(c, s) ==
    [x \in {"ring", "dog"} |->
        IF (x = "ring" /\ s \notin Ringing) \/ s = "free" THEN lost[x] \ {c} ELSE lost[x]]

\* on_call_state() for a transition of c to s.
EnterState(t, c, s) ==
    /\ LockFree(t, c)
    /\ st' = [st EXCEPT ![c] = s]
    /\ Enter(t, c, "state", "ring")
    /\ lost' = LostIn(c, s)
    /\ UNCHANGED <<media, tx, goal, globals, dogVars, timerVars, removed>>

\* on_call_media_state(): media are negotiated, and then the call goes to s.
\* pjsua may have kept the video stream and its counters or made a new one.
EnterMedia(t, c, s) ==
    /\ LockFree(t, c)
    /\ \E m \in Outcome, n \in {0, tx[c]} :
          /\ media' = [media EXCEPT ![c] = m]
          /\ tx' = [tx EXCEPT ![c] = IF m = "video" THEN n ELSE 0]
    /\ Enter(t, c, "watch", "test")
    /\ goal' = [goal EXCEPT ![t] = s]
    /\ UNCHANGED <<st, globals, dogVars, timerVars, history>>

\* pjsua_call_hangup(): the call is over at once, or once the peer answers.
HangupLater(t, c) ==
    /\ LockFree(t, c)
    /\ st' = [st EXCEPT ![c] = "ending"]
    /\ lost' = LostIn(c, "ending")
    /\ Return(t)
    /\ UNCHANGED <<media, tx, globals, dogVars, timerVars, removed>>
HangupCall(t, c) == EnterState(t, c, "over") \/ HangupLater(t, c)

HangupIfLive(t, c) ==
    \/ ~Ended(c) /\ HangupCall(t, c)
    \/ /\ Ended(c)
       /\ Return(t)
       /\ UNCHANGED <<pjsuaVars, globals, dogVars, timerVars, history>>

-----------------------------------------------------------------------------
(* Timers: cancel_*() is the steps "test", "cancel" and "clear", arming is   *)
(* "init", "schedule" and "set".                                             *)

\* The timer that function f works on.
Uses(f) ==
    CASE f \in {"state", "incoming", "ring_cb"} -> "ring"
      [] f \in {"report", "endreport", "report_cb"} -> "report"
      [] OTHER -> "dog"

\* What thread t does once it has cancelled a timer, and once it has armed it.
AfterCancel(t) ==
    \/ fn[t] = "state" /\ Go(t, "state", "over")
    \/ fn[t] \in {"incoming", "report"} /\ Go(t, fn[t], "init")
    \/ fn[t] = "watch" /\ Go(t, "watch", "video")
    \/ fn[t] = "giveup" /\ Go(t, "giveup", "remove")
    \/ fn[t] = "endwatch" /\ Go(t, "endreport", "test")
    \/ fn[t] = "endreport" /\ Go(t, "endreport", "free")
AfterArm(t) ==
    \/ fn[t] \in {"incoming", "dog_cb", "report_cb"} /\ Return(t)
    \/ fn[t] = "watch" /\ Go(t, "report", "test")
    \/ fn[t] = "report" /\ Go(t, "report", "done")

\* The calls of gone lose timer x, those of back have it again.  A call loses
\* a timer when another call's callback takes the entry or cancels it, when
\* pjsua_schedule_timer() fails, when no ring timeout is configured, when the
\* watchdog fires before the call is confirmed, and when the mark of its
\* failed video passes to another call.
Lose(x, gone, back) ==
    lost' = [y \in {"ring", "dog"} |->
               IF y = x THEN (lost[y] \cup gone) \ back ELSE lost[y]]

\* The call that entry x serves, if it is not the one thread t is working for.
Robbed(x, t) == {c \in CallId : c = data[x] /\ c # call[t]}
Armed(x, c) == armed[x] /\ data[x] = c

\* Is it g_*_scheduled?
TestFlag(t) ==
    /\ pc[t] = "test"
    /\ \/ flag[Uses(fn[t])] /\ Go(t, fn[t], "cancel")
       \/ ~flag[Uses(fn[t])] /\ AfterCancel(t)
    /\ UNCHANGED <<pjsuaVars, globals, dogVars, timerVars, history>>

\* Mutant of CancelEntry: the entry stays in the heap.
CancelEntryNot(t) == LET x == Uses(fn[t]) IN
    /\ pc[t] = "cancel"
    /\ Go(t, fn[t], "clear")
    /\ UNCHANGED <<pjsuaVars, globals, dogVars, timerVars, history>>

\* pjsua_cancel_timer().
CancelEntry(t) == LET x == Uses(fn[t]) IN
    /\ pc[t] = "cancel"
    /\ armed' = [armed EXCEPT ![x] = FALSE]
    /\ Lose(x, IF armed[x] THEN Robbed(x, t) ELSE {}, {})
    /\ Go(t, fn[t], "clear")
    /\ UNCHANGED <<pjsuaVars, globals, dogVars, orphan, flag, data, removed>>

ClearFlag(t) ==
    /\ pc[t] = "clear"
    /\ flag' = [flag EXCEPT ![Uses(fn[t])] = FALSE]
    /\ AfterCancel(t)
    /\ UNCHANGED <<pjsuaVars, globals, dogVars, armed, orphan, data, history>>

\* pj_timer_entry_init(), for the watchdog after its counters were reset.  An
\* entry that is in the heap forgets its id there, and is run from it all the
\* same.
InitEntry(t) == LET x == Uses(fn[t]) IN
    /\ pc[t] = "init"
    /\ data' = [data EXCEPT ![x] = call[t]]
    /\ seen' = IF x = "dog" THEN 0 ELSE seen
    /\ stall' = IF x = "dog" THEN 0 ELSE stall
    /\ armed' = [armed EXCEPT ![x] = FALSE]
    /\ orphan' = IF armed[x] THEN orphan \cup {x} ELSE orphan
    /\ Lose(x, IF armed[x] \/ pc["worker"] = "read" THEN Robbed(x, t) ELSE {}, {})
    /\ Go(t, fn[t], "schedule")
    /\ UNCHANGED <<pjsuaVars, globals, flag, removed>>

InUse(x) == armed[x] \/ x \in orphan \/ flag[x]
Schedulable(x) == \E w \in Works : x \in w /\ \A y \in Timer : InUse(y) => y \in w

\* pjsua_schedule_timer(), which may fail.  The entry may have passed to
\* another call in the meantime.
Schedule(t) == LET x == Uses(fn[t]) IN
    /\ pc[t] = "schedule"
    /\ \/ /\ Schedulable(x)
          /\ armed' = [armed EXCEPT ![x] = TRUE]
          /\ orphan' = IF armed[x] THEN orphan \cup {x} ELSE orphan
          /\ IF data[x] = call[t] THEN Lose(x, {}, {call[t]})
                                  ELSE Lose(x, {call[t]}, {})
          /\ Go(t, fn[t], "set")
       \/ /\ Lose(x, {call[t]}, {})
          /\ AfterArm(t)
          /\ UNCHANGED <<armed, orphan>>
    /\ UNCHANGED <<pjsuaVars, globals, dogVars, flag, data, removed>>

SetFlag(t) ==
    /\ pc[t] = "set"
    /\ flag' = [flag EXCEPT ![Uses(fn[t])] = TRUE]
    /\ AfterArm(t)
    /\ UNCHANGED <<pjsuaVars, globals, dogVars, armed, orphan, data, history>>

-----------------------------------------------------------------------------
(* pjsocky_call_on_call_state(), on either thread. *)

\* Mutant of StateRing: an incoming call that is alerting counts as answered.
StateRingAlerting(t) ==
    /\ At(t, "state", "ring")
    /\ Go(t, "state", IF flag["ring"] /\ data["ring"] = call[t]
                         /\ st[call[t]] # "incoming"
                        THEN "test" ELSE "over")
    /\ UNCHANGED <<pjsuaVars, globals, dogVars, timerVars, history>>

\* The ring timer is cancelled if it is this call's and the call no longer
\* rings.  The two variables are looked at in one step: no other thread can
\* initialise the entry for this call, whose lock is held.
StateRing(t) ==
    /\ At(t, "state", "ring")
    /\ Go(t, "state", IF flag["ring"] /\ data["ring"] = call[t]
                         /\ st[call[t]] \notin Ringing
                        THEN "test" ELSE "over")
    /\ UNCHANGED <<pjsuaVars, globals, dogVars, timerVars, history>>

\* Mutant of StateOver: the current call stays the one that is over.
StateOverKeepsId(t) == LET c == call[t] IN
    /\ At(t, "state", "over")
    /\ \/ st[c] = "calling" /\ Go(t, "dial", "store")
       \/ st[c] \notin {"calling", "over"} /\ Return(t)
       \/ st[c] = "over" /\ Go(t, "state", "mark")
    /\ UNCHANGED <<pjsuaVars, globals, dogVars, timerVars, history>>

\* DISCONNECTED: is it the current call? ...  Otherwise the callback is over,
\* and pjsua_call_make_call() goes on if it has made it.
StateOver(t) == LET c == call[t] IN
    /\ At(t, "state", "over")
    /\ \/ st[c] = "calling" /\ Go(t, "dial", "store")
       \/ st[c] \notin {"calling", "over"} /\ Return(t)
       \/ st[c] = "over" /\ Go(t, "state", IF g_call_id = c THEN "forget" ELSE "mark")
    /\ UNCHANGED <<pjsuaVars, globals, dogVars, timerVars, history>>

\* ... then there is none.
Forget(t) ==
    /\ At(t, "state", "forget")
    /\ g_call_id' = NoCall
    /\ Go(t, "state", "mark")
    /\ UNCHANGED <<pjsuaVars, g_video_failed_call_id, ringSet, dogVars, timerVars,
                   history>>

\* Had its video been given up? ...
StateMark(t) ==
    /\ At(t, "state", "mark")
    /\ \/ g_video_failed_call_id = call[t] /\ Go(t, "state", "unmark")
       \/ g_video_failed_call_id # call[t] /\ Go(t, "endwatch", "test")
    /\ UNCHANGED <<pjsuaVars, globals, dogVars, timerVars, history>>

\* ... then the next call may try again.
Unmark(t) ==
    /\ At(t, "state", "unmark")
    /\ g_video_failed_call_id' = NoCall
    /\ Lose("dog", {g_video_failed_call_id} \ {NoCall, call[t]}, {})
    /\ Go(t, "endwatch", "test")
    /\ UNCHANGED <<pjsuaVars, g_call_id, ringSet, dogVars, timerVars, removed>>

\* Watchdog and report have been cancelled; pjsua takes the slot back.
FreeSlot(t) ==
    /\ At(t, "endreport", "free")
    /\ st' = [st EXCEPT ![call[t]] = "free"]
    /\ media' = [media EXCEPT ![call[t]] = "none"]
    /\ tx' = [tx EXCEPT ![call[t]] = 0]
    /\ lost' = LostIn(call[t], "free")
    /\ removed' = removed \ {call[t]}
    /\ Return(t)
    /\ UNCHANGED <<globals, dogVars, timerVars>>

-----------------------------------------------------------------------------
(* pjsocky_call_on_call_media_state(), on either thread. *)

\* Mutant of WatchVideo: only a confirmed call is watched.
WatchVideoConfirmed(t) == LET c == call[t]
                              watch == /\ st[c] = "confirmed" /\ media[c] = "video"
                                       /\ g_video_failed_call_id # c
                          IN
    /\ At(t, "watch", "video")
    /\ (watch /\ Go(t, "watch", "init")) \/ (~watch /\ Go(t, "report", "test"))
    /\ UNCHANGED <<pjsuaVars, globals, dogVars, timerVars, history>>

\* The watchdog has been cancelled.  It is armed for video that has not been
\* given up on, and then the report for every call.
WatchVideo(t) == LET c == call[t]
                     watch == media[c] = "video" /\ g_video_failed_call_id # c
                 IN
    /\ At(t, "watch", "video")
    /\ (watch /\ Go(t, "watch", "init")) \/ (~watch /\ Go(t, "report", "test"))
    /\ UNCHANGED <<pjsuaVars, globals, dogVars, timerVars, history>>

\* pjsua goes on, to the next state of the call if there is one.
MediaDone(t) == LET c == call[t] IN
    /\ At(t, "report", "done")
    /\ goal' = [goal EXCEPT ![t] = "free"]
    /\ \/ /\ goal[t] = st[c]
          /\ Enter(t, NoCall, "pjsua", "idle")
          /\ UNCHANGED <<st, lost>>
       \/ /\ goal[t] # st[c]
          /\ Enter(t, c, "state", "ring")
          /\ st' = [st EXCEPT ![c] = goal[t]]
          /\ lost' = LostIn(c, goal[t])
    /\ UNCHANGED <<media, tx, globals, dogVars, timerVars, removed>>

-----------------------------------------------------------------------------
(* Commands, on the main thread. *)

\* call.dial: pjsua_call_make_call() makes the call, with a callback for its
\* first state, ...
Dial(c) ==
    /\ Idle("main") /\ st[c] = "free"
    /\ EnterState("main", c, "calling")

\* ... stores it in g_call_id itself, ...
DialStore ==
    /\ At("main", "dial", "store")
    /\ g_call_id' = call["main"]
    /\ Go("main", "reply", "read")
    /\ UNCHANGED <<pjsuaVars, g_video_failed_call_id, ringSet, dogVars, timerVars,
                   history>>

\* ... and the handler reads that back for its response.
DialReturn ==
    /\ At("main", "reply", "read")
    /\ Return("main")
    /\ UNCHANGED <<pjsuaVars, globals, dogVars, timerVars, history>>

\* pjsua_call_make_call() fails: the global is reset, whatever it was.
DialError ==
    /\ DialErrors /\ Idle("main")
    /\ g_call_id' = NoCall
    /\ UNCHANGED <<pjsuaVars, g_video_failed_call_id, ringSet, dogVars, timerVars,
                   threadVars, history>>

\* call.hangup, or call.answer with a code that rejects.
Hangup(c) ==
    /\ Idle("main") /\ ~Ended(c)
    /\ HangupCall("main", c)

\* call.hangup_all: is there a current call? ...
HangupAll ==
    /\ Idle("main") /\ g_call_id # NoCall
    /\ Enter("main", g_call_id, "hangup_all", "call")
    /\ UNCHANGED <<pjsuaVars, goal, globals, dogVars, timerVars, history>>

\* ... then it is hung up, which pjsua refuses if it is gone by now.  The build
\* may read the global again; if there is no call then, pjsua's range check
\* aborts the process, and this step is never taken (see HangupAllHasCall).
HangupCurrent ==
    /\ At("main", "hangup_all", "call")
    /\ \E c \in {call["main"], g_call_id} \ {NoCall} : HangupIfLive("main", c)

\* call.answer: with a provisional code the call goes on ringing, perhaps
\* with early media; with a final one it is CONNECTING until the peer's ACK.
\* The first answer that carries SDP negotiates the media.
Answer(c) ==
    /\ Idle("main") /\ st[c] \in {"incoming", "ringing"}
    /\ \E s \in {"ringing", "connecting"} :
        \/ (s = "connecting" => media[c] # "none") /\ EnterState("main", c, s)
        \/ media[c] = "none" /\ EnterMedia("main", c, s)

\* config.set_ring_timeout: for future calls only.
SetRingTimeout ==
    /\ Idle("main")
    /\ ringSet' \in RingTimeouts
    /\ UNCHANGED <<pjsuaVars, g_call_id, g_video_failed_call_id, dogVars,
                   timerVars, threadVars, history>>

-----------------------------------------------------------------------------
(* Callbacks on the worker thread. *)

\* pjsocky_call_on_incoming_call(): the newcomer becomes the current call ...
Incoming(c) ==
    /\ Idle("worker") /\ st[c] = "free"
    /\ st' = [st EXCEPT ![c] = "incoming"]
    /\ Enter("worker", c, "incoming", "current")
    /\ UNCHANGED <<media, tx, goal, globals, dogVars, timerVars, history>>

IncomingCurrent ==
    /\ At("worker", "incoming", "current")
    /\ g_call_id' = call["worker"]
    /\ Go("worker", "incoming", "timeout")
    /\ UNCHANGED <<pjsuaVars, g_video_failed_call_id, ringSet, dogVars, timerVars,
                   history>>

\* ... and takes the only ring timer if there is a timeout.
IncomingTimeout ==
    /\ At("worker", "incoming", "timeout")
    /\ \/ ringSet /\ Go("worker", "incoming", "test") /\ UNCHANGED lost
       \/ ~ringSet /\ Return("worker") /\ Lose("ring", {call["worker"]}, {})
    /\ UNCHANGED <<pjsuaVars, globals, dogVars, timerVars, removed>>

\* The callee rings, perhaps with early media; it answers, perhaps with other
\* media than before.
Progress(c) ==
    /\ Idle("worker") /\ st[c] = "calling"
    /\ EnterState("worker", c, "early") \/ EnterMedia("worker", c, "early")

Confirm(c) ==
    /\ Idle("worker") /\ st[c] \in {"calling", "early"}
    /\ \/ media[c] # "none" /\ EnterState("worker", c, "confirmed")
       \/ EnterMedia("worker", c, "confirmed")

\* The ACK of a call we answered.
Acknowledge(c) ==
    /\ Idle("worker") /\ st[c] = "connecting"
    /\ EnterState("worker", c, "confirmed")

\* A re-INVITE, ours or the peer's; pjsocky_call_on_call_rx_offer() lets the
\* peer add video at any time.
Reinvite(c) ==
    /\ Idle("worker") /\ st[c] = "confirmed"
    /\ EnterMedia("worker", c, "confirmed")

\* The peer ends or cancels the call, or our hangup completes.
RemoteEnd(c) ==
    /\ Idle("worker") /\ st[c] \notin {"free", "over"}
    /\ EnterState("worker", c, "over")

\* pjsocky_call_on_call_media_event(): the video device reports a failure.
MediaEvent(c) ==
    /\ Idle("worker") /\ media[c] = "video"
    /\ Enter("worker", c, "giveup", "check")
    /\ UNCHANGED <<pjsuaVars, goal, globals, dogVars, timerVars, history>>

-----------------------------------------------------------------------------
(* Timers, on the worker thread. *)

Callback(x) ==
    CASE x = "ring" -> "ring_cb" [] x = "dog" -> "dog_cb" [] x = "report" -> "report_cb"

\* pjsua_schedule_timer()'s delay is over and the heap hands the entry out.
Expire(x) ==
    /\ Idle("worker")
    /\ \/ /\ armed[x] /\ armed' = [armed EXCEPT ![x] = FALSE]
          /\ UNCHANGED orphan
       \/ /\ x \in orphan /\ orphan' = orphan \ {x}
          /\ UNCHANGED armed
    /\ Go("worker", Callback(x), "read")
    /\ UNCHANGED <<pjsuaVars, globals, dogVars, flag, data, history>>

\* The callback takes its call from the entry ...
ReadEntry ==
    /\ pc["worker"] = "read"
    /\ Enter("worker", data[Uses(fn["worker"])], fn["worker"], "unflag")
    /\ UNCHANGED <<pjsuaVars, goal, globals, dogVars, timerVars, history>>

\* ... and clears its flag.
Unflag ==
    /\ pc["worker"] = "unflag"
    /\ flag' = [flag EXCEPT ![Uses(fn["worker"])] = FALSE]
    /\ Go("worker", fn["worker"], "look")
    /\ UNCHANGED <<pjsuaVars, globals, dogVars, armed, orphan, data, history>>

\* Mutant of RingLook: an alerting call (EARLY) is taken for an answered one.
RingLookIncoming == LET c == call["worker"] IN
    /\ At("worker", "ring_cb", "look")
    /\ \/ st[c] = "incoming" /\ Go("worker", "ring_cb", "reject")
       \/ st[c] # "incoming" /\ Return("worker")
    /\ UNCHANGED <<pjsuaVars, globals, dogVars, timerVars, history>>

\* ring_timer_cb(): does the call still ring? ...
RingLook == LET c == call["worker"] IN
    /\ At("worker", "ring_cb", "look")
    /\ \/ st[c] \in Ringing /\ Go("worker", "ring_cb", "reject")
       \/ st[c] \notin Ringing /\ Return("worker")
    /\ UNCHANGED <<pjsuaVars, globals, dogVars, timerVars, history>>

\* ... then it is hung up, whatever it is doing by now.
RingReject ==
    /\ At("worker", "ring_cb", "reject")
    /\ HangupIfLive("worker", call["worker"])

\* video_watchdog_cb(): only the video of a confirmed call is watched.  A call
\* that is not confirmed yet is not looked at again.
DogLook == LET c == call["worker"]
               watched == st[c] = "confirmed" /\ media[c] = "video"
           IN
    /\ At("worker", "dog_cb", "look")
    /\ \/ watched /\ Go("worker", "dog_cb", "count")
       \/ ~watched /\ Return("worker")
    /\ Lose("dog", IF st[c] \in {"free", "confirmed"} \/ Armed("dog", c) THEN {} ELSE {c}, {})
    /\ UNCHANGED <<pjsuaVars, globals, dogVars, timerVars, removed>>

\* Mutant of DogCount: windows without packets are not added up.
DogCountForgets == LET c == call["worker"]
                       grew == media[c] = "video" /\ tx[c] > seen
                   IN
    /\ At("worker", "dog_cb", "count")
    /\ seen' = IF grew THEN tx[c] ELSE seen
    /\ \/ (grew \/ seen = 0) /\ Go("worker", "dog_cb", "schedule")
       \/ ~grew /\ seen > 0 /\ Go("worker", "giveup", "check")
    /\ UNCHANGED <<pjsuaVars, globals, stall, timerVars, history>>

\* Packets went out since the last time, or one more window without any is
\* one too many (two for a stream yet to send).
DogCount == LET c == call["worker"]
                grew == media[c] = "video" /\ tx[c] > seen
                dead == ~grew /\ stall + 1 >= (IF seen > 0 THEN 1 ELSE 2)
            IN
    /\ At("worker", "dog_cb", "count")
    /\ seen' = IF grew THEN tx[c] ELSE seen
    /\ stall' = IF grew THEN 0 ELSE stall + 1
    /\ (dead /\ Go("worker", "giveup", "check")) \/ (~dead /\ Go("worker", "dog_cb", "schedule"))
    /\ UNCHANGED <<pjsuaVars, globals, timerVars, history>>

\* media_report_cb(): logs the counters of a confirmed call.
ReportLook == LET c == call["worker"] IN
    /\ At("worker", "report_cb", "look")
    /\ \/ st[c] = "confirmed" /\ Go("worker", "report_cb", "schedule")
       \/ st[c] # "confirmed" /\ Return("worker")
    /\ UNCHANGED <<pjsuaVars, globals, dogVars, timerVars, history>>

\* Mutant of GiveUpCheck: every report of a failure is acted upon.
GiveUpCheckNot ==
    /\ At("worker", "giveup", "check")
    /\ Go("worker", "giveup", "mark")
    /\ UNCHANGED <<pjsuaVars, globals, dogVars, timerVars, history>>

\* give_up_on_video(): only once per call, ...
GiveUpCheck == LET c == call["worker"] IN
    /\ At("worker", "giveup", "check")
    /\ \/ g_video_failed_call_id = c /\ Return("worker")
       \/ g_video_failed_call_id # c /\ Go("worker", "giveup", "mark")
    /\ UNCHANGED <<pjsuaVars, globals, dogVars, timerVars, history>>

\* ... which is remembered ...
GiveUpMark ==
    /\ At("worker", "giveup", "mark")
    /\ g_video_failed_call_id' = call["worker"]
    /\ Lose("dog", {g_video_failed_call_id} \ {NoCall}, {})
    /\ Go("worker", "giveup", "test")
    /\ UNCHANGED <<pjsuaVars, g_call_id, ringSet, dogVars, timerVars, removed>>

\* ... before the stream is removed.  pjsua refuses that for a call that has
\* none, or is gone.
GiveUpRemove ==
    /\ At("worker", "giveup", "remove")
    /\ LockFree("worker", call["worker"])
    /\ removed' = removed \cup {c \in {call["worker"]} : media[c] = "video"}
    /\ Return("worker")
    /\ UNCHANGED <<pjsuaVars, globals, dogVars, timerVars, lost>>

-----------------------------------------------------------------------------
\* The encoder sends, as long as the camera delivers.
VideoTx(c) ==
    /\ media[c] = "video" /\ tx[c] < MaxTx
    /\ tx' = [tx EXCEPT ![c] = @ + 1]
    /\ UNCHANGED <<st, media, globals, dogVars, timerVars, threadVars, history>>

Command(c) == Dial(c) \/ Hangup(c) \/ Answer(c)
PjsuaCallback(c) ==
    \/ Incoming(c) \/ Progress(c) \/ Confirm(c) \/ Acknowledge(c) \/ Reinvite(c)
    \/ RemoteEnd(c) \/ MediaEvent(c)

\* The steps of the functions that either thread can be in, and the others.
TimerStep(t) ==
    \/ TestFlag(t) \/ CancelEntry(t) \/ ClearFlag(t)
    \/ InitEntry(t) \/ Schedule(t) \/ SetFlag(t)
CallbackStep(t) ==
    \/ StateRing(t) \/ StateOver(t) \/ Forget(t) \/ StateMark(t) \/ Unmark(t)
    \/ FreeSlot(t) \/ WatchVideo(t) \/ MediaDone(t)
MainStep ==
    TimerStep("main") \/ CallbackStep("main") \/ DialStore \/ DialReturn \/ HangupCurrent
WorkerStep ==
    \/ TimerStep("worker") \/ CallbackStep("worker") \/ IncomingCurrent \/ IncomingTimeout
    \/ ReadEntry \/ Unflag \/ RingLook \/ RingReject \/ DogLook \/ DogCount
    \/ ReportLook \/ GiveUpCheck \/ GiveUpMark \/ GiveUpRemove

Next ==
    \/ \E c \in CallId : Command(c) \/ PjsuaCallback(c) \/ VideoTx(c)
    \/ \E x \in Timer : Expire(x)
    \/ HangupAll \/ DialError \/ SetRingTimeout
    \/ MainStep \/ WorkerStep

Spec == Init /\ [][Next]_vars

\* A thread goes on with what it is in and gets the lock it waits for, however
\* often the other one has it first; pjsua's worker runs every entry that
\* stays in the heap, however often other work comes first.
FairSpec ==
    /\ Spec
    /\ WF_vars(MainStep) /\ SF_vars(WorkerStep)
    /\ \A x \in {"ring", "dog"} : SF_vars(Expire(x))

-----------------------------------------------------------------------------
(* Properties. *)

\* Every variable of call.c, of pjsua's call slots and of its timer heap stays
\* in its range; the timers' call ids are call ids, also before the first call.
TypeOK ==
    /\ st \in [CallId -> CallState]
    /\ media \in [CallId -> {"none", "audio", "video"}]
    /\ tx \in [CallId -> 0 .. MaxTx]
    /\ g_call_id \in CallId \cup {NoCall}
    /\ g_video_failed_call_id \in CallId \cup {NoCall}
    /\ ringSet \in BOOLEAN
    /\ seen \in 0 .. MaxTx /\ stall \in Nat
    /\ armed \in [Timer -> BOOLEAN] /\ flag \in [Timer -> BOOLEAN]
    /\ orphan \subseteq Timer
    /\ data \in [Timer -> CallId]
    /\ fn \in [Thread -> Function] /\ pc \in [Thread -> Place]
    /\ call \in [Thread -> CallId \cup {NoCall}]
    /\ goal \in [Thread -> CallState]
    /\ lost \in [{"ring", "dog"} -> SUBSET CallId]
    /\ removed \subseteq CallId

\* status.get and call.hangup_all never name a call that is gone: g_call_id is
\* a call that pjsua has or none, whichever thread ended the call, whatever the
\* other one did in between, and whatever calls came before it in its slot.
CurrentCallIsLive == g_call_id # NoCall => st[g_call_id] # "free"

\* g_ring_timer is scheduled for call c, or about to be, or ring_timer_cb() is
\* about to look at the call or to reject it.
UnderRingTimer(c) ==
    \/ Armed("ring", c)
    \/ At("worker", "ring_cb", "read") /\ data["ring"] = c
    \/ call["worker"] = c /\ fn["worker"] \in {"ring_cb", "incoming"}

\* With any number of calls, a call that rings is under the ring timer for as
\* long as it has not lost it: no callback of its own takes it away, and none
\* of another call does except by cancelling or re-using the entry.
RingTimerKept ==
    \A c \in CallId :
       st[c] \in {"incoming", "ringing"} /\ c \notin lost["ring"] => UnderRingTimer(c)

\* With one call slot g_ring_timer is never initialised or scheduled while it is
\* in the heap, although the main thread cancels it while the worker runs it.
RingTimerScheduledOnce == "ring" \notin orphan

\* With one call slot give_up_on_video() tears a call's video down at most once,
\* however often the device reports its failure and the watchdog fires while
\* the re-INVITE is under way.
VideoRemovedOnce == LET c == call["worker"] IN
    At("worker", "giveup", "remove") /\ LockFree("worker", c) /\ media[c] = "video"
        => c \notin removed

\* With any number of calls, a confirmed call that sends video not yet given up
\* on is under the watchdog for as long as it has not lost it: the entry is
\* scheduled for that call, or a callback that will schedule it or give up is
\* running.
WatchdogKept ==
    \A c \in CallId :
        /\ st[c] = "confirmed" /\ media[c] = "video"
        /\ g_video_failed_call_id # c /\ c \notin lost["dog"]
        =>  \/ Armed("dog", c)
            \/ At("worker", "dog_cb", "read") /\ data["dog"] = c
            \/ call["worker"] = c /\ fn["worker"] \in {"dog_cb", "giveup", "watch"}

\* Every call that rings under a ring timer stops ringing, unless it loses the
\* timer: it is answered, hung up, cancelled by the peer, or rejected by
\* ring_timer_cb().
RingingEnds ==
    \A c \in CallId :
        LET timed == st[c] \in {"incoming", "ringing"} /\ c \notin lost["ring"]
        IN  timed ~> ~timed

\* If a confirmed call's video sends no more packets the daemon gives up on it,
\* unless the call, the video or the fault ends first or the call has lost the
\* watchdog; peers that renegotiate for ever, and so restart the watchdog for
\* ever, are excluded.
DeadVideoIsGivenUp ==
    <>[][\A c \in CallId : ~Reinvite(c)]_vars =>
        \A c \in CallId, n \in 0 .. MaxTx :
            (st[c] = "confirmed" /\ media[c] = "video" /\ tx[c] = n) ~>
            (\/ g_video_failed_call_id = c \/ c \in lost["dog"]
             \/ st[c] # "confirmed" \/ media[c] # "video" \/ tx[c] # n)

\* What call.h and docs/PROTOCOL.md say of the current call: with one call
\* slot, a call that is there is the current call, unless its own function has
\* yet to store it.  The code loses it when a later call.dial fails.
LiveCallIsTracked ==
    g_call_id = NoCall =>
        \A c \in CallId : Ended(c) \/ \E t \in Thread : fn[t] # "pjsua" /\ call[t] = c

-----------------------------------------------------------------------------
(* Further claims of the documentation that TLC refutes on this module;      *)
(* README.md tells what happens.                                             *)

\* What the comment on g_ring_timer says: ring_timer_cb() re-checks the call,
\* so that one answered in the same tick is not rejected.
AnsweredCallIsNotRejected ==
    [][At("worker", "ring_cb", "reject") /\ pc'["worker"] # "reject"
         => st[call["worker"]] \notin {"connecting", "confirmed"}]_vars

\* What docs/PROTOCOL.md says of call.dial: the result is the new call's id.
\* The code reads it from g_call_id, which a callback may have changed.
DialReportsItsCall == [][DialReturn => g_call_id = call["main"]]_vars

\* What the code of call.hangup_all takes for granted: the call it has just
\* found in g_call_id is still there when it passes the variable to pjsua.
HangupAllHasCall == At("main", "hangup_all", "call") => g_call_id # NoCall

\* What the comment on g_video_failed_call_id says: it is cleared when the
\* call disconnects, so that the next call gets to try video again.
VideoFailedCallIsLive ==
    g_video_failed_call_id # NoCall => st[g_video_failed_call_id] # "free"

\* What the comment on the watchdog says: it is armed while a call has a
\* sending video stream, whatever happened before.
WatchdogGuardsVideo ==
    \A c \in CallId :
        st[c] = "confirmed" /\ media[c] = "video" /\ g_video_failed_call_id # c
            => c \notin lost["dog"]

\* What the check in on_call_state() is for: only the call that has the ring
\* timer cancels it.
CancelsItsOwnTimer ==
    \A t \in Thread : At(t, "state", "cancel") => data["ring"] = call[t]

\* What the comment on arm_media_report() says: the report is armed anew, and
\* not left running, when media is renegotiated.
ReportIsArmedAnew == "report" \notin orphan

\* What docs/PROTOCOL.md says of call_media_state: video that was given up on
\* is not retried on the same call.
VideoIsNotRetried ==
    [][\A c \in CallId : g_video_failed_call_id = c /\ media[c] = "audio"
                             => media'[c] # "video"]_vars
=============================================================================
