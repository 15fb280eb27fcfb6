------------------------------- MODULE Device -------------------------------
(***************************************************************************)
(* src/device.c and what hangs on it: the capture device that account.c    *)
(* gives the account and call.c gives a call when its media is up, and    *)
(* the sound device that call.c connects a call to.  The account itself   *)
(* is module Account; commands of both run on the one main thread, and    *)
(* pjsua's callbacks on its worker thread.                                *)
(*                                                                        *)
(* pjsua is external.  A call takes its first capture device from the     *)
(* account when it is set up; media comes up on the worker, or on the     *)
(* main thread when that answers an incoming call; the bridge opens the   *)
(* selected sound device for the first connection to it; the end of the   *)
(* last call arms a timer that closes it.  What pjsua is asked to open or *)
(* change may fail.                                                       *)
(***************************************************************************)
EXTENDS Account, Sequences, Functions

CONSTANTS Call,         \* call slots
          Capturing,    \* video devices that can capture
          Inventory,    \* video enumerations: sequences of devices
          NoDev,        \* PJMEDIA_VID_INVALID_DEV
          Audio,        \* pairs of audio devices a client may select
          Closed        \* no sound device is open

ASSUME DevAssumption ==
    /\ \A devs \in Inventory : NoDev \notin Range(devs)
    /\ NoDev \notin Capturing /\ Closed \notin Audio

VARIABLES
    devices,       \* the video devices, enumerated once
    g_video_capture_id,
    vid_cap_dev,   \* pjsua: the account's capture device
    updated,       \* did the last device.set_video reach the account?
    st,            \* pjsua: per call "free", "out", "in" (no media yet), then
                   \* "apply", "connect" inside on_call_media_state, "live"
    by,            \* the thread in call c's on_call_media_state, or "none"
    cap,           \* the device call c captures from, NoDev without video
    cap_dev,       \* apply_video_capture_device()'s copy of the selection
    mark,          \* when call c was set up, see Mark
    dpc,           \* main thread: "idle", or inside device.set_*
    asked,         \* the devices device.set_audio is selecting
    selected,      \* pjsua: the devices the next opening is to use
    snd,           \* pjsua: the devices open, or Closed
    no_snd,        \* pjsua: pjsua_set_no_snd_dev() is in force
    snd_failed,    \* the last opening failed
    timer          \* pjsua: the auto-close timer is armed

video == <<devices, g_video_capture_id, vid_cap_dev, updated>>
calls == <<st, by, cap, cap_dev, mark>>
audio == <<asked, selected, snd, no_snd, snd_failed, timer>>
devVars == <<video, calls, dpc, audio>>
allVars == <<vars, devVars>>

DevInit ==
    /\ Init
    /\ devices \in Inventory
    /\ g_video_capture_id = NoDev /\ vid_cap_dev = NoDev /\ updated = TRUE
    /\ st = [c \in Call |-> "free"] /\ by = [c \in Call |-> "none"]
    /\ cap = [c \in Call |-> NoDev] /\ cap_dev = [c \in Call |-> NoDev]
    /\ mark = [c \in Call |-> "old"]
    /\ dpc = "idle"
    /\ asked \in Audio /\ selected = asked
    /\ snd = Closed /\ no_snd = FALSE /\ snd_failed = FALSE /\ timer = FALSE

MainFree == mpc = "idle" /\ dpc = "idle" /\ \A c \in Call : by[c] # "main"
WorkerFree == wpc = "idle" /\ \A c \in Call : by[c] # "worker"
NoCalls == \A c \in Call : st[c] = "free"

-----------------------------------------------------------------------------
(* The account's commands and callbacks, with its capture device. *)

\* Mutant of FirstCapture: the first device, whatever it can do.
FirstCaptureAny == {devices[i] : i \in DOMAIN devices \cap {1}}

\* The first device of the enumeration that can capture, if there is one.
FirstCapture ==
    {devices[i] : i \in
        {k \in DOMAIN devices : /\ devices[k] \in Capturing
                                /\ \A j \in 1 .. (k - 1) : devices[j] \notin Capturing}}

\* resolve_default_vid_cap_dev(): the selection, else a default, else none; the
\* enumeration may fail.
DefaultCapDevs ==
    IF g_video_capture_id # NoDev THEN {g_video_capture_id}
    ELSE FirstCapture \cup {NoDev}

DevConfigure ==
    /\ MainFree /\ Configure
    /\ \E d \in DefaultCapDevs :
        vid_cap_dev' = IF acc' # acc THEN d ELSE vid_cap_dev
    /\ updated' = (updated \/ acc' # acc)
    /\ UNCHANGED <<devices, g_video_capture_id, calls, dpc, audio>>

DevAccountCommand ==
    /\ MainFree /\ (Register \/ Unregister \/ RemoveCheck)
    /\ UNCHANGED devVars

DevRemove == (RemoveDel \/ RemoveClear) /\ UNCHANGED devVars

DevRegCallback ==
    /\ WorkerFree /\ (Refresh \/ OnRegState2)
    /\ UNCHANGED devVars

DevPushRegState == PushRegState /\ UNCHANGED devVars

-----------------------------------------------------------------------------
(* device.set_video, on the main thread. *)

\* What pjsua_vid_dev_get_info() knows and what can capture.
Selectable == Range(devices) \cap Capturing

\* The selection is made ...
SetVideo(d) ==
    /\ MainFree /\ d \in Selectable
    /\ g_video_capture_id' = d
    /\ dpc' = IF g_acc_id # NoAcc THEN "vid" ELSE "idle"
    /\ mark' = [c \in Call |-> "old"]
    /\ updated' = TRUE
    /\ UNCHANGED <<vars, devices, vid_cap_dev, st, by, cap, cap_dev, audio>>

\* Mutant of UpdateAccount: calls are thought to apply the selection anyway.
UpdateAccountNot ==
    /\ dpc = "vid" /\ plock = "none"
    /\ dpc' = "idle"
    /\ UNCHANGED <<vars, video, calls, audio>>

\* ... and goes to the account, with pjsua_acc_get_config() and
\* pjsua_acc_modify(), whose failure is only logged.
UpdateAccount ==
    /\ dpc = "vid" /\ plock = "none"
    /\ \/ vid_cap_dev' = g_video_capture_id /\ UNCHANGED updated
       \/ updated' = FALSE /\ UNCHANGED vid_cap_dev
    /\ dpc' = "idle"
    /\ UNCHANGED <<vars, devices, g_video_capture_id, calls, audio>>

-----------------------------------------------------------------------------
(* Calls. *)

\* What a call set up now may count on: the last device.set_video is over
\* and the account has it ("fresh"), or did not take it ("missed").
Mark == IF dpc = "vid" THEN "old" ELSE IF updated THEN "fresh" ELSE "missed"

\* call.dial, or an INVITE: pjsua takes the account's capture device.
Setup(c, dir) ==
    /\ st[c] = "free" /\ acc # NoAcc /\ plock = "none"
    /\ IF dir = "out" THEN MainFree ELSE WorkerFree
    /\ st' = [st EXCEPT ![c] = dir]
    /\ \E d \in {vid_cap_dev, NoDev} : cap' = [cap EXCEPT ![c] = d]
    /\ mark' = [mark EXCEPT ![c] = Mark]
    /\ UNCHANGED <<vars, video, by, cap_dev, dpc, audio>>

\* Media is negotiated: with the answer to call.dial, by call.answer, or by a
\* re-INVITE, which can take video away or, as on_call_rx_offer allows, add it
\* with the account's device of that time.  pjsua opens the capture device when
\* it is not yet open, which may fail and leave an audio call; a renderer
\* refuses.  on_call_media_state begins by reading the selection.
MediaUp(c) ==
    /\ st[c] \in {"out", "in", "live"} /\ plock = "none"
    /\ IF st[c] = "in" THEN MainFree ELSE WorkerFree
    /\ by' = [by EXCEPT ![c] = IF st[c] = "in" THEN "main" ELSE "worker"]
    /\ \/ cap[c] \in Capturing /\ UNCHANGED cap
       \/ cap' = [cap EXCEPT ![c] = NoDev]
       \/ /\ st[c] = "live" /\ cap[c] = NoDev /\ vid_cap_dev \in Capturing
          /\ cap' = [cap EXCEPT ![c] = vid_cap_dev]
    /\ cap_dev' = [cap_dev EXCEPT ![c] = g_video_capture_id]
    /\ st' = [st EXCEPT ![c] = "apply"]
    /\ UNCHANGED <<vars, video, mark, dpc, audio>>

\* apply_video_capture_device(): an active video stream changes to the device
\* selected, if one was; a failure is only logged.
Apply(c) ==
    /\ st[c] = "apply" /\ plock = "none"
    /\ st' = [st EXCEPT ![c] = "connect"]
    /\ \/ /\ cap_dev[c] = NoDev \/ cap[c] = NoDev
          /\ UNCHANGED <<cap, mark>>
       \/ /\ cap_dev[c] # NoDev /\ cap[c] # NoDev
          /\ \/ cap' = [cap EXCEPT ![c] = cap_dev[c]] /\ UNCHANGED mark
             \/ /\ mark' = [mark EXCEPT ![c] = IF @ = "missed" THEN "old" ELSE @]
                /\ UNCHANGED cap
    /\ UNCHANGED <<vars, video, by, cap_dev, dpc, audio>>

\* The sound device is opened with devices d, or fails to and stays closed.
Open(d) ==
    \/ snd' = d /\ snd_failed' = FALSE
    \/ snd' = Closed /\ snd_failed' = TRUE

\* connect_call_audio_to_sound_dev(): pjsua_conf_connect() disarms the timer and
\* opens the sound device if it is closed, unless there is to be none.
Connect(c) ==
    /\ st[c] = "connect" /\ plock = "none"
    /\ timer' = FALSE
    /\ IF snd = Closed /\ ~no_snd
       THEN Open(selected)
       ELSE UNCHANGED <<snd, snd_failed>>
    /\ st' = [st EXCEPT ![c] = "live"] /\ by' = [by EXCEPT ![c] = "none"]
    /\ UNCHANGED <<vars, video, cap, cap_dev, mark, dpc, asked, selected, no_snd>>

\* A call ends, by either thread; the last one arms the timer.
End(c) ==
    /\ st[c] \in {"out", "in", "live"} /\ plock = "none"
    /\ MainFree \/ WorkerFree
    /\ st' = [st EXCEPT ![c] = "free"]
    /\ cap' = [cap EXCEPT ![c] = NoDev] /\ cap_dev' = [cap_dev EXCEPT ![c] = NoDev]
    /\ mark' = [mark EXCEPT ![c] = "old"]
    /\ timer' = (timer \/ (snd # Closed /\ \A b \in Call \ {c} : st[b] = "free"))
    /\ UNCHANGED <<vars, video, by, dpc, asked, selected, snd, no_snd, snd_failed>>

-----------------------------------------------------------------------------
(* device.set_audio, on the main thread, and the auto-close timer. *)

\* Mutant of LeftOpen: calls do not count.
SoundIsOn == snd # Closed

\* pjsua_snd_is_active() && pjsua_call_get_count() == 0
LeftOpen == snd # Closed /\ NoCalls

SetAudio(d) ==
    /\ MainFree
    /\ asked' = d
    /\ dpc' = IF LeftOpen THEN "close" ELSE "select"
    /\ UNCHANGED <<vars, video, calls, selected, snd, no_snd, snd_failed, timer>>

\* pjsua_set_no_snd_dev()
CloseIdle ==
    /\ dpc = "close" /\ plock = "none"
    /\ snd' = Closed /\ no_snd' = TRUE
    /\ dpc' = "select"
    /\ UNCHANGED <<vars, video, calls, asked, selected, snd_failed, timer>>

\* Mutant of Select: pjsua_set_snd_dev(), which opens what it selects.
SelectOpens ==
    /\ dpc = "select" /\ plock = "none"
    /\ selected' = asked /\ no_snd' = FALSE
    /\ Open(asked)
    /\ dpc' = "idle"
    /\ UNCHANGED <<vars, video, calls, asked, timer>>

\* pjsua_set_snd_dev2() with PJSUA_SND_DEV_NO_IMMEDIATE_OPEN
Select ==
    /\ dpc = "select" /\ plock = "none"
    /\ selected' = asked /\ no_snd' = FALSE
    /\ IF snd = Closed THEN UNCHANGED <<snd, snd_failed>> ELSE Open(asked)
    /\ dpc' = "idle"
    /\ UNCHANGED <<vars, video, calls, asked, timer>>

AutoClose ==
    /\ timer /\ WorkerFree /\ plock = "none"
    /\ timer' = FALSE /\ snd' = Closed
    /\ UNCHANGED <<vars, video, calls, dpc, asked, selected, no_snd, snd_failed>>

-----------------------------------------------------------------------------

CallStep(c) ==
    \/ \E dir \in {"out", "in"} : Setup(c, dir)
    \/ MediaUp(c) \/ Apply(c) \/ Connect(c) \/ End(c)

DevNext ==
    \/ DevConfigure \/ DevAccountCommand \/ DevRemove
    \/ DevRegCallback \/ DevPushRegState
    \/ \E d \in Capturing \cup Range(devices) : SetVideo(d)
    \/ UpdateAccount
    \/ \E c \in Call : CallStep(c)
    \/ \E d \in Audio : SetAudio(d)
    \/ CloseIdle \/ Select \/ AutoClose

DevSpec == DevInit /\ [][DevNext]_allVars

\* Callbacks end, and the worker gets to the timers that are due between them.
FairSpec ==
    /\ DevSpec
    /\ WF_allVars(DevPushRegState)
    /\ \A c \in Call : WF_allVars(Apply(c) \/ Connect(c))
    /\ SF_allVars(AutoClose)

-----------------------------------------------------------------------------
(* Properties. *)

\* Every variable has its type.
DevTypeOK ==
    /\ devices \in Inventory
    /\ {g_video_capture_id, vid_cap_dev} \subseteq Range(devices) \cup {NoDev}
    /\ updated \in BOOLEAN
    /\ st \in [Call -> {"free", "out", "in", "apply", "connect", "live"}]
    /\ by \in [Call -> {"none", "main", "worker"}]
    /\ cap \in [Call -> Range(devices) \cup {NoDev}]
    /\ cap_dev \in [Call -> Range(devices) \cup {NoDev}]
    /\ mark \in [Call -> {"old", "fresh", "missed"}]
    /\ dpc \in {"idle", "vid", "close", "select"}
    /\ {asked, selected} \subseteq Audio /\ snd \in Audio \cup {Closed}
    /\ {no_snd, snd_failed, timer} \subseteq BOOLEAN

\* device.c, account.c: neither a selection nor the default is ever a device that
\* cannot capture, so no account and no call is left with "a video stream
\* that never carries a picture", also where no camera is there.
NeverTheRenderer ==
    LET used == {g_video_capture_id, vid_cap_dev} \cup Range(cap)
    IN  used \subseteq Capturing \cup {NoDev}

\* docs/PROTOCOL.md "device.set_video": it "selects the capture device used by
\* subsequent video-enabled calls".  A call set up after the command returned
\* captures from no other device at any time, not even before its media state
\* is handled, if the account took the selection; if it did not, the call
\* has the device when its media state has been handled.  In between the
\* account may be removed and configured, and calls may come in on the
\* worker while the command is under way.
SelectionReachesCalls ==
    \A c \in Call :
        g_video_capture_id # NoDev /\ cap[c] # NoDev =>
            /\ mark[c] = "fresh" => cap[c] = g_video_capture_id
            /\ mark[c] = "missed" /\ st[c] \in {"connect", "live"} =>
                   cap[c] = g_video_capture_id

\* pjsocky_device_set_audio(): a call whose audio is connected has the sound
\* device selected last, unless pjsua failed to open one: the look at the
\* number of calls and the closing are two steps, but no call gets audio in
\* between, and "no sound" does not outlive the command.
CallHasSound ==
    /\ dpc = "idle" => ~no_snd
    /\ (\E c \in Call : st[c] = "live") =>
           snd = selected \/ snd_failed

\* device.c: "the device is open exactly while there is audio to carry"; a sound
\* device open without a call closes, or a call comes.
IdleDeviceCloses == snd # Closed /\ NoCalls ~> snd = Closed \/ ~NoCalls
=============================================================================
