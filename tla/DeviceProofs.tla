---------------------------- MODULE DeviceProofs ----------------------------
(***************************************************************************)
(* Proofs about Device, for any number of calls, devices and enumerations. *)
(* With devices or without, the account does nothing new, so what         *)
(* AccountProofs shows of it holds here too, and is needed: that           *)
(* g_acc_id is the account pjsua has is why a selection made without an    *)
(* account can wait for account.configure.                                *)
(***************************************************************************)
EXTENDS Device, AccountProofs

-----------------------------------------------------------------------------
(* The composition implements Account. *)

\* Every step of the composition is one of the account's, or leaves it alone.
LEMMA StepOfAccount == [DevNext]_allVars => [Next]_vars
<1> SUFFICES ASSUME [DevNext]_allVars PROVE [Next]_vars
  OBVIOUS
<1>1. CASE DevConfigure \/ DevAccountCommand \/ DevRemove \/ DevRegCallback
             \/ DevPushRegState
  BY <1>1 DEF DevConfigure, DevAccountCommand, DevRemove, DevRegCallback,
              DevPushRegState, Next
<1>2. CASE \E d \in Capturing \cup Range(devices) : SetVideo(d)
  BY <1>2 DEF SetVideo
<1>3. ASSUME NEW c \in Call, CallStep(c) PROVE UNCHANGED vars
  BY <1>3 DEF CallStep, Setup, MediaUp, Apply, Connect, End
<1>4. CASE \E d \in Audio : SetAudio(d)
  BY <1>4 DEF SetAudio
<1>5. CASE UpdateAccount \/ CloseIdle \/ Select \/ AutoClose
  BY <1>5 DEF UpdateAccount, CloseIdle, Select, AutoClose
<1>6. CASE UNCHANGED allVars
  BY <1>6 DEF allVars
<1> QED
  BY <1>1, <1>2, <1>3, <1>4, <1>5, <1>6 DEF DevNext

\* device.c and the calls are an environment account.c is correct in.
THEOREM ImplementsAccount == DevSpec => Spec
<1>1. DevInit => Init
  BY DEF DevInit
<1> QED
  BY <1>1, StepOfAccount, PTL DEF DevSpec, Spec

-----------------------------------------------------------------------------
(* The inductive invariant. *)

\* When no device.set_video is under way the account has the selection, unless
\* pjsua did not take it.  It keeps it for the calls set up since, also when
\* it is removed, for video that is added to them.
AccountFollows ==
    /\ g_video_capture_id # NoDev
    /\ \/ acc # NoAcc /\ updated /\ dpc # "vid"
       \/ \E c \in Call : mark[c] = "fresh"
    => vid_cap_dev = g_video_capture_id

\* on_call_media_state carries the selection to a call set up after it.
CopyIsCurrent ==
    \A c \in Call :
        st[c] = "apply" /\ mark[c] # "old" => cap_dev[c] = g_video_capture_id

\* What a call will change to is a camera as well.
CopyCaptures == \A c \in Call : cap_dev[c] \in Capturing \cup {NoDev}

\* While device.set_audio is about to close the sound device, and until it has
\* selected another, no call can get to its audio: media of an outgoing call or
\* an answer would need the main thread, which is busy.
Quiet == \A c \in Call : st[c] \in {"free", "in"}
ClosingIsQuiet ==
    /\ dpc = "close" => Quiet
    /\ no_snd => dpc = "select" /\ Quiet

\* What is open is what is selected, and the timer runs only without calls
\* whose audio is connected.
SoundFollows ==
    /\ snd # Closed => snd = selected
    /\ timer => \A c \in Call : st[c] # "live"

VideoInv == AccountFollows /\ CopyIsCurrent /\ CopyCaptures
            /\ NeverTheRenderer /\ SelectionReachesCalls
SoundInv == ClosingIsQuiet /\ SoundFollows /\ CallHasSound

DevIInv == IInv /\ DevTypeOK /\ VideoInv /\ SoundInv

\* The inductive invariant holds when the daemon is up.
LEMMA DevInitEstablishes == DevInit => DevIInv
<1> SUFFICES ASSUME DevInit PROVE DevIInv
  OBVIOUS
<1> USE DevAssumption DEF DevInit
<1>1. IInv
  BY InitEstablishes
<1>2. DevTypeOK
  BY DEF DevTypeOK
<1>3. VideoInv
  BY DEF VideoInv, AccountFollows, CopyIsCurrent, CopyCaptures, NeverTheRenderer,
         SelectionReachesCalls, Range
<1>4. SoundInv
  BY DEF SoundInv, ClosingIsQuiet, Quiet, SoundFollows, CallHasSound
<1> QED
  BY <1>1, <1>2, <1>3, <1>4 DEF DevIInv

\* NeverTheRenderer, call by call.
LEMMA CamerasOnly ==
    ASSUME DOMAIN cap = Call
    PROVE  NeverTheRenderer <=>
             /\ g_video_capture_id \in Capturing \cup {NoDev}
             /\ vid_cap_dev \in Capturing \cup {NoDev}
             /\ \A c \in Call : cap[c] \in Capturing \cup {NoDev}
  BY DEF NeverTheRenderer, Range

\* The same of the next state.
LEMMA CamerasOnlyNext ==
    ASSUME DOMAIN cap' = Call
    PROVE  NeverTheRenderer' <=>
             /\ g_video_capture_id' \in Capturing \cup {NoDev}
             /\ vid_cap_dev' \in Capturing \cup {NoDev}
             /\ \A c \in Call : cap'[c] \in Capturing \cup {NoDev}
  BY DEF NeverTheRenderer, Range

-----------------------------------------------------------------------------
(* Each action preserves the invariant. *)

\* The account's own steps, the choice of its first capture device included.
LEMMA AccountPreserves ==
    ASSUME DevIInv, IInv',
           \/ DevConfigure \/ DevAccountCommand \/ DevRemove
           \/ DevRegCallback \/ DevPushRegState
    PROVE  DevIInv'
<1>1. CASE DevConfigure
  <2>1. UNCHANGED <<devices, g_video_capture_id, calls, dpc, audio>>
    BY <1>1 DEF DevConfigure
  <2>2. acc' # acc => vid_cap_dev' \in DefaultCapDevs /\ updated'
    BY <1>1 DEF DevConfigure
  <2>3. acc' = acc => vid_cap_dev' = vid_cap_dev /\ updated' = updated
    BY <1>1 DEF DevConfigure, DevIInv, DevTypeOK
  <2>4. DefaultCapDevs \subseteq (Capturing \cup {NoDev}) \cap (Range(devices) \cup {NoDev})
    BY CamerasOnly DEF DefaultCapDevs, FirstCapture, Range, DevIInv, DevTypeOK, VideoInv
  <2>5. vid_cap_dev' \in Range(devices) \cup {NoDev} /\ updated' \in BOOLEAN
    BY <1>1, <2>2, <2>3, <2>4 DEF DevConfigure, DevIInv, DevTypeOK
  <2>6. DevTypeOK'
    BY <2>1, <2>5 DEF DevIInv, DevTypeOK, calls, audio
  <2>7. vid_cap_dev' \in Capturing \cup {NoDev}
    BY <2>2, <2>3, <2>4, CamerasOnly DEF DevIInv, DevTypeOK, VideoInv
  <2>8. AccountFollows'
    BY <2>1, <2>2, <2>3 DEF DefaultCapDevs, AccountFollows, DevIInv, VideoInv, calls
  <2>9. VideoInv'
    BY <2>1, <2>7, <2>8, CamerasOnly, CamerasOnlyNext
    DEF DevIInv, DevTypeOK, VideoInv, CopyIsCurrent, CopyCaptures,
        SelectionReachesCalls, calls
  <2>10. SoundInv'
    BY <2>1 DEF DevIInv, SoundInv, ClosingIsQuiet, Quiet, SoundFollows, CallHasSound,
                calls, audio
  <2> QED
    BY <2>6, <2>9, <2>10 DEF DevIInv
<1>2. CASE DevAccountCommand \/ DevRemove \/ DevRegCallback \/ DevPushRegState
  <2>1. UNCHANGED devVars
    BY <1>2 DEF DevAccountCommand, DevRemove, DevRegCallback, DevPushRegState
  <2>2. acc' # NoAcc => acc # NoAcc
    BY <1>2 DEF DevAccountCommand, DevRemove, DevRegCallback, DevPushRegState, Register,
        Unregister, SetRegistration, RemoveCheck, RemoveDel, RemoveClear,
        Refresh, OnRegState2, PushRegState, pjsua
  <2>3. DevTypeOK' /\ VideoInv'
    BY <2>1, <2>2 DEF DevIInv, DevTypeOK, VideoInv, AccountFollows, CopyIsCurrent,
        CopyCaptures, NeverTheRenderer, SelectionReachesCalls, devVars, video,
        calls, audio
  <2>4. SoundInv'
    BY <2>1 DEF DevIInv, SoundInv, ClosingIsQuiet, Quiet, SoundFollows, CallHasSound,
        devVars, calls, audio
  <2> QED
    BY <2>3, <2>4 DEF DevIInv
<1> QED
  BY <1>1, <1>2

\* device.set_video.
LEMMA SetVideoPreserves ==
    ASSUME DevIInv, IInv', NEW d, SetVideo(d) \/ UpdateAccount
    PROVE  DevIInv'
<1>1. SoundInv'
  BY DEF SetVideo, UpdateAccount, MainFree, DevIInv, SoundInv, ClosingIsQuiet, Quiet,
         SoundFollows, CallHasSound, calls, audio
<1>2. CASE SetVideo(d)
  <2>1. DevTypeOK'
    BY <1>2 DEF SetVideo, Selectable, DevIInv, DevTypeOK, audio
  <2>2. NeverTheRenderer'
    BY <1>2, CamerasOnly, CamerasOnlyNext DEF SetVideo, Selectable, DevIInv, DevTypeOK,
       VideoInv
  <2>3. AccountFollows'
    BY <1>2 DEF SetVideo, MainFree, AccountFollows, DevIInv, IInv,
                FlagIsTheRegistration, vars
  <2>4. CopyIsCurrent' /\ CopyCaptures' /\ SelectionReachesCalls'
    BY <1>2 DEF SetVideo, CopyIsCurrent, CopyCaptures, SelectionReachesCalls, DevIInv,
                VideoInv
  <2> QED
    BY <1>1, <2>1, <2>2, <2>3, <2>4 DEF DevIInv, VideoInv
<1>3. CASE UpdateAccount
  <2>1. DevTypeOK'
    BY <1>3 DEF UpdateAccount, DevIInv, DevTypeOK, calls, audio
  <2>2. NeverTheRenderer'
    BY <1>3, CamerasOnly, CamerasOnlyNext DEF UpdateAccount, DevIInv, DevTypeOK, VideoInv,
       calls
  <2>3. AccountFollows' /\ CopyIsCurrent' /\ CopyCaptures' /\ SelectionReachesCalls'
    BY <1>3 DEF UpdateAccount, AccountFollows, CopyIsCurrent, CopyCaptures,
                SelectionReachesCalls, DevIInv, VideoInv, calls
  <2> QED
    BY <1>1, <2>1, <2>2, <2>3 DEF DevIInv, VideoInv
<1> QED
  BY <1>2, <1>3

\* device.set_audio and the timer.
LEMMA SoundPreserves ==
    ASSUME DevIInv, IInv', NEW d \in Audio,
           SetAudio(d) \/ CloseIdle \/ Select \/ AutoClose
    PROVE  DevIInv'
<1>1. /\ UNCHANGED <<vars, video, calls>> /\ dpc' \in {dpc, "idle", "close", "select"}
      /\ dpc' # "vid" => dpc # "vid"
  BY DEF SetAudio, CloseIdle, Select, AutoClose, MainFree, LeftOpen
<1>2. VideoInv'
  BY <1>1 DEF DevIInv, VideoInv, AccountFollows, CopyIsCurrent, CopyCaptures,
      NeverTheRenderer, SelectionReachesCalls, vars, video, calls
<1> USE DevAssumption
<1>3. CASE SetAudio(d)
  <2>1. DevTypeOK'
    BY <1>3 DEF SetAudio, DevIInv, DevTypeOK, video, calls
  <2>2. SoundInv'
    BY <1>3 DEF SetAudio, LeftOpen, NoCalls, MainFree, DevIInv, DevTypeOK, SoundInv,
        ClosingIsQuiet, Quiet, SoundFollows, CallHasSound, calls
  <2> QED
    BY <1>2, <2>1, <2>2 DEF DevIInv
<1>4. CASE CloseIdle
  <2>1. DevTypeOK'
    BY <1>4 DEF CloseIdle, DevIInv, DevTypeOK, video, calls
  <2>2. SoundInv'
    BY <1>4 DEF CloseIdle, DevIInv, DevTypeOK, SoundInv, ClosingIsQuiet, Quiet,
        SoundFollows, CallHasSound, calls
  <2> QED
    BY <1>2, <2>1, <2>2 DEF DevIInv
<1>5. CASE Select
  <2>1. DevTypeOK'
    BY <1>5 DEF Select, Open, DevIInv, DevTypeOK, video, calls
  <2>2. SoundInv'
    BY <1>5 DEF Select, Open, DevIInv, DevTypeOK, SoundInv, ClosingIsQuiet, Quiet,
        SoundFollows, CallHasSound, calls
  <2> QED
    BY <1>2, <2>1, <2>2 DEF DevIInv
<1>6. CASE AutoClose
  <2>1. DevTypeOK'
    BY <1>6 DEF AutoClose, DevIInv, DevTypeOK, video, calls
  <2>2. SoundInv'
    BY <1>6 DEF AutoClose, DevIInv, DevTypeOK, SoundInv, ClosingIsQuiet, Quiet,
        SoundFollows, CallHasSound, calls
  <2> QED
    BY <1>2, <2>1, <2>2 DEF DevIInv
<1> QED
  BY <1>3, <1>4, <1>5, <1>6

\* A call is set up, gets its media, takes the selection, is connected, ends.
LEMMA CallPreserves ==
    ASSUME DevIInv, IInv', NEW c \in Call, CallStep(c)
    PROVE  DevIInv'
<1> USE DevAssumption
<1>1. ASSUME NEW dir \in {"out", "in"}, Setup(c, dir) PROVE DevIInv'
  <2>1. DevTypeOK'
    BY <1>1 DEF Setup, Mark, DevIInv, DevTypeOK, video, audio
  <2>2. NeverTheRenderer'
    BY <1>1, <2>1, CamerasOnly, CamerasOnlyNext
    DEF Setup, DevIInv, DevTypeOK, VideoInv, video
  <2>3. AccountFollows' /\ CopyIsCurrent' /\ CopyCaptures'
    <3>1. AccountFollows'
      BY <1>1 DEF Setup, Mark, DevIInv, DevTypeOK, VideoInv, AccountFollows, vars, video
    <3> QED
      BY <1>1, <3>1 DEF Setup, DevIInv, DevTypeOK, VideoInv, CopyIsCurrent, CopyCaptures,
          vars, video
  <2>4. SelectionReachesCalls'
    BY <1>1 DEF Setup, Mark, DevIInv, DevTypeOK, VideoInv, AccountFollows,
        SelectionReachesCalls, video
  <2>5. SoundInv'
    BY <1>1 DEF Setup, MainFree, DevIInv, DevTypeOK, SoundInv, ClosingIsQuiet, Quiet,
        SoundFollows, CallHasSound, audio
  <2> QED
    BY <2>1, <2>2, <2>3, <2>4, <2>5 DEF DevIInv, VideoInv
<1>2. CASE MediaUp(c)
  <2>1. DevTypeOK'
    BY <1>2 DEF MediaUp, DevIInv, DevTypeOK, video, audio
  <2>2. NeverTheRenderer' /\ CopyCaptures'
    BY <1>2, <2>1, CamerasOnly, CamerasOnlyNext
    DEF MediaUp, DevIInv, DevTypeOK, VideoInv, CopyCaptures, video
  <2>3. AccountFollows' /\ CopyIsCurrent' /\ SelectionReachesCalls'
    BY <1>2 DEF MediaUp, DevIInv, DevTypeOK, VideoInv, AccountFollows, CopyIsCurrent,
        SelectionReachesCalls, vars, video
  <2>4. SoundInv'
    BY <1>2 DEF MediaUp, MainFree, DevIInv, DevTypeOK, SoundInv, ClosingIsQuiet,
        Quiet, SoundFollows, CallHasSound, audio
  <2> QED
    BY <2>1, <2>2, <2>3, <2>4 DEF DevIInv, VideoInv
<1>3. CASE Apply(c)
  <2>1. DevTypeOK'
    BY <1>3 DEF Apply, DevIInv, DevTypeOK, video, audio
  <2>2. NeverTheRenderer' /\ CopyCaptures'
    BY <1>3, <2>1, CamerasOnly, CamerasOnlyNext
    DEF Apply, DevIInv, DevTypeOK, VideoInv, CopyCaptures, video
  <2>3. AccountFollows' /\ CopyIsCurrent' /\ SelectionReachesCalls'
    BY <1>3 DEF Apply, DevIInv, DevTypeOK, VideoInv, AccountFollows, CopyIsCurrent,
        SelectionReachesCalls, vars, video
  <2>4. SoundInv'
    BY <1>3 DEF Apply, DevIInv, DevTypeOK, SoundInv, ClosingIsQuiet, Quiet,
        SoundFollows, CallHasSound, audio
  <2> QED
    BY <2>1, <2>2, <2>3, <2>4 DEF DevIInv, VideoInv
<1>4. CASE Connect(c)
  <2>1. DevTypeOK'
    BY <1>4 DEF Connect, Open, DevIInv, DevTypeOK, video
  <2>2. VideoInv'
    BY <1>4 DEF Connect, DevIInv, DevTypeOK, VideoInv, AccountFollows, CopyIsCurrent,
        CopyCaptures, NeverTheRenderer, SelectionReachesCalls, vars, video
  <2>3. SoundInv'
    BY <1>4 DEF Connect, Open, DevIInv, DevTypeOK, SoundInv, ClosingIsQuiet, Quiet,
        SoundFollows, CallHasSound
  <2> QED
    BY <2>1, <2>2, <2>3 DEF DevIInv
<1>5. CASE End(c)
  <2>1. DevTypeOK'
    BY <1>5 DEF End, DevIInv, DevTypeOK, video
  <2>2. NeverTheRenderer' /\ CopyCaptures'
    BY <1>5, <2>1, CamerasOnly, CamerasOnlyNext
    DEF End, DevIInv, DevTypeOK, VideoInv, CopyCaptures, video
  <2>3. AccountFollows' /\ CopyIsCurrent' /\ SelectionReachesCalls'
    BY <1>5 DEF End, DevIInv, DevTypeOK, VideoInv, AccountFollows, CopyIsCurrent,
        SelectionReachesCalls, vars, video
  <2>4. SoundInv'
    BY <1>5 DEF End, DevIInv, DevTypeOK, SoundInv, ClosingIsQuiet, Quiet,
        SoundFollows, CallHasSound
  <2> QED
    BY <2>1, <2>2, <2>3, <2>4 DEF DevIInv, VideoInv
<1> QED
  BY <1>1, <1>2, <1>3, <1>4, <1>5 DEF CallStep

\* Every step preserves the inductive invariant.
LEMMA DevStepPreserves == DevIInv /\ [DevNext]_allVars => DevIInv'
<1> SUFFICES ASSUME DevIInv, [DevNext]_allVars PROVE DevIInv'
  OBVIOUS
<1>1. IInv'
  BY StepOfAccount, StepPreserves DEF DevIInv
<1>2. CASE UNCHANGED allVars
  BY <1>1, <1>2 DEF DevIInv, DevTypeOK, VideoInv, AccountFollows, CopyIsCurrent, CopyCaptures,
      NeverTheRenderer, SelectionReachesCalls, SoundInv, ClosingIsQuiet, Quiet,
      SoundFollows, CallHasSound, allVars, vars, devVars, video, calls, audio
<1>3. ASSUME NEW c \in Call, CallStep(c) PROVE DevIInv'
  BY <1>1, <1>3, CallPreserves
<1>4. ASSUME NEW d \in Audio, SetAudio(d) \/ CloseIdle \/ Select \/ AutoClose
      PROVE  DevIInv'
  BY <1>1, <1>4, SoundPreserves
<1>5. Audio # {}
  BY DEF DevIInv, DevTypeOK
<1>6. ASSUME NEW d, SetVideo(d) \/ UpdateAccount PROVE DevIInv'
  BY <1>1, <1>6, SetVideoPreserves
<1>7. CASE \/ DevConfigure \/ DevAccountCommand \/ DevRemove
           \/ DevRegCallback \/ DevPushRegState
  BY <1>1, <1>7, AccountPreserves
<1> QED
  BY <1>2, <1>3, <1>4, <1>5, <1>6, <1>7 DEF DevNext

-----------------------------------------------------------------------------
(* The theorems. *)

\* The inductive invariant holds in every reachable state of device.c, account.c
\* and the calls together.
THEOREM DevInvariance == DevSpec => []DevIInv
<1> QED
  BY DevInitEstablishes, DevStepPreserves, PTL DEF DevSpec

\* The state of device.c and of what pjsua keeps for it is well typed.
THEOREM DevTypeCorrect == DevSpec => []DevTypeOK
<1>1. DevIInv => DevTypeOK
  BY DEF DevIInv
<1> QED
  BY <1>1, DevInvariance, PTL

\* For any enumeration of devices, account.c's default and device.c's check keep
\* devices that cannot capture away from the account and from every call.
THEOREM RendererNeverUsed == DevSpec => []NeverTheRenderer
<1>1. DevIInv => NeverTheRenderer
  BY DEF DevIInv, VideoInv
<1> QED
  BY <1>1, DevInvariance, PTL

\* For any number of calls, device.set_video decides what calls after it capture
\* from.
THEOREM SelectionReaches == DevSpec => []SelectionReachesCalls
<1>1. DevIInv => SelectionReachesCalls
  BY DEF DevIInv, VideoInv
<1> QED
  BY <1>1, DevInvariance, PTL

\* For any number of calls, device.set_audio leaves none without its sound device.
THEOREM SoundReaches == DevSpec => []CallHasSound
<1>1. DevIInv => CallHasSound
  BY DEF DevIInv, SoundInv
<1> QED
  BY <1>1, DevInvariance, PTL
=============================================================================
