----------------------------- MODULE NullVideo -----------------------------
(***************************************************************************)
(* src/null_video_dev.c: the video device that discards what it is to     *)
(* render.  pjsua opens it for the window of a call's incoming video and  *)
(* for the preview of its own camera, at a guessed size; the true size    *)
(* comes with the first frame, and may change at any time after that.     *)
(*                                                                        *)
(* pjmedia's video port is external, modelled from what the comments of   *)
(* factory_init() and stream_set_cap() say of it: told of a new size, it  *)
(* compares it with what the device reports and, where they differ, sets  *)
(* the device and then itself; if the device refuses, it goes back; and   *)
(* it rejects with VID_DEV_ERROR every frame that is not of its own size. *)
(***************************************************************************)
EXTENDS Naturals, Sequences

CONSTANTS Port,       \* pjmedia's ports: a window, a preview
          Format,     \* picture formats
          Default,    \* the format the device advertises
          NoFormat,   \* no stream
          MaxEvents   \* bound: format changes not yet handled, per port

ASSUME FormatAssumption ==
    Default \in Format /\ NoFormat \notin Format /\ MaxEvents \in Nat

VARIABLES
    param,     \* the null_vid_stream of each port: param.fmt, or NoFormat
    port_fmt,  \* the format the port expects, or NoFormat
    src_fmt,   \* the format of the frames that arrive, or NoFormat
    changes    \* FMT_CHANGED events on their way to the port

vars == <<param, port_fmt, src_fmt, changes>>

Init ==
    /\ param = [p \in Port |-> NoFormat]
    /\ port_fmt = [p \in Port |-> NoFormat]
    /\ src_fmt = [p \in Port |-> NoFormat]
    /\ changes = [p \in Port |-> <<>>]

Streaming(p) == param[p] # NoFormat

\* factory_default_param()
DefaultParam == [dir |-> "render", fmt |-> Default]

\* factory_create_stream(): any format, but only to render.
Creatable(prm) == prm.dir = "render"

\* A port is opened with the device's default or with a size that pjsua guessed.
CreateStream(p, prm) ==
    /\ ~Streaming(p) /\ Creatable(prm)
    /\ param' = [param EXCEPT ![p] = prm.fmt]
    /\ port_fmt' = [port_fmt EXCEPT ![p] = prm.fmt]
    /\ src_fmt' = [src_fmt EXCEPT ![p] = prm.fmt]
    /\ UNCHANGED changes

\* The decoder or the camera produces another format, and says so.
FormatChanges(p, f) ==
    /\ Streaming(p) /\ f # src_fmt[p] /\ Len(changes[p]) < MaxEvents
    /\ src_fmt' = [src_fmt EXCEPT ![p] = f]
    /\ changes' = [changes EXCEPT ![p] = Append(@, f)]
    /\ UNCHANGED <<param, port_fmt>>

\* stream_get_param()
GetParam(p) == param[p]

\* Mutant of SetCap: the new format is acknowledged, not remembered.
SetCapForgets(p, f) == UNCHANGED param

\* stream_set_cap(PJMEDIA_VID_DEV_CAP_FORMAT)
SetCap(p, f) == param' = [param EXCEPT ![p] = f]

\* pjmedia: the port hears of the new format.
HandleFormatChange(p) ==
    /\ Streaming(p) /\ changes[p] # <<>>
    /\ LET f == Head(changes[p])
       IN  \/ GetParam(p) = f /\ UNCHANGED <<param, port_fmt>>
           \/ /\ GetParam(p) # f
              /\ SetCap(p, f)
              /\ port_fmt' = [port_fmt EXCEPT ![p] = f]
    /\ changes' = [changes EXCEPT ![p] = Tail(@)]
    /\ UNCHANGED src_fmt

\* stream_destroy(), with the port.
Destroy(p) ==
    /\ Streaming(p)
    /\ param' = [param EXCEPT ![p] = NoFormat]
    /\ port_fmt' = [port_fmt EXCEPT ![p] = NoFormat]
    /\ src_fmt' = [src_fmt EXCEPT ![p] = NoFormat]
    /\ changes' = [changes EXCEPT ![p] = <<>>]

Param == {DefaultParam} \cup [dir : {"render", "capture"}, fmt : Format]

Next ==
    \E p \in Port :
        \/ \E prm \in Param : CreateStream(p, prm)
        \/ \E f \in Format : FormatChanges(p, f)
        \/ HandleFormatChange(p) \/ Destroy(p)

Spec == Init /\ [][Next]_vars

-----------------------------------------------------------------------------
(* Properties. *)

\* Every variable has its type.
TypeOK ==
    /\ {param, port_fmt, src_fmt} \subseteq [Port -> Format \cup {NoFormat}]
    /\ changes \in [Port -> Seq(Format)]
    /\ \A p \in Port : Len(changes[p]) <= MaxEvents

\* factory_init(): a port that does not follow "rejects every subsequent frame with
\* 'Unexpected frame size'".  After any history of format changes, a return to
\* an earlier one included, a port that has heard of all of them expects the
\* format of the frames that arrive, so the null renderer never causes a
\* VID_DEV_ERROR, which call.c would answer by taking video off the call.
RendererFollows ==
    \A p \in Port : Streaming(p) /\ changes[p] = <<>> => port_fmt[p] = src_fmt[p]
=============================================================================
