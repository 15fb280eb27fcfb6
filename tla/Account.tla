------------------------------ MODULE Account ------------------------------
(***************************************************************************)
(* src/account.c: the one SIP account and the daemon's own idea of whether *)
(* it is registered.  Commands run on the main thread; on_reg_state2 runs *)
(* on pjsua's worker thread, which holds pjsua's lock for the whole of    *)
(* the callback, including the time it waits to push the event.           *)
(*                                                                        *)
(* pjsua itself is external and modelled from how account.c uses it: an   *)
(* account has at most one REGISTER or un-REGISTER outstanding (another   *)
(* one is refused as busy), its outcome is reported by one callback, an   *)
(* established registration is refreshed by pjsua on its own, and         *)
(* pjsua_acc_del() cancels what is outstanding.                           *)
(***************************************************************************)
EXTENDS Integers

CONSTANTS AccId,      \* ids pjsua_acc_add() can return
          NoAcc       \* PJSUA_INVALID_ID

ASSUME AccAssumption == NoAcc \notin AccId

VARIABLES
    g_acc_id,      \* the configured account, or NoAcc
    g_registered,  \* the daemon's flag
    acc,           \* pjsua: the account that exists, or NoAcc
    pending,       \* pjsua: the request outstanding: "none", "reg", "unreg"
    wanted,        \* pjsua: registration is to be kept up (refreshed)
    bound,         \* pjsua: the last completed request of acc was a REGISTER
                   \*        that succeeded
    plock,         \* holder of pjsua's lock: "none" or "worker"
    mpc,           \* main thread: "idle", or inside account.remove
    wpc,           \* worker thread: "idle", or "push" inside the callback
    outcome,       \* what the callback in progress reports
    event          \* the last reg_state event: what it reported and its flag

vars == <<g_acc_id, g_registered, acc, pending, wanted, bound, plock, mpc, wpc,
          outcome, event>>
pjsua == <<acc, pending, wanted, bound>>
callback == <<plock, wpc, outcome, event>>

Outcome == [renew : BOOLEAN, ok : BOOLEAN]
None == [renew |-> FALSE, ok |-> FALSE]

Init ==
    /\ g_acc_id = NoAcc /\ g_registered = FALSE
    /\ acc = NoAcc /\ pending = "none" /\ wanted = FALSE /\ bound = FALSE
    /\ plock = "none" /\ mpc = "idle" /\ wpc = "idle"
    /\ outcome = None
    /\ event = [outcome |-> None, registered |-> FALSE]

-----------------------------------------------------------------------------
(* Commands, on the main thread. *)

\* account.configure with an account present is refused (PJ_EEXISTS);
\* otherwise the flag is cleared first and pjsua_acc_add() may still fail.
Configure ==
    /\ mpc = "idle" /\ g_acc_id = NoAcc /\ plock = "none"
    /\ g_registered' = FALSE
    /\ \/ \E a \in AccId :
            /\ g_acc_id' = a /\ acc' = a
            /\ pending' = "none" /\ wanted' = FALSE /\ bound' = FALSE
       \/ UNCHANGED <<g_acc_id, pjsua>>
    /\ UNCHANGED <<mpc, callback>>

\* account.register and account.unregister: pjsua_acc_set_registration()
\* queues the request, or refuses it while another one is outstanding.
SetRegistration(renew) ==
    /\ mpc = "idle" /\ g_acc_id # NoAcc /\ plock = "none"
    /\ pending = "none"
    /\ pending' = IF renew THEN "reg" ELSE "unreg"
    /\ wanted' = renew
    /\ UNCHANGED <<g_acc_id, g_registered, acc, bound, mpc, callback>>

Register == SetRegistration(TRUE)
Unregister == SetRegistration(FALSE)

\* account.remove: the flag is read without a lock ...
RemoveCheck ==
    /\ mpc = "idle" /\ g_acc_id # NoAcc
    /\ ~g_registered
    /\ mpc' = "del"
    /\ UNCHANGED <<g_acc_id, g_registered, pjsua, callback>>

\* Mutant of RemoveDel: the deletion does not wait for a callback in progress.
RemoveDelAtOnce ==
    /\ mpc = "del"
    /\ \/ /\ acc' = NoAcc /\ pending' = "none"
          /\ wanted' = FALSE /\ bound' = FALSE
          /\ mpc' = "clear"
       \/ mpc' = "idle" /\ UNCHANGED pjsua
    /\ UNCHANGED <<g_acc_id, g_registered, callback>>

\* ... pjsua_acc_del() waits for pjsua's lock, and may fail ...
RemoveDel ==
    /\ mpc = "del" /\ plock = "none"
    /\ \/ /\ acc' = NoAcc /\ pending' = "none"
          /\ wanted' = FALSE /\ bound' = FALSE
          /\ mpc' = "clear"
       \/ mpc' = "idle" /\ UNCHANGED pjsua
    /\ UNCHANGED <<g_acc_id, g_registered, callback>>

\* Mutant of RemoveClear: the flag of the removed account stays.
RemoveKeepsFlag ==
    /\ mpc = "clear"
    /\ g_acc_id' = NoAcc
    /\ mpc' = "idle"
    /\ UNCHANGED <<g_registered, pjsua, callback>>

\* ... and only then are the daemon's variables cleared.
RemoveClear ==
    /\ mpc = "clear"
    /\ g_acc_id' = NoAcc /\ g_registered' = FALSE
    /\ mpc' = "idle"
    /\ UNCHANGED <<pjsua, callback>>

-----------------------------------------------------------------------------
(* pjsua and its worker thread. *)

\* The refresh timer of an established registration, or a retry.
Refresh ==
    /\ wpc = "idle" /\ plock = "none"
    /\ acc # NoAcc /\ wanted /\ pending = "none"
    /\ pending' = "reg"
    /\ UNCHANGED <<g_acc_id, g_registered, acc, wanted, bound, mpc, callback>>

\* The outstanding request completes, which settles pjsua's own state, and
\* on_reg_state2 sets the flag ...  Its pjsua_acc_get_info() fails only for an
\* account that does not exist; this one does, for pjsua's lock is held.
OnRegState2 ==
    /\ wpc = "idle" /\ plock = "none" /\ acc # NoAcc /\ pending # "none"
    /\ plock' = "worker" /\ wpc' = "push"
    /\ pending' = "none"
    /\ \E ok \in BOOLEAN :
        /\ outcome' = [renew |-> pending = "reg", ok |-> ok]
        /\ bound' = (pending = "reg" /\ ok)
    /\ g_registered' = (outcome'.renew /\ outcome'.ok)
    /\ UNCHANGED <<g_acc_id, acc, wanted, mpc, event>>

\* ... and pushes the event, whose builder reads the flag again.
PushRegState ==
    /\ wpc = "push"
    /\ event' = [outcome |-> outcome, registered |-> g_registered]
    /\ plock' = "none" /\ wpc' = "idle"
    /\ UNCHANGED <<g_acc_id, g_registered, pjsua, mpc, outcome>>

Next ==
    \/ Configure \/ Register \/ Unregister
    \/ RemoveCheck \/ RemoveDel \/ RemoveClear
    \/ Refresh \/ OnRegState2 \/ PushRegState

Spec == Init /\ [][Next]_vars

-----------------------------------------------------------------------------
(* Properties. *)

\* Every variable has its type.
TypeOK ==
    /\ g_acc_id \in AccId \cup {NoAcc} /\ acc \in AccId \cup {NoAcc}
    /\ g_registered \in BOOLEAN /\ wanted \in BOOLEAN /\ bound \in BOOLEAN
    /\ pending \in {"none", "reg", "unreg"}
    /\ plock \in {"none", "worker"}
    /\ mpc \in {"idle", "del", "clear"} /\ wpc \in {"idle", "push"}
    /\ outcome \in Outcome
    /\ event \in [outcome : Outcome, registered : BOOLEAN]

\* account.h: the flag says "whether the last completed registration action
\* was a successful REGISTER" - of the account configured now: whenever a
\* command can look, it equals pjsua's own knowledge, and no result of a
\* removed account is left in it, even when REGISTER succeeds while
\* account.remove is under way.
FlagIsTheRegistration ==
    mpc # "clear" => g_acc_id = acc /\ (g_registered <=> acc # NoAcc /\ bound)

\* build_reg_state_data(): a reg_state event's "registered" is the outcome it
\* reports ("true only if this attempt was a REGISTER [...] that got a 2xx
\* response"), although the builder reads the global flag, perhaps long
\* after the callback set it.
EventTellsTheOutcome ==
    event.registered <=> event.outcome.renew /\ event.outcome.ok

-----------------------------------------------------------------------------
(* A further claim of the documentation, which TLC refutes on this module by *)
(* a REGISTER that succeeds between RemoveCheck and RemoveDel.               *)

\* account.c: "refuse while registered rather than silently un-REGISTERing on
\* the client's behalf"; docs/PROTOCOL.md "account.remove": "Valid only when
\* not registered".
RemoveOnlyUnregistered ==
    [][acc # NoAcc /\ acc' = NoAcc => ~bound]_vars
=============================================================================
