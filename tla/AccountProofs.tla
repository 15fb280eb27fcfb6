--------------------------- MODULE AccountProofs ---------------------------
(***************************************************************************)
(* Proofs about Account, for every set of account ids.  The two safety    *)
(* properties depend on each other and on pjsua's lock: as long as the    *)
(* worker is inside on_reg_state2 it holds the lock, the flag it set is   *)
(* still the outcome it is about to report, and account.remove has not    *)
(* got past pjsua_acc_del().                                              *)
(***************************************************************************)
EXTENDS Account, TLAPS

\* The worker holds pjsua's lock exactly while it is in the callback, and the
\* flag is then the outcome it is going to push.
CallbackHoldsLock ==
    /\ plock = "worker" <=> wpc = "push"
    /\ wpc = "push" => (g_registered <=> outcome.renew /\ outcome.ok)

\* Between pjsua_acc_del() and the clearing of the daemon's variables there is
\* no account, so nothing can be reported.
NothingAfterDelete == mpc = "clear" => acc = NoAcc /\ wpc = "idle"

\* The inductive invariant.
IInv ==
    /\ TypeOK /\ FlagIsTheRegistration /\ EventTellsTheOutcome
    /\ CallbackHoldsLock /\ NothingAfterDelete

\* The initial state of account.c and of pjsua satisfies the invariant.
LEMMA InitEstablishes == Init => IInv
<1> SUFFICES ASSUME Init PROVE IInv
  OBVIOUS
<1>1. TypeOK
  BY DEF Init, TypeOK, Outcome, None
<1>2. FlagIsTheRegistration
  BY DEF Init, FlagIsTheRegistration
<1>3. EventTellsTheOutcome
  BY DEF Init, EventTellsTheOutcome, None
<1>4. CallbackHoldsLock /\ NothingAfterDelete
  BY DEF Init, CallbackHoldsLock, NothingAfterDelete
<1> QED
  BY <1>1, <1>2, <1>3, <1>4 DEF IInv

\* Every command and every pjsua step preserves the invariant.
LEMMA StepPreserves == IInv /\ [Next]_vars => IInv'
<1> SUFFICES ASSUME IInv, [Next]_vars PROVE IInv'
  OBVIOUS
<1> USE AccAssumption
    DEF IInv, TypeOK, FlagIsTheRegistration, EventTellsTheOutcome,
        CallbackHoldsLock, NothingAfterDelete, Outcome
<1>1. CASE Configure
  <2>1. TypeOK'
    BY <1>1 DEF Configure, pjsua, callback
  <2>2. FlagIsTheRegistration'
    BY <1>1 DEF Configure, pjsua
  <2>3. EventTellsTheOutcome' /\ CallbackHoldsLock' /\ NothingAfterDelete'
    BY <1>1 DEF Configure, callback
  <2> QED
    BY <2>1, <2>2, <2>3
<1>2. CASE Register \/ Unregister
  <2>1. PICK renew \in BOOLEAN : SetRegistration(renew)
    BY <1>2 DEF Register, Unregister
  <2>2. TypeOK'
    BY <2>1 DEF SetRegistration, callback
  <2>3. FlagIsTheRegistration'
    BY <2>1 DEF SetRegistration
  <2>4. EventTellsTheOutcome' /\ CallbackHoldsLock' /\ NothingAfterDelete'
    BY <2>1 DEF SetRegistration, callback
  <2> QED
    BY <2>2, <2>3, <2>4
<1>3. CASE RemoveCheck
  BY <1>3 DEF RemoveCheck, pjsua, callback
<1>4. CASE RemoveDel
  <2>1. TypeOK' /\ CallbackHoldsLock' /\ NothingAfterDelete'
    BY <1>4 DEF RemoveDel, pjsua, callback
  <2>2. FlagIsTheRegistration'
    BY <1>4 DEF RemoveDel, pjsua
  <2>3. EventTellsTheOutcome'
    BY <1>4 DEF RemoveDel, callback
  <2> QED
    BY <2>1, <2>2, <2>3
<1>5. CASE RemoveClear
  BY <1>5 DEF RemoveClear, pjsua, callback
<1>6. CASE Refresh
  BY <1>6 DEF Refresh, callback
<1>7. CASE OnRegState2
  BY <1>7 DEF OnRegState2
<1>8. CASE PushRegState
  BY <1>8 DEF PushRegState, pjsua
<1>9. CASE UNCHANGED vars
  BY <1>9 DEF vars
<1> QED
  BY <1>1, <1>2, <1>3, <1>4, <1>5, <1>6, <1>7, <1>8, <1>9 DEF Next

\* IInv holds in every reachable state.
THEOREM InductiveInvariant == Spec => []IInv
  BY InitEstablishes, StepPreserves, PTL DEF Spec

\* Every variable of account.c and of the model of pjsua keeps its type.
THEOREM TypeCorrect == Spec => []TypeOK
<1>1. IInv => TypeOK
  BY DEF IInv
<1> QED
  BY <1>1, InductiveInvariant, PTL

\* g_registered is the registration of the configured account whenever a
\* command can look at it, for every number of account ids.
THEOREM FlagCorrect == Spec => []FlagIsTheRegistration
<1>1. IInv => FlagIsTheRegistration
  BY DEF IInv
<1> QED
  BY <1>1, InductiveInvariant, PTL

\* Every reg_state event tells the outcome it reports.
THEOREM EventCorrect == Spec => []EventTellsTheOutcome
<1>1. IInv => EventTellsTheOutcome
  BY DEF IInv
<1> QED
  BY <1>1, InductiveInvariant, PTL
=============================================================================
