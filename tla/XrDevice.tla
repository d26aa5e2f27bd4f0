------------------------------ MODULE XrDevice ------------------------------
(***************************************************************************)
(* XrInputReceipt (tools/isaac_vr_decision.py) and the navigation-aware    *)
(* PiperXIsaacTeleopDevice (tools/isaac_s2_upstream.py): what one poll of  *)
(* the XR session is worth, and for how long.                              *)
(*                                                                         *)
(* The session and the physical-to-virtual transform belong to Kit and     *)
(* CloudXR and may change at any moment (XrChanges); matrix None is a      *)
(* transform that is unavailable, session 0 no session at all.             *)
(***************************************************************************)
EXTENDS Absent, Integers

CONSTANT Matrices   \* physical-to-virtual transforms
ASSUME MatricesAssumption == Matrices # {}

VARIABLES
    session,    \* TeleopSessionLifecycle._session, by number
    matrix,     \* what get_world_matrix returns
    receipt,    \* device.xr_receipt
    xrInput,    \* device.xr_input
    lastSeen,   \* device._last_navigation_transform
    recenter,   \* device._recenter_rebase_pending
    navigated   \* device.navigation_reset_applied

device == <<session, matrix, receipt, xrInput, lastSeen, recenter, navigated>>

Receipts == [session : Nat, sessions : Nat, reference : Nat, update : Nat,
             transform : Matrices \cup {None}, tracking : BOOLEAN, consumed : Nat]
Inputs == [session : Nat, reference : Nat, update : Nat,
           transform : Matrices, rebased : BOOLEAN, tracking : BOOLEAN]

DeviceTypeOK ==
    /\ session \in Nat /\ matrix \in Matrices \cup {None}
    /\ receipt \in Receipts
    /\ xrInput \in Inputs \cup {None}
    /\ lastSeen \in Matrices \cup {None}
    /\ recenter \in BOOLEAN /\ navigated \in BOOLEAN

\* As the first poll of the session left it.
DeviceInit ==
    /\ session = 1 /\ matrix = CHOOSE m \in Matrices : TRUE
    /\ receipt = [session |-> 1, sessions |-> 1, reference |-> 1, update |-> 1,
                  transform |-> matrix, tracking |-> TRUE, consumed |-> 0]
    /\ xrInput = None /\ lastSeen = matrix
    /\ recenter = FALSE /\ navigated = FALSE

\* XrInputReceipt.polled and .transformed, in the one pipeline step of a poll.
Polled(r, reset, tracked) ==
    LET replaced == session # r.session
        changed == reset \/ matrix # r.transform \/ tracked # r.tracking
    IN  [r EXCEPT !.session = session,
                  !.sessions = @ + (IF replaced THEN 1 ELSE 0),
                  !.reference = @ + (IF replaced THEN 1 ELSE 0) + (IF changed THEN 1 ELSE 0),
                  !.update = @ + 1, !.transform = matrix, !.tracking = tracked]

\* XrInputReceipt.resolve
Resolved(r, reset) ==
    [session |-> r.sessions, reference |-> r.reference, update |-> r.update,
     transform |-> r.transform, rebased |-> reset, tracking |-> r.tracking]

\* Relative history starts again: the first transform, another one, or the one
\* after a scheduled recenter.
Moved == recenter \/ lastSeen # matrix

\* device.advance() polls nothing: the transform is unavailable, or no session.
AdvanceIdle ==
    /\ xrInput' = None
    /\ \/ /\ matrix = None
          /\ lastSeen' = None /\ navigated' = FALSE
          /\ UNCHANGED <<receipt, recenter>>
       \/ /\ matrix # None /\ session = 0
          /\ navigated' = Moved
          /\ receipt' = IF Moved THEN [receipt EXCEPT !.reference = @ + 1] ELSE receipt
          /\ lastSeen' = matrix /\ recenter' = FALSE
    /\ UNCHANGED <<session, matrix>>

\* device.advance() polls: reset is the client's reset command, tracked whether
\* both grip poses are usable.
AdvancePolls(reset, tracked) ==
    /\ matrix # None /\ session # 0
    /\ navigated' = Moved
    /\ LET entered == IF Moved THEN [receipt EXCEPT !.reference = @ + 1] ELSE receipt
       IN  /\ receipt' = Polled(entered, reset \/ Moved, tracked)
           /\ xrInput' = Resolved(receipt', reset \/ Moved)
    /\ lastSeen' = matrix /\ recenter' = FALSE
    /\ UNCHANGED <<session, matrix>>

\* Mutant: whoever resolved an input may use it.
AnyInput(xr) == xr # None

\* device.validate_xr(xr) does not raise.
StillValid(xr) ==
    /\ xr.session = receipt.sessions /\ xr.reference = receipt.reference
    /\ xr.update = receipt.update /\ xr.update > receipt.consumed
    /\ session # 0 /\ session = receipt.session
    /\ matrix = xr.transform

\* device.reset(pause=False)
DeviceReset ==
    /\ receipt' = [receipt EXCEPT !.reference = @ + 1]
    /\ xrInput' = None
    /\ UNCHANGED <<session, matrix, lastSeen, recenter, navigated>>

\* device.schedule_recenter_to_view
ScheduleRecenter ==
    /\ recenter' = TRUE
    /\ receipt' = [receipt EXCEPT !.reference = @ + 1]
    /\ UNCHANGED <<session, matrix, xrInput, lastSeen, navigated>>

\* ik.apply: the decision's update is consumed.
Consume(xr) ==
    /\ receipt' = [receipt EXCEPT !.consumed = xr.update]
    /\ UNCHANGED <<session, matrix, xrInput, lastSeen, recenter, navigated>>

\* The headset leaves or returns, or the operator's space moves.
XrChanges ==
    /\ \/ /\ matrix' \in (Matrices \cup {None}) \ {matrix}
          /\ UNCHANGED session
       \/ /\ session' \in {0, receipt.session + 1} \ {session}
          /\ UNCHANGED matrix
    /\ UNCHANGED <<receipt, xrInput, lastSeen, recenter, navigated>>
=============================================================================
