-------------------------- MODULE ControlTick_proofs --------------------------
(***************************************************************************)
(* Proofs about ControlTick, for any number of control steps, whatever the *)
(* headset, Kit and the cameras do between two stages: the rows of an      *)
(* episode are one unbroken stretch, no stale decision reaches the robots, *)
(* a handed-over episode is whole, and a reset is no camera regression.    *)
(***************************************************************************)
EXTENDS ControlTick, TLAPS, SequenceTheorems

-----------------------------------------------------------------------------
(* The invariant of a loop                                                 *)

States == Tokens \cup Captures
Decisions == [observed : States, xr : Inputs, tick : Nat]
Open == Episodes(Actions)

LoopTypeOK ==
    /\ recording \in Open \cup {None}
    /\ sealed # None => sealed.outcome \in Outcomes
    /\ pc \in Stages /\ steps \in 0..MaxSteps /\ tick \in 0..MaxSteps /\ index \in 0..MaxSteps
    /\ observed \in States \cup {None}
    /\ eligible \in BOOLEAN /\ prepared \in BOOLEAN
    /\ validator \in EpochValues \cup {None}

\* Ticks and episodes are counted once per step.
Counts ==
    /\ index <= tick /\ tick <= steps
    /\ pc \in {"poll", "command"} => tick < steps

\* What the stages of an eligible tick rely on.
Deciding ==
    /\ pc \in {"poll", "command"} => ~eligible
    /\ pc \in {"solve", "transaction"} => eligible
    /\ pc = "solve" => xrInput # None /\ observed # None
    /\ pc \in {"transaction", "apply"} => decision \in Decisions /\ decision.observed = observed
    /\ (pc \in {"physics", "successor", "commit"} /\ eligible) =>
          decision \in Decisions /\ decision.observed = observed
    /\ (pc \in {"apply", "physics", "successor", "commit"} /\ eligible) =>
          /\ prepared /\ validator # None
          /\ ~live => recording # None
    /\ (pc \in {"solve", "transaction"} /\ ~live) => recording # None
    /\ pc \in {"successor", "commit"} => eligible /\ ~live

\* The rows of an episode are one unbroken stretch, each applied at its
\* observation; the last successor is the terminal one.
Stretch(rows) ==
    /\ Gapless(rows)
    /\ \A i \in 1..Len(rows) : rows[i].action.step = rows[i].observed.step

\* The token of the tick is the episode's pending one.
Pending(r) ==
    /\ r.pending = observed /\ r.pending # None /\ r.promoted = None
    /\ r.committed > 0 => r.pending = r.terminal

OpenOK(r) ==
    /\ ~live /\ pc \notin {"menu", "waiting", "over", "guard"}
    /\ ~r.failed /\ r.committed = Len(r.rows)
    /\ Stretch(r.rows)
    /\ r.committed = 0 => r.promoted = None
    /\ r.committed > 0 =>
          /\ r.terminal = r.rows[Len(r.rows)].successor
          /\ r.rows[1].action.epoch = validator
          /\ pc = "capture" => r.promoted = r.terminal
          /\ pc \in {"apply", "physics"} => eligible
    /\ pc \in {"poll", "command", "solve", "transaction"} => Pending(r)
    /\ (pc \in {"apply", "physics", "successor", "commit"} /\ eligible) => Pending(r)
    /\ pc = "commit" =>
          /\ r.successor # None
          /\ r.successor.step = r.pending.step + Repeat
          /\ r.successor.resets = r.pending.resets

RecordingInv == recording # None => OpenOK(recording)

SealedInv == sealed # None => Gapless(sealed.rows) /\ SealedIsWhole

\* The last applied update is consumed, and belongs to the tick under way.
AppliedInv ==
    /\ applied # None => /\ applied.decision.xr.update \in Nat
                         /\ applied.decision.xr.update <= receipt.consumed
    /\ (pc \in {"physics", "successor", "commit"} /\ eligible) =>
          applied.step \in Nat /\ applied.step = observed.step
    /\ ActionsAreFresh

CameraInv == CaptureTypeOK /\ (previous # None => frames >= previous)

LoopInv == LoopTypeOK /\ Counts /\ Deciding /\ RecordingInv /\ SealedInv /\ AppliedInv

CInv == DeviceTypeOK /\ CameraInv /\ LoopInv

-----------------------------------------------------------------------------
(* The device                                                              *)

LEMMA PolledType ==
    ASSUME DeviceTypeOK, NEW r \in Receipts, NEW reset \in BOOLEAN, NEW tracked \in BOOLEAN
    PROVE  Polled(r, reset, tracked) \in Receipts
           /\ Polled(r, reset, tracked).consumed = r.consumed
           /\ Polled(r, reset, tracked).transform = matrix
<1>1. PICK replaced \in BOOLEAN : replaced <=> session # r.session
  OBVIOUS
<1>2. PICK changed \in BOOLEAN :
        changed <=> (reset \/ matrix # r.transform \/ tracked # r.tracking)
  OBVIOUS
<1>3. Polled(r, reset, tracked) =
        [r EXCEPT !.session = session,
                  !.sessions = @ + (IF replaced THEN 1 ELSE 0),
                  !.reference = @ + (IF replaced THEN 1 ELSE 0) + (IF changed THEN 1 ELSE 0),
                  !.update = @ + 1, !.transform = matrix, !.tracking = tracked]
  BY <1>1, <1>2 DEF Polled
<1>4. session \in Nat /\ matrix \in Matrices \cup {None}
  BY DEF DeviceTypeOK
<1>5. r.sessions \in Nat /\ r.reference \in Nat /\ r.update \in Nat
  BY DEF Receipts
<1>6. PICK m \in Nat, n \in Nat :
        /\ m = r.sessions + (IF replaced THEN 1 ELSE 0)
        /\ n = r.reference + (IF replaced THEN 1 ELSE 0) + (IF changed THEN 1 ELSE 0)
  BY <1>5
<1>7. Polled(r, reset, tracked) =
        [r EXCEPT !.session = session, !.sessions = m, !.reference = n,
                  !.update = @ + 1, !.transform = matrix, !.tracking = tracked]
  BY <1>3, <1>6
<1>8. /\ r.consumed \in Nat
      /\ r = [session |-> r.session, sessions |-> r.sessions, reference |-> r.reference,
              update |-> r.update, transform |-> r.transform, tracking |-> r.tracking,
              consumed |-> r.consumed]
  BY DEF Receipts
<1>9. PICK u \in Nat : u = r.update + 1
  BY <1>5
<1>10. Polled(r, reset, tracked) =
         [session |-> session, sessions |-> m, reference |-> n, update |-> u,
          transform |-> matrix, tracking |-> tracked, consumed |-> r.consumed]
  BY <1>7, <1>8, <1>9
<1> QED BY <1>4, <1>8, <1>10 DEF Receipts

LEMMA AdvanceStep ==
    ASSUME DeviceTypeOK,
           AdvanceIdle \/ \E reset, tracked \in BOOLEAN : AdvancePolls(reset, tracked)
    PROVE  DeviceTypeOK' /\ receipt'.consumed = receipt.consumed
<1>1. receipt \in Receipts /\ lastSeen \in Matrices \cup {None} /\ recenter \in BOOLEAN
      /\ matrix \in Matrices \cup {None} /\ Moved \in BOOLEAN
  BY DEF DeviceTypeOK, Moved
<1>2. /\ [receipt EXCEPT !.reference = @ + 1] \in Receipts
      /\ [receipt EXCEPT !.reference = @ + 1].consumed = receipt.consumed
  BY <1>1 DEF Receipts
<1>3. CASE AdvanceIdle
  BY <1>1, <1>2, <1>3 DEF AdvanceIdle, DeviceTypeOK
<1>4. ASSUME NEW reset \in BOOLEAN, NEW tracked \in BOOLEAN, AdvancePolls(reset, tracked)
      PROVE  DeviceTypeOK' /\ receipt'.consumed = receipt.consumed
  <2>1. PICK rebasing \in Receipts :
          /\ rebasing = IF Moved THEN [receipt EXCEPT !.reference = @ + 1] ELSE receipt
          /\ rebasing.consumed = receipt.consumed
    BY <1>1, <1>2
  <2>2. PICK again \in BOOLEAN : again <=> (reset \/ Moved)
    OBVIOUS
  <2>3. receipt' = Polled(rebasing, again, tracked) /\ xrInput' = Resolved(receipt', again)
        /\ matrix \in Matrices
    <3>1. (reset \/ Moved) = again
      BY <1>1, <2>2
    <3> QED BY <1>1, <1>4, <2>1, <3>1 DEF AdvancePolls
  <2>4. receipt' \in Receipts /\ receipt'.consumed = receipt.consumed
        /\ receipt'.transform = matrix
    <3>1. receipt' = Polled(rebasing, again, tracked)
      BY <2>3
    <3>2. /\ Polled(rebasing, again, tracked) \in Receipts
          /\ Polled(rebasing, again, tracked).consumed = rebasing.consumed
          /\ Polled(rebasing, again, tracked).transform = matrix
      BY PolledType, Zenon
    <3> QED BY <2>1, <3>1, <3>2
  <2>5. xrInput' \in Inputs
    BY <2>3, <2>4 DEF Resolved, Receipts, Inputs
  <2> QED BY <1>1, <1>4, <2>4, <2>5 DEF AdvancePolls, DeviceTypeOK
<1> QED BY <1>3, <1>4

LEMMA DeviceStep ==
    ASSUME DeviceTypeOK,
           UNCHANGED device \/ DeviceReset \/ ScheduleRecenter \/ XrChanges
    PROVE  DeviceTypeOK' /\ receipt'.consumed = receipt.consumed
<1>1. /\ receipt \in Receipts
      /\ [receipt EXCEPT !.reference = @ + 1] \in Receipts
      /\ [receipt EXCEPT !.reference = @ + 1].consumed = receipt.consumed
      /\ receipt.session \in Nat
  BY DEF DeviceTypeOK, Receipts
<1>2. CASE UNCHANGED device
  BY <1>2 DEF device, DeviceTypeOK
<1>3. CASE DeviceReset
  BY <1>1, <1>3 DEF DeviceReset, DeviceTypeOK
<1>4. CASE ScheduleRecenter
  BY <1>1, <1>4 DEF ScheduleRecenter, DeviceTypeOK
<1>5. CASE XrChanges
  BY <1>1, <1>5 DEF XrChanges, DeviceTypeOK
<1> QED BY <1>2, <1>3, <1>4, <1>5

LEMMA ConsumeStep ==
    ASSUME DeviceTypeOK, NEW xr \in Inputs, Consume(xr)
    PROVE  DeviceTypeOK' /\ receipt'.consumed = xr.update
<1>1. receipt' \in Receipts /\ receipt'.consumed = xr.update
  BY DEF Consume, DeviceTypeOK, Receipts, Inputs
<1> QED BY <1>1 DEF Consume, DeviceTypeOK

-----------------------------------------------------------------------------
(* The cameras                                                             *)

LEMMA AdvancePhysicsType ==
    ASSUME CameraInv, NEW n \in Nat, NEW from \in Nat, AdvancePhysics(n, from), live' = live,
           resets' \in Nat
    PROVE  /\ step' \in Nat /\ generation' \in Nat /\ frames' \in Nat /\ data' \in Nat
           /\ latest' \in Captures \cup {None}
           /\ live => frames' >= from
           /\ ~live => frames' = frames
<1>1. step \in Nat /\ data \in Nat /\ frames \in Nat /\ live \in BOOLEAN
      /\ latest \in Captures \cup {None}
  BY DEF CameraInv, CaptureTypeOK
<1>2. step' \in Nat /\ generation' \in Nat
  BY <1>1 DEF AdvancePhysics
<1>3. CASE live /\ Extract(from)
  BY <1>1, <1>2, <1>3 DEF Extract, Captures
<1>4. CASE ~live /\ UNCHANGED <<frames, data, latest>>
  BY <1>1, <1>2, <1>4
<1> QED BY <1>1, <1>3, <1>4 DEF AdvancePhysics

LEMMA CameraStep ==
    ASSUME CameraInv,
           UNCHANGED camera \/ Advance \/ ResetScene \/ StrayPump \/ LazyUpdate
    PROVE  CameraInv' /\ live' = live /\ resets' \in Nat
<1> USE CaptureAssumption
<1>0. /\ live \in BOOLEAN /\ resets \in Nat /\ step \in Nat /\ generation \in Nat
      /\ frames \in Nat /\ data \in Nat /\ latest \in Captures \cup {None}
      /\ previous \in Nat \cup {None} /\ stale \in 0..(MaxStale + 1)
      /\ previous # None => frames >= previous
  BY DEF CameraInv, CaptureTypeOK
<1>1. CASE UNCHANGED camera
  BY <1>0, <1>1 DEF camera, CameraInv, CaptureTypeOK
<1>2. CASE Advance
  <2>1. /\ step' \in Nat /\ generation' \in Nat /\ frames' \in Nat /\ data' \in Nat
        /\ latest' \in Captures \cup {None} /\ frames' >= frames
        /\ UNCHANGED <<live, resets, previous, stale>>
    BY <1>0, <1>2, AdvancePhysicsType DEF Advance
  <2>2. previous # None => frames' >= previous
    BY <1>0, <2>1
  <2> QED BY <1>0, <2>1, <2>2 DEF CameraInv, CaptureTypeOK
<1>3. CASE ResetScene
  <2>1. live' = live /\ resets' \in Nat /\ previous' = None /\ stale' = 0
    BY <1>0, <1>3 DEF ResetScene, GuardReset
  <2>2. /\ step' \in Nat /\ generation' \in Nat /\ frames' \in Nat /\ data' \in Nat
        /\ latest' \in Captures \cup {None}
    BY <1>0, <1>3, <2>1, AdvancePhysicsType DEF ResetScene
  <2> QED BY <1>0, <2>1, <2>2 DEF CameraInv, CaptureTypeOK
<1>4. CASE StrayPump
  BY <1>0, <1>4 DEF StrayPump, CameraInv, CaptureTypeOK
<1>5. CASE LazyUpdate
  <2>1. /\ frames' = frames + 1 /\ data' = data + 1
        /\ UNCHANGED <<live, resets, step, generation, latest, previous, stale>>
    BY <1>5 DEF LazyUpdate
  <2>2. previous # None => frames' >= previous
    BY <1>0, <2>1
  <2> QED BY <1>0, <2>1, <2>2 DEF CameraInv, CaptureTypeOK
<1> QED BY <1>1, <1>2, <1>3, <1>4, <1>5

-----------------------------------------------------------------------------
(* The episode                                                             *)

LEMMA OpenFields ==
    ASSUME NEW r \in Open
    PROVE  /\ r = [episode |-> r.episode, committed |-> r.committed, captures |-> r.captures,
                   failed |-> r.failed, pending |-> r.pending, successor |-> r.successor,
                   promoted |-> r.promoted, terminal |-> r.terminal, rows |-> r.rows]
           /\ r.episode \in Nat /\ r.committed \in Nat /\ r.captures \in Nat
           /\ r.failed \in BOOLEAN
           /\ r.pending \in Buffers /\ r.successor \in Buffers
           /\ r.promoted \in Buffers /\ r.terminal \in Buffers
           /\ r.rows \in Seq(Rows(Actions))
BY DEF Open, Episodes

LEMMA NoneIsBuffer == None \in Buffers /\ Tokens \subseteq Buffers
BY DEF Buffers

LEMMA OpenedType ==
    ASSUME NEW e \in Nat
    PROVE  Opened(e) \in Open
<1>1. << >> \in Seq(Rows(Actions))
  BY EmptySeq
<1> QED BY <1>1 DEF Opened, Open, Episodes, Buffers

LEMMA CapturedType ==
    ASSUME NEW r \in Open, NEW e \in Nat, NEW at \in Nat
    PROVE  LET c == Captured(r, e, at)
           IN  /\ c \in Open
               /\ c.committed = r.committed /\ c.failed = r.failed /\ c.rows = r.rows
               /\ c.terminal = r.terminal /\ c.successor = r.successor
               /\ c.promoted = None /\ c.pending # None /\ c.pending \in Tokens
               /\ r.promoted # None => c.pending = r.promoted
<1>1. NewToken(r, e, at) \in Tokens
  BY DEF NewToken, Tokens, Open, Episodes
<1>2. None \notin Tokens
  BY NoneAssumption
<1>3. CASE r.promoted # None
  <2>1. Captured(r, e, at) = [r EXCEPT !.pending = r.promoted, !.promoted = None]
    BY <1>3 DEF Captured
  <2>2. r.promoted \in Tokens
    BY <1>3, OpenFields DEF Buffers
  <2>3. PICK token \in Buffers, none \in Buffers : token = r.promoted /\ none = None
    BY <2>2, NoneIsBuffer
  <2> DEFINE c == [r EXCEPT !.pending = token, !.promoted = none]
  <2>4. /\ c \in Open
        /\ c.pending = token /\ c.promoted = none
        /\ c.committed = r.committed /\ c.failed = r.failed
        /\ c.rows = r.rows /\ c.terminal = r.terminal
        /\ c.successor = r.successor
    BY DEF Open, Episodes
  <2>5. Captured(r, e, at) = c
    BY <2>1, <2>3
  <2> HIDE DEF c
  <2> QED BY <1>2, <2>2, <2>3, <2>4, <2>5
<1>4. CASE r.promoted = None
  <2>1. PICK n \in Nat : n = r.captures + 1
    BY OpenFields
  <2>2. PICK token \in Tokens : token = NewToken(r, e, at)
    BY <1>1
  <2>3. Captured(r, e, at) = [r EXCEPT !.pending = token, !.captures = n]
    BY <1>4, <2>1, <2>2 DEF Captured
  <2> DEFINE c == [r EXCEPT !.pending = token, !.captures = n]
  <2>4. /\ c \in Open
        /\ c.pending = token /\ c.promoted = r.promoted
        /\ c.committed = r.committed /\ c.failed = r.failed
        /\ c.rows = r.rows /\ c.terminal = r.terminal
        /\ c.successor = r.successor
    BY NoneIsBuffer DEF Open, Episodes
  <2>5. Captured(r, e, at) = c
    BY <2>3
  <2> HIDE DEF c
  <2> QED BY <1>2, <1>4, <2>2, <2>4, <2>5
<1> QED BY <1>3, <1>4

LEMMA SuccessorType ==
    ASSUME NEW r \in Open, NEW e \in Nat, NEW at \in Nat
    PROVE  LET c == SuccessorCaptured(r, e, at)
           IN  /\ c \in Open
               /\ c.committed = r.committed /\ c.failed = r.failed /\ c.rows = r.rows
               /\ c.terminal = r.terminal /\ c.pending = r.pending
               /\ c.promoted = r.promoted /\ c.successor \in Tokens
               /\ c.successor.step = at /\ c.successor.resets = e
<1>1. NewToken(r, e, at) \in Tokens /\ NewToken(r, e, at).step = at
      /\ NewToken(r, e, at).resets = e
  BY DEF NewToken, Tokens, Open, Episodes
<1>2. PICK n \in Nat : n = r.captures + 1
  BY OpenFields
<1>3. PICK token \in Tokens : token = NewToken(r, e, at)
  BY <1>1
<1>4. SuccessorCaptured(r, e, at) = [r EXCEPT !.successor = token, !.captures = n]
  BY <1>2, <1>3 DEF SuccessorCaptured
<1> DEFINE c == [r EXCEPT !.successor = token, !.captures = n]
<1>5. /\ c \in Open
      /\ c.successor = token /\ c.promoted = r.promoted
      /\ c.committed = r.committed /\ c.failed = r.failed
      /\ c.rows = r.rows /\ c.terminal = r.terminal
      /\ c.pending = r.pending
  BY NoneIsBuffer DEF Open, Episodes
<1>6. SuccessorCaptured(r, e, at) = c
  BY <1>4
<1> HIDE DEF c
<1> QED BY <1>1, <1>3, <1>5, <1>6

LEMMA DiscardedType ==
    ASSUME NEW r \in Open
    PROVE  LET c == Discarded(r)
           IN  /\ c \in Open
               /\ c.committed = r.committed /\ c.failed = r.failed /\ c.rows = r.rows
               /\ c.terminal = r.terminal /\ c.promoted = r.promoted
BY DEF Discarded, Open, Episodes, Buffers

LEMMA AppendedType ==
    ASSUME NEW r \in Open, r.pending # None, r.successor # None, NEW action \in Actions
    PROVE  LET c == Appended(r, action)
               row == [observed |-> r.pending, successor |-> r.successor, action |-> action]
           IN  /\ c \in Open /\ c.committed = r.committed /\ c.failed = r.failed
               /\ c.terminal = r.terminal
               /\ c.rows = Append(r.rows, row) /\ row \in Rows(Actions)
<1> DEFINE row == [observed |-> r.pending, successor |-> r.successor, action |-> action]
<1>1. row \in Rows(Actions)
  BY DEF Rows, Open, Episodes, Buffers
<1>2. Append(r.rows, row) \in Seq(Rows(Actions))
  <2>1. r.rows \in Seq(Rows(Actions))
    BY DEF Open, Episodes
  <2> HIDE DEF row
  <2> QED BY <1>1, <2>1, AppendProperties
<1>3. Appended(r, action) = [r EXCEPT !.rows = Append(r.rows, row)]
  BY DEF Appended
<1> HIDE DEF row
<1>4. /\ Appended(r, action) \in Open
      /\ Appended(r, action).committed = r.committed
      /\ Appended(r, action).failed = r.failed
      /\ Appended(r, action).terminal = r.terminal
      /\ Appended(r, action).rows = Append(r.rows, row)
  BY <1>2, <1>3 DEF Open, Episodes
<1> QED BY <1>1, <1>4 DEF row

\* The committed row's successor is the terminal and the promoted token.
LEMMA CommittedType ==
    ASSUME NEW r \in Open, r.pending # None, r.successor # None, NEW action \in Actions
    PROVE  LET c == Committed(r, action)
           IN  /\ c \in Open /\ c.committed = r.committed + 1 /\ c.failed = r.failed
               /\ c.rows = Appended(r, action).rows
               /\ c.terminal = r.successor /\ c.promoted = r.successor
<1>1. PICK a \in Open : a = Appended(r, action) /\ a.committed = r.committed
                                                /\ a.failed = r.failed
  BY AppendedType
<1>2. PICK n \in Nat : n = a.committed + 1
  BY OpenFields
<1>3. Committed(r, action) =
        [a EXCEPT !.committed = n, !.terminal = r.successor, !.promoted = r.successor,
                  !.pending = None, !.successor = None]
  BY <1>1, <1>2 DEF Committed, Open, Episodes
<1>4. PICK token \in Buffers, none \in Buffers : token = r.successor /\ none = None
  BY OpenFields, NoneIsBuffer
<1> DEFINE c == [a EXCEPT !.committed = n, !.terminal = token,
                            !.promoted = token, !.pending = none, !.successor = none]
<1>5. /\ c \in Open
      /\ c.committed = n /\ c.failed = a.failed /\ c.rows = a.rows
      /\ c.terminal = token /\ c.promoted = token
  BY DEF Open, Episodes
<1>6. Committed(r, action) = c
  BY <1>3, <1>4
<1> HIDE DEF c
<1> QED BY <1>1, <1>2, <1>4, <1>5, <1>6

\* The stretch goes on with a row from its last successor, in its epoch.
LEMMA StretchAppended ==
    ASSUME NEW rows \in Seq(Rows(Actions)), Stretch(rows), NEW row \in Rows(Actions),
           row.successor.step = row.observed.step + Repeat,
           row.successor.resets = row.observed.resets,
           row.action.step = row.observed.step,
           Len(rows) > 0 => /\ row.observed = rows[Len(rows)].successor
                            /\ row.action.epoch = rows[1].action.epoch
    PROVE  /\ Stretch(Append(rows, row))
           /\ Len(Append(rows, row)) = Len(rows) + 1
           /\ Append(rows, row)[Len(rows) + 1] = row
           /\ Append(rows, row)[1].action.epoch = row.action.epoch
<1> DEFINE longer == Append(rows, row)
<1>1. /\ Len(rows) \in Nat /\ DOMAIN rows = 1..Len(rows)
      /\ Len(longer) = Len(rows) + 1
      /\ longer[Len(rows) + 1] = row
      /\ \A i \in 1..Len(rows) : longer[i] = rows[i]
  BY AppendProperties
<1> HIDE DEF longer
<1>2. longer[1].action.epoch = row.action.epoch
  <2>1. CASE Len(rows) = 0
    BY <1>1, <2>1
  <2>2. CASE Len(rows) > 0
    BY <1>1, <2>2
  <2> QED BY <1>1, <2>1, <2>2
<1>3. ASSUME NEW i \in 1..Len(longer)
      PROVE  /\ longer[i].successor.step = longer[i].observed.step + Repeat
             /\ longer[i].successor.resets = longer[i].observed.resets
             /\ longer[i].action.step = longer[i].observed.step
             /\ longer[i].action.epoch = longer[1].action.epoch
  <2>1. CASE i = Len(rows) + 1
    BY <1>1, <1>2, <2>1
  <2>2. CASE i \in 1..Len(rows)
    <3>1. 1 \in 1..Len(rows) /\ Len(rows) > 0
      BY <1>1, <2>2
    <3> QED BY <1>1, <2>2, <3>1 DEF Stretch, Gapless
  <2> QED BY <1>1, <2>1, <2>2
<1>4. ASSUME NEW i \in 1..(Len(longer) - 1)
      PROVE  longer[i + 1].observed = longer[i].successor
  <2>1. CASE i = Len(rows)
    BY <1>1, <2>1
  <2>2. CASE i \in 1..(Len(rows) - 1)
    BY <1>1, <2>2 DEF Stretch, Gapless
  <2> QED BY <1>1, <2>1, <2>2
<1>5. Stretch(longer)
  BY <1>3, <1>4 DEF Stretch, Gapless
<1> QED BY <1>1, <1>2, <1>5 DEF longer

\* What is sealed is whole, unless its commit failed.
LEMMA SealOK ==
    ASSUME NEW r \in Open, NEW outcome \in Outcomes, Seal(r, outcome), Gapless(r.rows),
           ~r.failed => /\ r.committed = Len(r.rows) /\ Stretch(r.rows)
                        /\ r.committed > 0 => r.terminal = r.rows[Len(r.rows)].successor
    PROVE  /\ SealedInv' /\ sealed'.outcome \in Outcomes /\ recording' = None
<1>1. /\ sealed' = [outcome |-> Effective(r, outcome), committed |-> r.committed,
                    terminal |-> r.terminal, rows |-> r.rows]
      /\ recording' = None
      /\ r.committed \in Nat /\ Effective(r, outcome) \in Outcomes
  BY OpenFields DEF Seal, Effective, Outcomes
<1>2. Gapless(sealed.rows)'
  BY <1>1
<1>3. SealedIsWhole'
  <2>1. ASSUME Effective(r, outcome) = "operator_stopped"
        PROVE  ~r.failed /\ r.committed > 0
    BY <1>1, <2>1 DEF Effective
  <2>2. ASSUME Effective(r, outcome) = "operator_stopped"
        PROVE  /\ r.committed > 0 /\ Len(r.rows) = r.committed
               /\ r.terminal = Last(r.rows).successor
               /\ \A i \in 1..Len(r.rows) : r.rows[i].action.step = r.rows[i].observed.step
    BY <2>1, <2>2 DEF Stretch, Last
  <2> QED BY <1>1, <2>2 DEF SealedIsWhole
<1> QED BY <1>1, <1>2, <1>3 DEF SealedInv

\* The open episode may be sealed at any time, as it is or without its tick.
LEMMA SealOpen ==
    ASSUME CInv, recording # None, NEW r \in {recording, Discarded(recording)},
           NEW outcome \in Outcomes, Seal(r, outcome)
    PROVE  /\ SealedInv' /\ sealed'.outcome \in Outcomes /\ recording' = None
<1>1. recording \in Open /\ OpenOK(recording)
  BY DEF CInv, LoopInv, LoopTypeOK, RecordingInv
<1>2. /\ r \in Open /\ r.rows = recording.rows /\ r.committed = recording.committed
      /\ r.failed = recording.failed /\ r.terminal = recording.terminal
  BY <1>1, DiscardedType
<1>3. /\ Gapless(r.rows) /\ r.committed = Len(r.rows) /\ Stretch(r.rows)
      /\ r.committed > 0 => r.terminal = r.rows[Len(r.rows)].successor
  BY <1>1, <1>2 DEF OpenOK, Stretch
<1> QED BY <1>2, <1>3, SealOK

SealedOK == SealedInv /\ (sealed # None => sealed.outcome \in Outcomes)

LEMMA SealAnyOpen ==
    ASSUME CInv, NEW outcome \in Outcomes,
           \/ SealAny(recording, outcome)
           \/ SealAny(IF recording = None THEN None ELSE Discarded(recording), outcome)
    PROVE  SealedOK' /\ recording' = None
<1>1. CASE recording = None
  <2>1. UNCHANGED <<recording, sealed>>
    BY <1>1 DEF SealAny, recorder
  <2> QED BY <1>1, <2>1 DEF CInv, LoopInv, LoopTypeOK, SealedOK, SealedInv, SealedIsWhole
<1>2. CASE recording # None
  <2>1. recording \in Open /\ Discarded(recording) \in Open /\ None \notin Open
    BY <1>2, DiscardedType, NoneAssumption DEF CInv, LoopInv, LoopTypeOK, Open
  <2>2. Seal(recording, outcome) \/ Seal(Discarded(recording), outcome)
    BY <1>2, <2>1 DEF SealAny
  <2> QED BY <1>2, <2>2, SealOpen DEF SealedOK
<1> QED BY <1>1, <1>2

-----------------------------------------------------------------------------
(* Leaving the loop                                                        *)

LEMMA UnwindStep ==
    ASSUME CInv, NEW outcome \in Outcomes, Unwind(outcome),
           UNCHANGED <<device, camera, history>>
    PROVE  CInv'
<1>1. DeviceTypeOK' /\ CameraInv' /\ live' = live /\ receipt' = receipt
  BY DeviceStep, CameraStep DEF CInv, device
<1>2. SealedOK' /\ recording' = None
  BY SealAnyOpen DEF Unwind
<1>3. LoopTypeOK'
  BY <1>2 DEF CInv, LoopInv, LoopTypeOK, Unwind, SealedOK, Stages
<1>4. Counts' /\ Deciding' /\ RecordingInv'
  BY <1>2 DEF CInv, LoopInv, Counts, Deciding, RecordingInv, Unwind
<1>5. AppliedInv'
  BY <1>1 DEF CInv, LoopInv, AppliedInv, ActionsAreFresh, Unwind, history
<1> QED BY <1>1, <1>2, <1>3, <1>4, <1>5 DEF CInv, LoopInv, SealedOK

LEMMA LeaveStep == CInv /\ (Raise \/ Leave) => CInv'
<1>1. "failure" \in Outcomes /\ "aborted" \in Outcomes
  BY DEF Outcomes
<1> QED BY <1>1, UnwindStep DEF Raise, Leave

-----------------------------------------------------------------------------
(* What a stage leaves alone                                               *)

LEMMA SealedKept ==
    ASSUME CInv, sealed' = sealed
    PROVE  SealedOK'
BY DEF CInv, LoopInv, LoopTypeOK, SealedOK, SealedInv, SealedIsWhole

LEMMA AppliedKept ==
    ASSUME CInv, applied' = applied, receipt'.consumed = receipt.consumed,
           (pc' \in {"physics", "successor", "commit"} /\ eligible') =>
               /\ pc \in {"physics", "successor", "commit"} /\ eligible
               /\ observed' = observed
    PROVE  AppliedInv'
BY DEF CInv, LoopInv, AppliedInv, ActionsAreFresh

\* The open episode's last row, which its terminal token ends.
LEMMA OpenRows ==
    ASSUME CInv, recording # None
    PROVE  /\ recording \in Open /\ OpenOK(recording)
           /\ recording.committed > 0 =>
                 /\ recording.terminal \in Tokens /\ recording.terminal # None
                 /\ validator \in EpochValues /\ validator # None
<1>1. recording \in Open /\ OpenOK(recording)
  BY DEF CInv, LoopInv, LoopTypeOK, RecordingInv
<1>2. ASSUME recording.committed > 0
      PROVE  /\ recording.terminal \in Tokens /\ recording.terminal # None
             /\ validator \in EpochValues /\ validator # None
  <2>1. /\ recording.rows \in Seq(Rows(Actions))
        /\ Len(recording.rows) \in 1..Len(recording.rows) /\ 1 \in 1..Len(recording.rows)
    BY <1>1, <1>2, OpenFields DEF OpenOK
  <2>2. recording.rows[Len(recording.rows)] \in Rows(Actions)
        /\ recording.rows[1] \in Rows(Actions)
    BY <2>1
  <2>3. recording.terminal \in Tokens /\ validator \in EpochValues
    BY <1>1, <1>2, <2>2 DEF OpenOK, Rows, Actions
  <2> QED BY <2>3, NoneAssumption
<1> QED BY <1>1, <1>2

LEMMA NoneIsNoEpisode == None \notin Open /\ None \notin Tokens /\ None \notin EpochValues
BY NoneAssumption DEF Open

-----------------------------------------------------------------------------
(* From the observation to the decision                                    *)

LEMMA CaptureStep == CInv /\ CaptureStage => CInv'
<1> SUFFICES ASSUME CInv, CaptureStage PROVE CInv'
  OBVIOUS
<1> USE StepsAssumption
<1>1. DeviceTypeOK' /\ CameraInv' /\ live' = live /\ receipt' = receipt
  BY DeviceStep, CameraStep DEF CInv, CaptureStage, device
<1>2. SealedOK' /\ AppliedInv' /\ Counts'
  <2>1. sealed' = sealed
    BY DEF CaptureStage, recorder
  <2>2. AppliedInv'
    BY <1>1, AppliedKept DEF CaptureStage, history
  <2>3. Counts'
    BY DEF CInv, LoopInv, LoopTypeOK, Counts, CaptureStage
  <2> QED BY <2>1, <2>2, <2>3, SealedKept
<1>3. Deciding'
  BY DEF CaptureStage, Deciding
<1>4. /\ recording' \in Open \cup {None} /\ observed' \in States \cup {None}
      /\ RecordingInv'
  <2>1. resets \in Nat /\ step \in Nat /\ latest \in Captures \cup {None}
    BY DEF CInv, CameraInv, CaptureTypeOK
  <2>2. CASE recording' = None
    <3>1. observed' \in States \cup {None}
      <4>1. ASSUME ~live, recording # None
            PROVE  FALSE
        BY <2>2, <4>1, <2>1, OpenRows, CapturedType, NoneIsNoEpisode DEF CaptureStage
      <4>2. [sequence |-> 0, resets |-> resets, step |-> step] \in Tokens
        BY <2>1 DEF Tokens
      <4> QED BY <2>1, <4>1, <4>2 DEF CaptureStage, States, Observed
    <3> QED BY <2>2, <3>1 DEF RecordingInv
  <2>3. CASE recording' # None
    <3>1. /\ ~live /\ recording # None
          /\ recording' = Captured(recording, resets, step) /\ observed' = recording'.pending
      <4>1. recording # None => ~live
        BY OpenRows DEF OpenOK
      <4> QED BY <2>3, <4>1 DEF CaptureStage, recorder, Token
    <3>2. PICK c \in Open :
            /\ c = Captured(recording, resets, step)
            /\ c.committed = recording.committed /\ c.failed = recording.failed
            /\ c.rows = recording.rows /\ c.terminal = recording.terminal
            /\ c.promoted = None /\ c.pending # None /\ c.pending \in Tokens
            /\ recording.promoted # None => c.pending = recording.promoted
      BY <2>1, <3>1, OpenRows, CapturedType
    <3>3. c.committed > 0 => c.pending = c.terminal
      BY <3>1, <3>2, OpenRows DEF OpenOK, CaptureStage
    <3>4. OpenOK(recording)'
      BY <1>1, <3>1, <3>2, <3>3, OpenRows DEF OpenOK, Pending, CaptureStage
    <3> QED BY <3>1, <3>2, <3>4 DEF RecordingInv, States
  <2> QED BY <2>2, <2>3
<1>5. LoopTypeOK'
  <2>1. steps' \in 0..MaxSteps /\ pc' \in Stages /\ UNCHANGED <<tick, index, validator>>
        /\ eligible' = FALSE /\ prepared' = FALSE
    BY DEF CInv, LoopInv, LoopTypeOK, CaptureStage, Stages
  <2> QED BY <1>2, <1>4, <2>1 DEF CInv, LoopInv, LoopTypeOK, SealedOK
<1> QED BY <1>1, <1>2, <1>3, <1>4, <1>5 DEF CInv, LoopInv, SealedOK

LEMMA PollStep == CInv /\ PollStage => CInv'
<1> SUFFICES ASSUME CInv, PollStage PROVE CInv'
  OBVIOUS
<1>1. DeviceTypeOK' /\ receipt'.consumed = receipt.consumed
  BY AdvanceStep DEF CInv, PollStage
<1>2. CameraInv' /\ live' = live
  BY CameraStep DEF CInv, PollStage
<1>3. SealedOK' /\ AppliedInv'
  BY <1>1, SealedKept, AppliedKept DEF PollStage, recorder, history
<1>4. LoopTypeOK' /\ Counts' /\ Deciding'
  BY DEF CInv, LoopInv, LoopTypeOK, Counts, Deciding, PollStage, recorder, Stages
<1>5. RecordingInv'
  BY <1>2 DEF CInv, LoopInv, RecordingInv, OpenOK, Pending, PollStage, recorder
<1> QED BY <1>1, <1>2, <1>3, <1>4, <1>5 DEF CInv, LoopInv, SealedOK

LEMMA AdmitStep == CInv /\ Admit => CInv'
<1> SUFFICES ASSUME CInv, Admit PROVE CInv'
  OBVIOUS
<1> USE StepsAssumption
<1>1. DeviceTypeOK' /\ CameraInv' /\ live' = live /\ receipt' = receipt /\ xrInput' = xrInput
  BY DeviceStep, CameraStep DEF CInv, Admit, device
<1>2. SealedOK' /\ AppliedInv'
  BY <1>1, SealedKept, AppliedKept DEF Admit, recorder, history
<1>3. CASE live \/ recording # None
  <2>1. UNCHANGED <<recorder, observed, index, validator, decision, prepared>>
    BY <1>3 DEF Admit
  <2>2. LoopTypeOK' /\ Counts' /\ Deciding'
    BY <1>1, <1>3, <2>1
    DEF CInv, LoopInv, LoopTypeOK, Counts, Deciding, Admit, MayRecord, recorder, Stages
  <2>3. RecordingInv'
    BY <1>1, <2>1 DEF CInv, LoopInv, RecordingInv, OpenOK, Pending, Admit, recorder
  <2> QED BY <1>1, <1>2, <2>2, <2>3 DEF CInv, LoopInv, SealedOK
<1>4. CASE ~live /\ recording = None
  <2>1. resets \in Nat /\ step \in Nat /\ index \in Nat
    BY DEF CInv, CameraInv, CaptureTypeOK, LoopInv, LoopTypeOK
  <2>2. Opened(index) \in Open
    BY <2>1, OpenedType
  <2>3. PICK c \in Open :
          /\ c = Captured(Opened(index), resets, step)
          /\ c.committed = 0 /\ c.failed = FALSE /\ c.rows = << >>
          /\ c.promoted = None /\ c.pending # None /\ c.pending \in Tokens
    BY <2>1, <2>2, CapturedType DEF Opened
  <2>4. /\ recording' = c /\ observed' = c.pending /\ index' = index + 1
        /\ tick' = tick + 1 /\ eligible' = TRUE /\ pc' = "solve" /\ c # None
        /\ UNCHANGED <<steps, decision, validator, prepared>>
    BY <1>4, <2>3, NoneIsNoEpisode DEF Admit, Token
  <2>5. LoopTypeOK' /\ Counts'
    BY <1>2, <2>1, <2>3, <2>4
    DEF CInv, LoopInv, LoopTypeOK, Counts, SealedOK, Admit, Stages, States
  <2>6. Deciding'
    BY <1>1, <2>3, <2>4 DEF Deciding, Admit, MayRecord
  <2>7. Stretch(<< >>)
    BY DEF Stretch, Gapless
  <2>8. RecordingInv'
    BY <1>1, <1>4, <2>3, <2>4, <2>7 DEF RecordingInv, OpenOK, Pending
  <2> QED BY <1>1, <1>2, <2>5, <2>6, <2>8 DEF CInv, LoopInv, SealedOK
<1> QED BY <1>3, <1>4

LEMMA SolveStep == CInv /\ Solve => CInv'
<1> SUFFICES ASSUME CInv, Solve PROVE CInv'
  OBVIOUS
<1> USE StepsAssumption
<1>1. DeviceTypeOK' /\ CameraInv' /\ live' = live /\ receipt' = receipt
  BY DeviceStep, CameraStep DEF CInv, Solve, device
<1>2. SealedOK' /\ AppliedInv'
  BY <1>1, SealedKept, AppliedKept DEF Solve, recorder, history
<1>3. decision' \in Decisions /\ decision'.observed = observed
  <2>1. observed \in States /\ xrInput \in Inputs /\ tick \in Nat
    BY DEF CInv, DeviceTypeOK, LoopInv, LoopTypeOK, Deciding, Solve
  <2> QED BY <2>1 DEF Solve, Decisions
<1>4. LoopTypeOK' /\ Counts' /\ Deciding'
  BY <1>1, <1>3 DEF CInv, LoopInv, LoopTypeOK, Counts, Deciding, Solve, recorder, Stages
<1>5. RecordingInv'
  BY <1>1 DEF CInv, LoopInv, RecordingInv, OpenOK, Pending, Solve, recorder
<1> QED BY <1>1, <1>2, <1>4, <1>5 DEF CInv, LoopInv, SealedOK

-----------------------------------------------------------------------------
(* Ticks that are not recorded, and the end of a demonstration             *)

LEMMA StopDemoStep == CInv /\ StopDemo => CInv'
<1> SUFFICES ASSUME CInv, StopDemo PROVE CInv'
  OBVIOUS
<1>1. DeviceTypeOK' /\ CameraInv' /\ receipt' = receipt
  BY DeviceStep, CameraStep DEF CInv, StopDemo, device
<1>2. SealedOK' /\ recording' = None
  BY SealAnyOpen DEF StopDemo, Outcomes
<1>3. AppliedInv'
  BY <1>1, AppliedKept DEF StopDemo, history
<1>4. LoopTypeOK' /\ Counts' /\ Deciding' /\ RecordingInv'
  BY <1>2
  DEF CInv, LoopInv, LoopTypeOK, Counts, Deciding, RecordingInv, SealedOK, StopDemo, Stages
<1> QED BY <1>1, <1>2, <1>3, <1>4 DEF CInv, LoopInv, SealedOK

LEMMA FinishDemoStep == CInv /\ FinishDemo => CInv'
<1> SUFFICES ASSUME CInv, FinishDemo PROVE CInv'
  OBVIOUS
<1>1. DeviceTypeOK' /\ CameraInv' /\ receipt'.consumed = receipt.consumed
  BY DeviceStep, CameraStep DEF CInv, FinishDemo
<1>2. SealedOK' /\ AppliedInv'
  BY <1>1, SealedKept, AppliedKept DEF FinishDemo, recorder, history
<1>3. LoopTypeOK' /\ Counts' /\ Deciding' /\ RecordingInv'
  BY DEF CInv, LoopInv, LoopTypeOK, Counts, Deciding, RecordingInv, OpenOK, FinishDemo,
         recorder, Stages
<1> QED BY <1>1, <1>2, <1>3 DEF CInv, LoopInv, SealedOK

LEMMA StartDemoStep == CInv /\ StartDemo => CInv'
<1> SUFFICES ASSUME CInv, StartDemo PROVE CInv'
  OBVIOUS
<1> USE StepsAssumption
<1>1. DeviceTypeOK' /\ CameraInv' /\ receipt' = receipt
  BY DeviceStep, CameraStep DEF CInv, StartDemo, device
<1>2. SealedOK' /\ AppliedInv'
  BY <1>1, SealedKept, AppliedKept DEF StartDemo, recorder, history
<1>3. LoopTypeOK' /\ Counts' /\ Deciding' /\ RecordingInv'
  BY DEF CInv, LoopInv, LoopTypeOK, Counts, Deciding, RecordingInv, OpenOK, StartDemo,
         recorder, Stages
<1> QED BY <1>1, <1>2, <1>3 DEF CInv, LoopInv, SealedOK

LEMMA RecordedResetStep == CInv /\ RecordedReset => CInv'
<1> SUFFICES ASSUME CInv, RecordedReset PROVE CInv'
  OBVIOUS
<1>1. DeviceTypeOK' /\ CameraInv' /\ receipt'.consumed = receipt.consumed
  BY DeviceStep, CameraStep DEF CInv, RecordedReset
<1>2. SealedOK' /\ recording' = None
  BY SealAnyOpen DEF RecordedReset, Outcomes
<1>3. AppliedInv'
  BY <1>1, AppliedKept DEF RecordedReset, history
<1>4. LoopTypeOK' /\ Counts' /\ Deciding' /\ RecordingInv'
  BY <1>2
  DEF CInv, LoopInv, LoopTypeOK, Counts, Deciding, RecordingInv, SealedOK, RecordedReset,
      Stages
<1> QED BY <1>1, <1>2, <1>3, <1>4 DEF CInv, LoopInv, SealedOK

LEMMA RunResetStep == CInv /\ RunReset => CInv'
<1> SUFFICES ASSUME CInv, RunReset PROVE CInv'
  OBVIOUS
<1>1. DeviceTypeOK' /\ CameraInv' /\ receipt'.consumed = receipt.consumed
  BY DeviceStep, CameraStep DEF CInv, RunReset
<1>2. ~eligible /\ eligible' = eligible /\ recording = None /\ recording' = None
      /\ UNCHANGED recorder
  BY DEF CInv, LoopInv, Deciding, RecordingInv, OpenOK, RunReset, recorder
<1>3. SealedOK' /\ AppliedInv'
  BY <1>1, <1>2, SealedKept, AppliedKept DEF RunReset, recorder, history
<1>4. LoopTypeOK' /\ Counts' /\ Deciding' /\ RecordingInv'
  BY <1>2
  DEF CInv, LoopInv, LoopTypeOK, Counts, Deciding, RecordingInv, RunReset, recorder, Stages
<1> QED BY <1>1, <1>3, <1>4 DEF CInv, LoopInv, SealedOK

\* A gap leaves an episode with rows sealed, and one without rows open.
LEMMA HoldStep == CInv /\ Hold => CInv'
<1> SUFFICES ASSUME CInv, Hold PROVE CInv'
  OBVIOUS
<1>1. /\ DeviceTypeOK' /\ CameraInv' /\ live' = live
      /\ receipt'.consumed = receipt.consumed
  BY DeviceStep, CameraStep DEF CInv, Hold
<1>2. ~eligible /\ eligible' = eligible
  BY DEF CInv, LoopInv, Deciding, Hold
<1>3. AppliedInv'
  BY <1>1, <1>2, AppliedKept DEF Hold, history
<1>4. SealedOK' /\ recording' \in Open \cup {None} /\ RecordingInv'
      /\ validator' \in {None, validator}
  <2>1. CASE recording = None
    BY <2>1, SealedKept DEF Hold, recorder, RecordingInv
  <2>2. CASE recording # None /\ recording.committed > 0
    <3>1. Seal(Discarded(recording), "operator_stopped") /\ validator' = None
      BY <2>2 DEF Hold, Gap
    <3>2. "operator_stopped" \in Outcomes
      BY DEF Outcomes
    <3> QED BY <2>2, <3>1, <3>2, SealOpen DEF RecordingInv, SealedOK
  <2>3. CASE recording # None /\ ~(recording.committed > 0)
    <3>1. recording \in Open /\ OpenOK(recording) /\ recording.committed = 0
      BY <2>3, OpenRows, OpenFields
    <3>2. /\ recording' = Discarded(recording) /\ UNCHANGED <<sealed, validator>>
      BY <2>3 DEF Hold, Gap
    <3>3. PICK c \in Open :
            /\ c = Discarded(recording) /\ c.committed = 0 /\ c.failed = recording.failed
            /\ c.rows = recording.rows /\ c.promoted = recording.promoted
      BY <3>1, DiscardedType
    <3>4. recording' = c /\ pc' = "physics" /\ ~eligible'
      BY <1>2, <3>2, <3>3 DEF Hold
    <3>5. OpenOK(recording)'
      <4>1. /\ c.committed = 0 /\ Len(c.rows) = 0 /\ ~c.failed /\ c.promoted = None
            /\ Stretch(c.rows) /\ ~live
        BY <3>1, <3>3 DEF OpenOK
      <4>2. ~(c.committed > 0)
        BY <4>1
      <4> QED BY <1>1, <3>4, <4>1, <4>2 DEF OpenOK, Pending
    <3> QED BY <3>2, <3>3, <3>5, SealedKept DEF RecordingInv
  <2> QED BY <2>1, <2>2, <2>3
<1>5. LoopTypeOK' /\ Counts' /\ Deciding'
  BY <1>2, <1>4
  DEF CInv, LoopInv, LoopTypeOK, Counts, Deciding, SealedOK, Hold, Stages
<1> QED BY <1>1, <1>3, <1>4, <1>5 DEF CInv, LoopInv, SealedOK

-----------------------------------------------------------------------------
(* The transaction and its application                                     *)

LEMMA TickEpochType ==
    ASSUME CInv, pc = "transaction"
    PROVE  TickEpoch \in EpochValues /\ TickEpoch # None
<1>1. decision \in Decisions
  BY DEF CInv, LoopInv, Deciding
<1>2. ~live => recording \in Open
  BY OpenRows DEF CInv, LoopInv, Deciding
<1>3. decision.observed.resets \in Nat
      /\ decision.xr.reference \in Nat /\ decision.xr.session \in Nat
  BY <1>1 DEF Decisions, States, Tokens, Captures, Inputs
<1>4. Unrecorded \in Int /\ (~live => recording.episode \in Int)
  BY <1>2, OpenFields DEF Unrecorded
<1>5. TickEpoch \in EpochValues
  BY <1>3, <1>4 DEF TickEpoch, EpochOf, EpochValues
<1> QED BY <1>5, NoneIsNoEpisode

LEMMA BeginEpochStep == CInv /\ BeginEpoch => CInv'
<1> SUFFICES ASSUME CInv, BeginEpoch PROVE CInv'
  OBVIOUS
<1>1. DeviceTypeOK' /\ CameraInv' /\ live' = live /\ receipt' = receipt
  BY DeviceStep, CameraStep DEF CInv, BeginEpoch, device
<1>2. SealedOK' /\ AppliedInv'
  BY <1>1, SealedKept, AppliedKept DEF BeginEpoch, recorder
<1>3. validator' \in EpochValues
  BY TickEpochType DEF BeginEpoch
<1>4. LoopTypeOK' /\ Counts' /\ Deciding'
  BY <1>1, <1>3 DEF CInv, LoopInv, LoopTypeOK, Counts, Deciding, BeginEpoch, recorder, Stages
<1>5. RecordingInv'
  <2>1. ASSUME recording # None
        PROVE  ~live /\ recording.committed = 0
    BY <2>1, OpenRows, OpenFields DEF OpenOK, BeginEpoch, RowsAtStake
  <2> QED BY <1>1, <2>1 DEF CInv, LoopInv, RecordingInv, OpenOK, Pending, BeginEpoch, recorder
<1> QED BY <1>1, <1>2, <1>4, <1>5 DEF CInv, LoopInv, SealedOK

LEMMA EpochChangedStep == CInv /\ EpochChanged => CInv'
<1> SUFFICES ASSUME CInv, EpochChanged PROVE CInv'
  OBVIOUS
<1>1. DeviceTypeOK' /\ CameraInv' /\ live' = live /\ receipt' = receipt
  BY DeviceStep, CameraStep DEF CInv, EpochChanged, device
<1>2. SealedOK' /\ recording' = None
  <2>1. recording # None /\ "operator_stopped" \in Outcomes
    BY DEF CInv, LoopInv, Deciding, EpochChanged, RowsAtStake, Outcomes
  <2> QED BY <2>1, SealOpen DEF EpochChanged, SealedOK
<1>3. AppliedInv'
  BY <1>1, AppliedKept DEF EpochChanged, history
<1>4. LoopTypeOK' /\ Counts' /\ Deciding' /\ RecordingInv'
  BY <1>2
  DEF CInv, LoopInv, LoopTypeOK, Counts, Deciding, RecordingInv, SealedOK, EpochChanged,
      Stages
<1> QED BY <1>1, <1>2, <1>3, <1>4 DEF CInv, LoopInv, SealedOK

LEMMA PrepareStep == CInv /\ Prepare => CInv'
<1> SUFFICES ASSUME CInv, Prepare PROVE CInv'
  OBVIOUS
<1>1. DeviceTypeOK' /\ CameraInv' /\ live' = live /\ receipt' = receipt
  BY DeviceStep, CameraStep DEF CInv, Prepare, device
<1>2. SealedOK' /\ AppliedInv'
  BY <1>1, SealedKept, AppliedKept DEF Prepare, recorder
<1>3. validator # None
  BY TickEpochType DEF Prepare
<1>4. LoopTypeOK' /\ Counts' /\ Deciding'
  BY <1>1, <1>3 DEF CInv, LoopInv, LoopTypeOK, Counts, Deciding, Prepare, recorder, Stages
<1>5. RecordingInv'
  BY <1>1 DEF CInv, LoopInv, Deciding, RecordingInv, OpenOK, Pending, Prepare, recorder
<1> QED BY <1>1, <1>2, <1>4, <1>5 DEF CInv, LoopInv, SealedOK

\* The update is newer than the last one consumed, and both looks are the last.
LEMMA ApplyStep == CInv /\ Apply => CInv'
<1> SUFFICES ASSUME CInv, Apply PROVE CInv'
  OBVIOUS
<1>1. decision \in Decisions /\ decision.observed = observed
      /\ decision.xr \in Inputs /\ decision.xr.update \in Nat
  BY DEF CInv, LoopInv, Deciding, Apply, Decisions, Inputs
<1>2. DeviceTypeOK' /\ receipt'.consumed = decision.xr.update
  BY <1>1, ConsumeStep DEF CInv, Apply
<1>3. CameraInv' /\ live' = live
  BY CameraStep DEF CInv, Apply
<1>4. SealedOK'
  BY SealedKept DEF Apply, recorder
<1>5. AppliedInv'
  <2>1. PICK again \in BOOLEAN :
          again <=> (applied # None /\ applied.decision.xr.update >= decision.xr.update)
    OBVIOUS
  <2>2. applied' = [decision |-> decision, step |-> step, resets |-> resets,
                    session |-> session, polled |-> receipt.session, matrix |-> matrix,
                    again |-> again]
    BY <2>1 DEF Apply
  <2>3. ~again
    <3>1. receipt.consumed \in Nat /\ decision.xr.update > receipt.consumed
      BY DEF CInv, DeviceTypeOK, Receipts, Apply, StillValid
    <3>2. applied # None => /\ applied.decision.xr.update \in Nat
                            /\ applied.decision.xr.update <= receipt.consumed
      BY DEF CInv, LoopInv, AppliedInv
    <3> QED BY <1>1, <2>1, <3>1, <3>2
  <2>4. /\ step \in Nat /\ decision.observed.step = step /\ decision.observed.resets = resets
        /\ decision.xr.transform = matrix /\ session = receipt.session
    BY DEF CInv, CameraInv, CaptureTypeOK, Apply, StillValid, Holds, IsCurrent
  <2>5. ActionsAreFresh'
    BY <2>2, <2>3, <2>4 DEF ActionsAreFresh
  <2> QED BY <1>1, <1>2, <2>2, <2>4, <2>5 DEF AppliedInv, Apply
<1>6. LoopTypeOK' /\ Counts' /\ Deciding'
  BY <1>1, <1>3 DEF CInv, LoopInv, LoopTypeOK, Counts, Deciding, Apply, recorder, Stages
<1>7. RecordingInv'
  BY <1>3 DEF CInv, LoopInv, RecordingInv, OpenOK, Pending, Apply, recorder
<1> QED BY <1>2, <1>3, <1>4, <1>5, <1>6, <1>7 DEF CInv, LoopInv, SealedOK

LEMMA PhysicsStep == CInv /\ Physics => CInv'
<1> SUFFICES ASSUME CInv, Physics PROVE CInv'
  OBVIOUS
<1>1. DeviceTypeOK' /\ CameraInv' /\ live' = live /\ receipt' = receipt
  BY DeviceStep, CameraStep DEF CInv, Physics, device
<1>2. SealedOK' /\ AppliedInv'
  BY <1>1, SealedKept, AppliedKept DEF Physics, recorder, history
<1>3. LoopTypeOK' /\ Counts' /\ Deciding'
  BY <1>1 DEF CInv, LoopInv, LoopTypeOK, Counts, Deciding, Physics, recorder, Stages
<1>4. RecordingInv'
  <2>1. recording # None => recording.committed \in Nat
    BY OpenRows, OpenFields
  <2> QED BY <1>1, <2>1
      DEF CInv, LoopInv, RecordingInv, OpenOK, Pending, Physics, recorder
<1> QED BY <1>1, <1>2, <1>3, <1>4 DEF CInv, LoopInv, SealedOK

LEMMA GuardStep == CInv /\ Guard => CInv'
<1> SUFFICES ASSUME CInv, Guard PROVE CInv'
  OBVIOUS
<1> USE CaptureAssumption
<1>1. DeviceTypeOK' /\ receipt' = receipt
  BY DeviceStep DEF CInv, Guard, device
<1>2. CameraInv' /\ live' = live
  <2>1. frames \in Nat /\ stale \in 0..(MaxStale + 1)
    BY DEF CInv, CameraInv, CaptureTypeOK
  <2>2. StaleNow \in 0..(MaxStale + 1)
    BY <2>1 DEF StaleNow, Guard, GuardAccepts
  <2> QED BY <2>1, <2>2 DEF CInv, CameraInv, CaptureTypeOK, Guard, GuardSample
<1>3. SealedOK' /\ AppliedInv'
  BY <1>1, SealedKept, AppliedKept DEF Guard, recorder, history
<1>4. LoopTypeOK' /\ Counts' /\ Deciding' /\ RecordingInv'
  BY DEF CInv, LoopInv, LoopTypeOK, Counts, Deciding, RecordingInv, OpenOK, Guard,
         recorder, Stages
<1> QED BY <1>1, <1>2, <1>3, <1>4 DEF CInv, LoopInv, SealedOK

-----------------------------------------------------------------------------
(* The row                                                                 *)

LEMMA SuccessorStep == CInv /\ Successor => CInv'
<1> SUFFICES ASSUME CInv, Successor PROVE CInv'
  OBVIOUS
<1>1. DeviceTypeOK' /\ CameraInv' /\ live' = live /\ receipt' = receipt
  BY DeviceStep, CameraStep DEF CInv, Successor, device
<1>2. SealedOK' /\ AppliedInv'
  <2>1. pc = "successor" /\ eligible
    BY DEF CInv, LoopInv, Deciding, Successor
  <2> QED BY <1>1, <2>1, SealedKept, AppliedKept DEF Successor
<1>3. recording # None /\ recording \in Open /\ OpenOK(recording) /\ eligible
  BY OpenRows DEF CInv, LoopInv, Deciding, Successor
<1>4. resets \in Nat /\ step \in Nat
  BY DEF CInv, CameraInv, CaptureTypeOK
<1>5. PICK c \in Open :
        /\ c = SuccessorCaptured(recording, resets, step)
        /\ c.committed = recording.committed /\ c.failed = recording.failed
        /\ c.rows = recording.rows /\ c.terminal = recording.terminal
        /\ c.pending = recording.pending /\ c.promoted = recording.promoted
        /\ c.successor \in Tokens
        /\ c.successor.step = step /\ c.successor.resets = resets
  BY <1>3, <1>4, SuccessorType
<1>6. recording' = c /\ c # None /\ c.successor # None
  BY <1>5, NoneIsNoEpisode DEF Successor
<1>7. LoopTypeOK' /\ Counts' /\ Deciding'
  BY <1>1, <1>2, <1>3, <1>6
  DEF CInv, LoopInv, LoopTypeOK, Counts, Deciding, SealedOK, Successor, Stages
<1>8. RecordingInv'
  BY <1>1, <1>3, <1>5, <1>6 DEF RecordingInv, OpenOK, Pending, Successor
<1> QED BY <1>1, <1>2, <1>7, <1>8 DEF CInv, LoopInv, SealedOK

\* The row the commit appends continues the stretch.
LEMMA RowContinues ==
    ASSUME CInv, pc = "commit"
    PROVE  LET r == recording
               c == Appended(r, RowAction)
           IN  /\ r \in Open /\ OpenOK(r) /\ r.pending # None /\ r.successor # None
               /\ RowAction \in Actions
               /\ Stretch(c.rows) /\ Len(c.rows) = r.committed + 1
               /\ c.rows[r.committed + 1].successor = r.successor
               /\ c.rows[1].action.epoch = validator
<1>1. /\ recording # None /\ eligible /\ validator # None /\ validator \in EpochValues
      /\ decision \in Decisions /\ decision.observed = observed
      /\ applied.step \in Nat /\ applied.step = observed.step
  BY DEF CInv, LoopInv, LoopTypeOK, Deciding, AppliedInv
<1>2. /\ recording \in Open /\ OpenOK(recording) /\ Pending(recording)
      /\ recording.pending # None /\ recording.successor # None
      /\ recording.pending = observed
  BY <1>1, OpenRows DEF OpenOK, Pending
<1>3. RowAction \in Actions
  BY <1>1 DEF RowAction, Actions, Decisions, Inputs
<1>4. PICK action \in Actions : action = RowAction
  BY <1>3
<1>5. PICK rows \in Seq(Rows(Actions)) :
        /\ rows = recording.rows /\ Stretch(rows) /\ Len(rows) = recording.committed
        /\ Len(rows) > 0 => /\ recording.pending = rows[Len(rows)].successor
                            /\ rows[1].action.epoch = validator
  BY <1>2, OpenFields DEF OpenOK, Pending
<1>6. PICK row \in Rows(Actions) :
        /\ row = [observed |-> recording.pending, successor |-> recording.successor,
                  action |-> action]
        /\ Appended(recording, action).rows = Append(rows, row)
  BY <1>2, <1>5, AppendedType
<1>7. /\ row.successor.step = row.observed.step + Repeat
      /\ row.successor.resets = row.observed.resets
      /\ row.action.step = row.observed.step /\ row.action.epoch = validator
      /\ row.successor = recording.successor
      /\ Len(rows) > 0 => row.observed = rows[Len(rows)].successor
  BY <1>1, <1>2, <1>4, <1>5, <1>6 DEF OpenOK, RowAction
<1>8. /\ Stretch(Append(rows, row)) /\ Len(Append(rows, row)) = Len(rows) + 1
      /\ Append(rows, row)[Len(rows) + 1] = row
      /\ Append(rows, row)[1].action.epoch = row.action.epoch
  BY <1>5, <1>7, StretchAppended
<1> QED BY <1>2, <1>3, <1>4, <1>5, <1>6, <1>7, <1>8

LEMMA CommitStep == CInv /\ Commit => CInv'
<1> SUFFICES ASSUME CInv, Commit PROVE CInv'
  OBVIOUS
<1>1. DeviceTypeOK' /\ CameraInv' /\ live' = live /\ receipt' = receipt
  BY DeviceStep, CameraStep DEF CInv, Commit, device
<1>2. PICK r \in Open, action \in Actions :
        /\ r = recording /\ action = RowAction /\ OpenOK(r)
        /\ r.pending # None /\ r.successor # None
  BY RowContinues DEF Commit
<1>3. PICK a \in Open :
        /\ a = Appended(r, action) /\ a.committed = r.committed /\ a.failed = r.failed
        /\ Stretch(a.rows) /\ Len(a.rows) = r.committed + 1
        /\ a.rows[r.committed + 1].successor = r.successor
        /\ a.rows[1].action.epoch = validator
  BY <1>2, RowContinues, AppendedType DEF Commit
<1>4. PICK c \in Open :
        /\ c = Committed(r, action) /\ c.committed = r.committed + 1 /\ c.failed = r.failed
        /\ c.rows = a.rows /\ c.terminal = r.successor /\ c.promoted = r.successor
  BY <1>2, <1>3, CommittedType
<1>5. r.committed \in Nat
  BY OpenFields
<1>6. AppliedInv'
  BY <1>1, AppliedKept DEF Commit
<1>7. CASE recording' = c /\ pc' = "capture" /\ UNCHANGED <<sealed, eligible>>
  <2>1. LoopTypeOK' /\ Counts' /\ Deciding'
    BY <1>7 DEF CInv, LoopInv, LoopTypeOK, Counts, Deciding, Commit, Stages
  <2>2. OpenOK(recording)'
    BY <1>1, <1>2, <1>3, <1>4, <1>5, <1>7
    DEF CInv, LoopInv, Deciding, OpenOK, Commit
  <2>3. SealedOK'
    BY <1>7, SealedKept
  <2> QED BY <1>1, <1>6, <2>1, <2>2, <2>3 DEF CInv, LoopInv, RecordingInv, SealedOK
<1>8. CASE /\ \E x \in CommitFailures(r, action) : Seal(x, "failure")
           /\ pc' = "over" /\ eligible' = FALSE
  <2>1. PICK x \in CommitFailures(r, action) : Seal(x, "failure")
    BY <1>8
  <2>2. PICK y \in {r, a, c} :
          x = [y EXCEPT !.failed = TRUE, !.pending = None, !.successor = None]
    BY <1>3, <1>4, <2>1 DEF CommitFailures
  <2>3. y \in Open /\ Gapless(y.rows)
    BY <1>2, <1>3, <1>4, <2>2 DEF OpenOK, Stretch
  <2>4. x \in Open /\ x.failed = TRUE /\ x.rows = y.rows
    BY <2>2, <2>3, NoneIsBuffer DEF Open, Episodes
  <2>5. "failure" \in Outcomes
    BY DEF Outcomes
  <2>6. SealedOK' /\ recording' = None
    BY <2>1, <2>3, <2>4, <2>5, SealOK DEF SealedOK
  <2>7. LoopTypeOK' /\ Counts' /\ Deciding' /\ RecordingInv'
    BY <1>8, <2>6
    DEF CInv, LoopInv, LoopTypeOK, Counts, Deciding, RecordingInv, SealedOK, Commit, Stages
  <2> QED BY <1>1, <1>6, <2>6, <2>7 DEF CInv, LoopInv, SealedOK
<1> QED BY <1>2, <1>4, <1>7, <1>8 DEF Commit

-----------------------------------------------------------------------------
(* The loop                                                                *)

LEMMA SurpriseStep == CInv /\ Surprise => CInv'
<1> SUFFICES ASSUME CInv, Surprise PROVE CInv'
  OBVIOUS
<1>1. /\ DeviceTypeOK' /\ CameraInv' /\ live' = live
      /\ receipt'.consumed = receipt.consumed
  BY DeviceStep, CameraStep DEF CInv, Surprise
<1>2. xrInput' = xrInput
  BY DEF Surprise, XrChanges, device
<1>3. SealedOK' /\ AppliedInv'
  BY <1>1, SealedKept, AppliedKept DEF Surprise, recorder, loop, history
<1>4. LoopTypeOK' /\ Counts' /\ Deciding'
  BY <1>1, <1>2 DEF CInv, LoopInv, LoopTypeOK, Counts, Deciding, Surprise, recorder, loop
<1>5. RecordingInv'
  BY <1>1 DEF CInv, LoopInv, RecordingInv, OpenOK, Pending, Surprise, recorder, loop
<1> QED BY <1>1, <1>3, <1>4, <1>5 DEF CInv, LoopInv, SealedOK

LEMMA StutterStep == CInv /\ UNCHANGED vars => CInv'
<1> SUFFICES ASSUME CInv, UNCHANGED vars PROVE CInv'
  OBVIOUS
<1>1. DeviceTypeOK' /\ CameraInv' /\ live' = live /\ receipt' = receipt /\ xrInput' = xrInput
  BY DeviceStep, CameraStep DEF CInv, vars, device
<1>2. SealedOK' /\ AppliedInv'
  BY <1>1, SealedKept, AppliedKept DEF vars, recorder, loop, history
<1>3. LoopTypeOK' /\ Counts' /\ Deciding'
  BY <1>1 DEF CInv, LoopInv, LoopTypeOK, Counts, Deciding, vars, recorder, loop
<1>4. RecordingInv'
  BY <1>1 DEF CInv, LoopInv, RecordingInv, OpenOK, Pending, vars, recorder, loop
<1> QED BY <1>1, <1>2, <1>3, <1>4 DEF CInv, LoopInv, SealedOK

LEMMA InitHolds == Init => CInv
<1> SUFFICES ASSUME Init PROVE CInv
  OBVIOUS
<1>1. DeviceTypeOK
  <2>1. matrix \in Matrices
    BY MatricesAssumption DEF Init, DeviceInit
  <2> QED BY <2>1 DEF Init, DeviceInit, DeviceTypeOK, Receipts
<1>2. CameraInv
  <2>1. [resets |-> 1, step |-> Settle, data |-> 1] \in Captures
    BY CaptureAssumption DEF Captures
  <2>2. latest \in Captures \cup {None}
    BY <2>1 DEF Init, CaptureInit
  <2>3. /\ live \in BOOLEAN /\ resets \in Nat /\ step \in Nat /\ generation \in Nat
        /\ frames \in Nat /\ data \in Nat /\ previous = None /\ stale = 0
        /\ 0 \in 0..(MaxStale + 1)
    BY CaptureAssumption DEF Init, CaptureInit
  <2> QED BY <2>2, <2>3 DEF CameraInv, CaptureTypeOK
<1>3. LoopInv
  <2>1. LoopTypeOK
    <3>1. /\ recording = None /\ sealed = None /\ observed = None /\ validator = None
          /\ eligible = FALSE /\ prepared = FALSE /\ pc = "capture"
          /\ steps = 0 /\ tick = 0 /\ index = 0
      BY DEF Init
    <3>2. 0 \in 0..MaxSteps /\ "capture" \in Stages
      BY StepsAssumption DEF Stages
    <3> QED BY <3>1, <3>2 DEF LoopTypeOK
  <2>2. Counts /\ Deciding
    BY DEF Init, Counts, Deciding
  <2>3. RecordingInv /\ SealedInv /\ AppliedInv
    BY DEF Init, RecordingInv, SealedInv, AppliedInv, ActionsAreFresh
  <2> QED BY <2>1, <2>2, <2>3 DEF LoopInv
<1> QED BY <1>1, <1>2, <1>3 DEF CInv

LEMMA StepHolds == CInv /\ [Next]_vars => CInv'
BY CaptureStep, PollStep, StopDemoStep, FinishDemoStep, StartDemoStep, RecordedResetStep,
   RunResetStep, HoldStep, AdmitStep, SolveStep, BeginEpochStep, EpochChangedStep,
   PrepareStep, ApplyStep, PhysicsStep, GuardStep, SuccessorStep, CommitStep, LeaveStep,
   SurpriseStep, StutterStep
DEF Next

\* Whatever happens between two stages, the loop keeps its device, its cameras,
\* its open episode and its decision consistent.
THEOREM Invariant == Spec => []CInv
BY InitHolds, StepHolds, PTL DEF Spec

\* Every variable of the loop keeps its type, and only an eligible, prepared
\* tick of an open episode reaches the successor and the commit.
THEOREM TypeCorrect == Spec => []TypeOK
<1>1. CInv => TypeOK
  BY DEF CInv, CameraInv, LoopInv, LoopTypeOK, Deciding, TypeOK, Open, States
<1> QED BY <1>1, Invariant, PTL

\* The rows of every episode, open or sealed, are one unbroken stretch of
\* simulated time of one reset epoch and one causal epoch.
THEOREM RowsAlwaysGapless == Spec => []RowsAreGapless
<1>1. CInv => RowsAreGapless
  BY DEF CInv, LoopInv, RecordingInv, OpenOK, Stretch, SealedInv, RowsAreGapless
<1> QED BY <1>1, Invariant, PTL

\* No action reaches the robots from a state or an input that is no longer the
\* one it was decided from, and no poll is used twice.
THEOREM ActionsAlwaysFresh == Spec => []ActionsAreFresh
<1>1. CInv => ActionsAreFresh
  BY DEF CInv, LoopInv, AppliedInv
<1> QED BY <1>1, Invariant, PTL

\* An episode handed over as the operator's has rows, counts them all, and ends
\* with the observation its last row led to.
THEOREM SealedAlwaysWhole == Spec => []SealedIsWhole
<1>1. CInv => SealedIsWhole
  BY DEF CInv, LoopInv, SealedInv, SealedIsWhole
<1> QED BY <1>1, Invariant, PTL

\* The camera guard never takes a reset for a camera that went backwards.
THEOREM ResetNeverRegression == Spec => []ResetIsNoRegression
<1>1. CInv => ResetIsNoRegression
  BY DEF CInv, CameraInv, ResetIsNoRegression
<1> QED BY <1>1, Invariant, PTL
=============================================================================
