----------------------- MODULE TemporalRecording_proofs -----------------------
(***************************************************************************)
(* Proofs about TemporalRecording, for every set of CAN components and     *)
(* every limit: a failed connect powers no arm, the arms move together,    *)
(* and a saved episode is what moved them, on fresh feedback.              *)
(***************************************************************************)
EXTENDS TemporalRecording, TLAPS, WellFoundedInduction, SequenceTheorems

-----------------------------------------------------------------------------
(* The invariant of the arms                                               *)

ArmStates == [connected : BOOLEAN, configured : BOOLEAN, enabled : BOOLEAN,
              powered : BOOLEAN, camera : BOOLEAN]

ArmInv ==
    /\ arm \in [Arms -> ArmStates]
    /\ off \subseteq Arms
    /\ FailedConnectPowersNothing

MotionInv == behind \subseteq torn /\ torn \subseteq Drives

\* The loop's own action has moved every drive.
Delivered == step = "sent" => behind = {}

\* The copy under the lock has the value and the time of one message.
FeedbackInv ==
    /\ now \in Nat \ {0}
    /\ live \in [Feeds -> Nat]
    /\ store \in [Feeds -> [value : Nat, stamp : Nat]]
    /\ hand # None => hand \in Feeds
    /\ \A f \in Feeds : store[f].value = store[f].stamp

-----------------------------------------------------------------------------
(* The invariant of the recorder                                           *)

Observations == [value : Nat, state : Nat, camera : Nat]
RowsOf == [frame : Timings, timing : Timings, selected : Nat]
Sources == {"state", "camera", "action"}

\* What the loop holds: an observation dated by its oldest value.
Held ==
    /\ step \in {"ready", "observing", "observed", "selected", "sent"}
    /\ action \in Nat
    /\ step # "ready" => seen \in Observations /\ seen.value = seen.state

LoopTypeOK ==
    /\ pending \in Prepareds \cup {None}
    /\ last \in Timings \cup {None}
    /\ buffer \in Seq(RowsOf) /\ moved \in Seq(Timings)
    /\ dishonest = FALSE

\* A prepared frame is fresh at the time of its action.
Fresh(p) ==
    /\ p.selected - p.timing.state <= StateAge
    /\ p.selected - p.timing.camera <= CameraAge
    /\ last # None => \A x \in Sources : p.timing[x] > last[x]

\* Between the action and its row, the prepared frame is the tick's own.
Ticket ==
    step \in {"selected", "sent"} =>
        /\ pending # None
        /\ pending.timing = Frame
        /\ Fresh(pending)

\* The arms moved by what is in the buffer, and by the frame under way.
Books ==
    /\ (pending = None \/ step = "selected") => Honest
    /\ step = "sent" =>
           moved = Append([i \in DOMAIN buffer |-> buffer[i].frame], Frame)

\* The validator remembers the last row, unless a frame is stuck.
Remembers ==
    (pending = None \/ step \in {"selected", "sent"}) /\ buffer # << >> =>
        last = buffer[Len(buffer)].timing

OwnTiming == \A i \in DOMAIN buffer : buffer[i].timing = buffer[i].frame

RecorderInv ==
    Held /\ LoopTypeOK /\ Ticket /\ Books /\ Remembers /\ OwnTiming /\ RowsAreFresh

TInv == ArmInv /\ MotionInv /\ Delivered /\ FeedbackInv /\ RecorderInv

-----------------------------------------------------------------------------
(* Connecting                                                              *)

LEMMA OffType == Off \in ArmStates /\ DOMAIN Off = {"connected", "configured", "enabled",
                                                  "powered", "camera"}
BY DEF Off, ArmStates

\* A forced cleanup leaves no motor powered unless DisableArm raises, and no
\* cleanup powers one.
LEMMA CleanedArm ==
    ASSUME NEW s \in ArmStates, NEW force \in BOOLEAN, NEW cameras \in BOOLEAN,
           NEW broken \in SUBSET {"disable", "camera"}
    PROVE  LET c == Cleaned(s, force, cameras, broken)
           IN  /\ c \in ArmStates
               /\ ~s.powered => ~c.powered
               /\ force /\ "disable" \notin broken => ~c.powered
BY DEF Cleaned, Off, ArmStates

\* How far connect() came when a call raised.
LEMMA ReachedArm ==
    ASSUME NEW s \in ArmStates, NEW call \in Calls, NEW late \in BOOLEAN
    PROVE  LET c == Reached(s, call, late)
           IN  /\ c \in ArmStates
               /\ call \in {"port", "configure"} => c.powered = s.powered
<1>1. CASE call = "port"
  <2>1. Reached(s, call, late) = s
    BY <1>1, Zenon DEF Reached
  <2> QED BY <2>1
<1>2. CASE call = "configure"
  <2>1. Reached(s, call, late) =
          [s EXCEPT !.connected = TRUE, !.configured = FALSE, !.enabled = FALSE]
    BY <1>2, Zenon DEF Reached
  <2> QED BY <2>1 DEF ArmStates
<1>3. CASE call = "enable"
  <2>1. Reached(s, call, late) =
          [s EXCEPT !.connected = TRUE, !.configured = TRUE, !.enabled = FALSE,
                      !.powered = @ \/ late]
    BY <1>3, Zenon DEF Reached
  <2> QED BY <1>3, <2>1 DEF ArmStates
<1>4. CASE call = "camera"
  <2>1. Reached(s, call, late) =
          [s EXCEPT !.connected = TRUE, !.configured = TRUE, !.enabled = TRUE,
                      !.powered = TRUE, !.camera = @ \/ late]
    BY <1>4, Zenon DEF Reached
  <2> QED BY <1>4, <2>1 DEF ArmStates
<1> QED BY <1>1, <1>2, <1>3, <1>4 DEF Calls

\* One arm's connect(): if it raised an exception, the motors it found without
\* power have none, unless DisableArm raised too.
LEMMA ConnectsArm ==
    ASSUME NEW a \in Arms, NEW s \in ArmStates,
           NEW broken \in SUBSET {"disable", "camera"}, NEW o \in Connects(a, s, broken)
    PROVE  /\ o.arm \in ArmStates
           /\ o.raised = "exception" /\ ~s.powered /\ "disable" \notin broken =>
                  ~o.arm.powered
<1>1. CASE IsConnected(a, s)
  BY <1>1 DEF Connects
<1>2. CASE ~IsConnected(a, s)
  <2> DEFINE up == [x \in DOMAIN Off |-> x = "camera" => a \in Cameras]
  <2>1. \/ o = [arm |-> up, raised |-> "no"]
        \/ \E call \in Calls, late \in BOOLEAN :
              \/ o = [arm |-> Reached(s, call, late), raised |-> "interrupt"]
              \/ o = [arm |-> Cleaned(Reached(s, call, late),
                                      call \in {"enable", "camera"}, call = "camera", broken),
                      raised |-> "exception"]
    BY <1>2 DEF Connects
  <2>2. CASE o = [arm |-> up, raised |-> "no"]
    <3>1. up \in ArmStates
      <4>1. DOMAIN up = {"connected", "configured", "enabled", "powered", "camera"}
        BY OffType
      <4>2. \A x \in DOMAIN up : up[x] \in BOOLEAN
        OBVIOUS
      <4>3. up = [connected |-> up["connected"], configured |-> up["configured"],
                  enabled |-> up["enabled"], powered |-> up["powered"],
                  camera |-> up["camera"]]
        BY <4>1
      <4> HIDE DEF up
      <4> QED BY <4>1, <4>2, <4>3 DEF ArmStates
    <3> QED BY <2>2, <3>1
  <2>3. ASSUME NEW call \in Calls, NEW late \in BOOLEAN,
               o = [arm |-> Reached(s, call, late), raised |-> "interrupt"]
        PROVE  /\ o.arm \in ArmStates
               /\ o.raised = "exception" /\ ~s.powered /\ "disable" \notin broken =>
                      ~o.arm.powered
    BY <2>3, ReachedArm
  <2>4. ASSUME NEW call \in Calls, NEW late \in BOOLEAN,
               o = [arm |-> Cleaned(Reached(s, call, late),
                                    call \in {"enable", "camera"}, call = "camera", broken),
                    raised |-> "exception"]
        PROVE  /\ o.arm \in ArmStates
               /\ o.raised = "exception" /\ ~s.powered /\ "disable" \notin broken =>
                      ~o.arm.powered
    <3> DEFINE r == Reached(s, call, late)
    <3>1. r \in ArmStates /\ (call \in {"port", "configure"} => r.powered = s.powered)
      BY ReachedArm
    <3>2. PICK force \in BOOLEAN : force <=> call \in {"enable", "camera"}
      OBVIOUS
    <3>3. PICK cameras \in BOOLEAN : cameras <=> call = "camera"
      OBVIOUS
    <3>4. o.arm = Cleaned(r, force, cameras, broken)
      BY <2>4, <3>2, <3>3 DEF Cleaned
    <3>5. ~force => (~s.powered => ~r.powered)
      BY <3>1, <3>2 DEF Calls
    <3> HIDE DEF r
    <3> QED BY <3>1, <3>4, <3>5, CleanedArm
  <2> QED BY <2>1, <2>2, <2>3, <2>4
<1> QED BY <1>1, <1>2

LEMMA ConnectStep == ArmInv /\ Connect => ArmInv'
<1> SUFFICES ASSUME ArmInv, Connect PROVE ArmInv'
  OBVIOUS
<1> USE DEF Arms
<1>1. /\ arm \in [Arms -> ArmStates]
      /\ arm["left"] \in ArmStates /\ arm["right"] \in ArmStates
  BY DEF ArmInv
<1>2. PICK broken \in [Arms -> SUBSET {"disable", "camera"}] :
       \E left \in Connects("left", arm["left"], broken["left"]) :
          \/ /\ left.raised # "no"
             /\ arm' = [arm EXCEPT !["left"] = left.arm]
             /\ off' = IF left.raised = "interrupt" THEN {}
                       ELSE {a \in Arms : ~arm[a].powered /\ "disable" \notin broken[a]}
          \/ /\ left.raised = "no"
             /\ \E right \in Connects("right", arm["right"], broken["right"]) :
                   \/ /\ right.raised # "exception"
                      /\ arm' = [left |-> left.arm, right |-> right.arm]
                      /\ off' = {}
                   \/ /\ right.raised = "exception"
                      /\ arm' = [left |-> RolledBack(left.arm, broken["left"]),
                                 right |-> right.arm]
                      /\ off' = {a \in Arms : ~arm[a].powered /\ "disable" \notin broken[a]}
  BY DEF Connect, Breakages
<1>3. broken["left"] \in SUBSET {"disable", "camera"}
      /\ broken["right"] \in SUBSET {"disable", "camera"}
  OBVIOUS
<1>4. PICK left \in Connects("left", arm["left"], broken["left"]) :
          \/ /\ left.raised # "no"
             /\ arm' = [arm EXCEPT !["left"] = left.arm]
             /\ off' = IF left.raised = "interrupt" THEN {}
                       ELSE {a \in Arms : ~arm[a].powered /\ "disable" \notin broken[a]}
          \/ /\ left.raised = "no"
             /\ \E right \in Connects("right", arm["right"], broken["right"]) :
                   \/ /\ right.raised # "exception"
                      /\ arm' = [left |-> left.arm, right |-> right.arm]
                      /\ off' = {}
                   \/ /\ right.raised = "exception"
                      /\ arm' = [left |-> RolledBack(left.arm, broken["left"]),
                                 right |-> right.arm]
                      /\ off' = {a \in Arms : ~arm[a].powered /\ "disable" \notin broken[a]}
  BY <1>2
<1>5. /\ left.arm \in ArmStates
      /\ left.raised = "exception" /\ ~arm["left"].powered
         /\ "disable" \notin broken["left"] => ~left.arm.powered
  BY <1>1, <1>3, ConnectsArm
<1>6. left.raised \in {"no", "interrupt", "exception"}
  BY DEF Connects
<1>7. CASE /\ left.raised # "no"
           /\ arm' = [arm EXCEPT !["left"] = left.arm]
           /\ off' = IF left.raised = "interrupt" THEN {}
                     ELSE {a \in Arms : ~arm[a].powered /\ "disable" \notin broken[a]}
  BY <1>1, <1>5, <1>6, <1>7 DEF ArmInv, FailedConnectPowersNothing
<1>8. ASSUME NEW right \in Connects("right", arm["right"], broken["right"]),
             \/ /\ right.raised # "exception"
                /\ arm' = [left |-> left.arm, right |-> right.arm]
                /\ off' = {}
             \/ /\ right.raised = "exception"
                /\ arm' = [left |-> RolledBack(left.arm, broken["left"]),
                           right |-> right.arm]
                /\ off' = {a \in Arms : ~arm[a].powered /\ "disable" \notin broken[a]}
      PROVE  ArmInv'
  <2>1. /\ right.arm \in ArmStates
        /\ right.raised = "exception" /\ ~arm["right"].powered
           /\ "disable" \notin broken["right"] => ~right.arm.powered
    BY <1>1, <1>3, ConnectsArm
  <2>2. /\ RolledBack(left.arm, broken["left"]) \in ArmStates
        /\ "disable" \notin broken["left"] => ~RolledBack(left.arm, broken["left"]).powered
    BY <1>3, <1>5, CleanedArm DEF RolledBack
  <2> QED BY <1>5, <1>8, <2>1, <2>2 DEF ArmInv, FailedConnectPowersNothing
<1> QED BY <1>4, <1>7, <1>8

LEMMA DisconnectStep == ArmInv /\ Disconnect => ArmInv'
<1> SUFFICES ASSUME ArmInv, Disconnect PROVE ArmInv'
  OBVIOUS
<1>1. PICK broken \in [Arms -> SUBSET {"disable", "camera"}] :
        arm' = [a \in Arms |-> IF Resources(arm[a])
                               THEN Cleaned(arm[a], FALSE, TRUE, broken[a]) ELSE arm[a]]
  BY DEF Disconnect, Breakages
<1>2. \A a \in Arms : arm'[a] \in ArmStates /\ (~arm[a].powered => ~arm'[a].powered)
  <2> TAKE a \in Arms
  <2>1. arm[a] \in ArmStates /\ broken[a] \in SUBSET {"disable", "camera"}
    BY DEF ArmInv
  <2>2. /\ Cleaned(arm[a], FALSE, TRUE, broken[a]) \in ArmStates
        /\ ~arm[a].powered => ~Cleaned(arm[a], FALSE, TRUE, broken[a]).powered
    BY <2>1, CleanedArm
  <2> QED BY <1>1, <2>1, <2>2
<1>3. arm' \in [Arms -> ArmStates]
  BY <1>1, <1>2
<1> QED BY <1>2, <1>3 DEF ArmInv, FailedConnectPowersNothing, Disconnect

LEMMA CameraDropsStep ==
    ASSUME NEW a \in Arms, ArmInv, CameraDrops(a)
    PROVE  ArmInv'
<1>1. arm' = [arm EXCEPT ![a].camera = FALSE] /\ off' = off
  BY DEF CameraDrops
<1>2. \A b \in Arms : arm'[b] \in ArmStates /\ arm'[b].powered = arm[b].powered
  BY <1>1 DEF ArmInv, ArmStates
<1>3. arm' \in [Arms -> ArmStates]
  BY <1>1, <1>2 DEF ArmInv
<1> QED BY <1>1, <1>2, <1>3 DEF ArmInv, FailedConnectPowersNothing

-----------------------------------------------------------------------------
(* Moving                                                                  *)

LEMMA SendActionStep ==
    ASSUME MotionInv, NEW asks, asks \subseteq Drives, NEW bad, NEW served,
           SendAction(asks, bad, served)
    PROVE  MotionInv'
BY DEF MotionInv, SendAction, Commanded

LEMMA ThereAreDrives == Drives # {}
<1>1. <<"left", "joints">> \in Drives
  BY DEF Drives, Arms
<1> QED BY <1>1

\* An action that is served as a whole leaves no drive behind.
LEMMA WholeAction ==
    ASSUME MotionInv, NEW bad, NEW served, SendAction(Drives, bad, served),
           Commanded(Drives, bad, served) = Drives
    PROVE  behind' = {}
<1>1. bad = {}
  BY ThereAreDrives DEF Commanded
<1> QED BY <1>1 DEF SendAction, MotionInv

-----------------------------------------------------------------------------
(* Feedback                                                                *)

\* A set of numbers has a least one.
LEMMA MinOfNat ==
    ASSUME NEW S, S \subseteq Nat, S # {}
    PROVE  Min(S) \in S
<1>1. PICK m \in S : \A y \in S : ~(<<y, m>> \in OpToRel(<, Nat))
  BY NatLessThanWellFounded, WFMin
<1>2. \A y \in S : ~(y < m)
  <2>1. \A y \in S : y \in Nat /\ m \in Nat
    OBVIOUS
  <2> QED BY <1>1, <2>1 DEF OpToRel
<1>3. \A y \in S : m <= y
  BY <1>2
<1> QED BY <1>3 DEF Min

LEMMA ParseFrameStep == \A f \in Feeds : FeedbackInv /\ ParseFrame(f) => FeedbackInv'
BY DEF FeedbackInv, ParseFrame

LEMMA StoreFrameStep == FeedbackInv /\ StoreFrame => FeedbackInv'
BY DEF FeedbackInv, StoreFrame

\* The state of an arm is as old as its oldest value.
LEMMA OldestType ==
    ASSUME FeedbackInv, NEW a \in Arms
    PROVE  OldestComponent(a) \in Nat /\ OldestValue(a) = OldestComponent(a)
<1> DEFINE stamps == {store[f].stamp : f \in FeedsOf(a)}
           values == {store[f].value : f \in FeedsOf(a)}
<1>1. stamps # {} /\ stamps \subseteq Nat
  BY FeedsAssumption DEF FeedbackInv, FeedsOf, Arms
<1>2. values = stamps
  BY DEF FeedbackInv, FeedsOf
<1>3. OldestComponent(a) = Min(stamps) /\ OldestValue(a) = Min(values)
  BY DEF OldestComponent, OldestValue
<1> HIDE DEF stamps, values
<1> QED BY <1>1, <1>2, <1>3, MinOfNat

-----------------------------------------------------------------------------
(* The record loop                                                         *)

LEMMA RecorderStutter ==
    ASSUME RecorderInv, UNCHANGED <<loopVars, datasetVars>>
    PROVE  RecorderInv'
BY DEF RecorderInv, Held, LoopTypeOK, Ticket, Fresh, Frame, Books, Honest, Remembers,
   OwnTiming, RowsAreFresh, loopVars, datasetVars

\* However a tick ends, what it prepared and what is recorded stays.
LEMMA LeaveStep ==
    ASSUME RecorderInv, Leave, UNCHANGED <<last, dishonest>>,
           \/ UNCHANGED <<pending, buffer, moved>> /\ step # "sent"
           \/ pending' # None /\ UNCHANGED <<pending, buffer>> /\ moved' \in Seq(Timings)
    PROVE  RecorderInv'
<1>1. Held' /\ LoopTypeOK' /\ Ticket'
  BY DEF RecorderInv, Held, LoopTypeOK, Ticket, Leave
<1>2. Books' /\ Remembers'
  BY DEF RecorderInv, Books, Honest, Remembers, Leave, Held
<1>3. OwnTiming' /\ RowsAreFresh'
  BY DEF RecorderInv, OwnTiming, RowsAreFresh
<1> QED BY <1>1, <1>2, <1>3 DEF RecorderInv

LEMMA InterruptedStep == RecorderInv /\ Interrupted => RecorderInv'
<1> SUFFICES ASSUME RecorderInv, Interrupted PROVE RecorderInv'
  OBVIOUS
<1>1. step \in {"selected", "sent"} => pending # None
  BY DEF RecorderInv, Ticket
<1> QED BY <1>1, LeaveStep DEF Interrupted, datasetVars, RecorderInv, LoopTypeOK

LEMMA ObserveLeftStep ==
    ASSUME FeedbackInv, RecorderInv, NEW image \in 1..now, ObserveLeft(image)
    PROVE  RecorderInv'
<1>1. /\ OldestComponent("left") \in Nat
      /\ OldestValue("left") = OldestComponent("left")
  BY OldestType DEF Arms
<1>2. image \in Nat
  BY DEF FeedbackInv
<1>3. Held'
  BY <1>1, <1>2 DEF RecorderInv, Held, ObserveLeft, Observations
<1>4. LoopTypeOK' /\ Ticket' /\ Books' /\ Remembers' /\ OwnTiming' /\ RowsAreFresh'
  BY DEF RecorderInv, Held, LoopTypeOK, Ticket, Books, Honest, Remembers, OwnTiming,
     RowsAreFresh, ObserveLeft, datasetVars
<1> QED BY <1>3, <1>4 DEF RecorderInv

LEMMA ObserveRightStep ==
    ASSUME FeedbackInv, RecorderInv, ObserveRight
    PROVE  RecorderInv'
<1>1. /\ OldestComponent("right") \in Nat
      /\ OldestValue("right") = OldestComponent("right")
  BY OldestType DEF Arms
<1>2. seen \in Observations /\ seen.value = seen.state
  BY DEF RecorderInv, Held, ObserveRight
<1>3. /\ Min({seen.state, OldestComponent("right")}) \in Nat
      /\ Min({seen.value, OldestValue("right")}) = Min({seen.state, OldestComponent("right")})
  <2>1. {seen.state, OldestComponent("right")} \subseteq Nat
    BY <1>1, <1>2 DEF Observations
  <2> QED BY <1>1, <1>2, <2>1, MinOfNat
<1>4. Held'
  BY <1>1, <1>2, <1>3 DEF RecorderInv, Held, ObserveRight, Observations
<1>5. LoopTypeOK' /\ Ticket' /\ Books' /\ Remembers' /\ OwnTiming' /\ RowsAreFresh'
  BY DEF RecorderInv, Held, LoopTypeOK, Ticket, Books, Honest, Remembers, OwnTiming,
     RowsAreFresh, ObserveRight, datasetVars
<1> QED BY <1>4, <1>5 DEF RecorderInv

\* An action is selected only on a valid observation and with nothing stuck.
LEMMA GetActionStep ==
    ASSUME FeedbackInv, RecorderInv, GetAction
    PROVE  RecorderInv'
<1>1. CASE pending = None /\ Valid(Timing)
  <2>0. /\ pending' = [timing |-> Timing, selected |-> now]
        /\ step' = "selected" /\ action' = now /\ UNCHANGED seen
        /\ step = "observed" /\ UNCHANGED <<last, buffer, moved, dishonest>>
    BY <1>1 DEF GetAction, Prepare
  <2>1. /\ seen \in Observations /\ seen.value = seen.state /\ now \in Nat
        /\ seen.state \in Nat /\ seen.camera \in Nat
    BY <2>0 DEF RecorderInv, Held, FeedbackInv, Observations
  <2>2. Timing \in Timings
    BY <2>1 DEF Timing, Timings
  <2>3. pending' \in Prepareds /\ pending' # None /\ pending'.timing = Timing
        /\ pending'.selected = now
    BY <2>0, <2>1, <2>2, NoneAssumption DEF Prepareds
  <2>4. Held' /\ LoopTypeOK'
    BY <2>0, <2>1, <2>3 DEF RecorderInv, Held, LoopTypeOK
  <2>5. Timing = Frame'
    BY <2>0, <2>1 DEF Timing, Frame
  <2>6. Fresh(pending)'
    <3>1. /\ now - Timing.state <= StateAge /\ now - Timing.camera <= CameraAge
          /\ last # None => \A x \in DOMAIN Timing : Timing[x] > last[x]
      BY <1>1 DEF Valid
    <3>2. DOMAIN Timing = Sources
      BY DEF Timing, Sources
    <3> QED BY <2>0, <2>3, <3>1, <3>2 DEF Fresh
  <2>7. Ticket'
    BY <2>3, <2>5, <2>6 DEF Ticket
  <2>8. Books' /\ Remembers' /\ OwnTiming' /\ RowsAreFresh'
    BY <1>1, <2>0 DEF RecorderInv, Books, Honest, Remembers, OwnTiming, RowsAreFresh
  <2> QED BY <2>4, <2>7, <2>8 DEF RecorderInv
<1>2. CASE ~(pending = None /\ Valid(Timing))
  BY <1>2, LeaveStep DEF GetAction, Prepare
<1> QED BY <1>1, <1>2

\* The action that moves the arms is the one the frame was prepared for.
LEMMA SendStep ==
    ASSUME RecorderInv, NEW bad, NEW served, Send(bad, served)
    PROVE  RecorderInv'
<1>0. /\ step = "selected" /\ UNCHANGED <<pending, last, buffer, dishonest>>
      /\ moved' = IF Commanded(Drives, bad, served) = {} THEN moved ELSE Append(moved, Frame)
      /\ pending # None /\ pending.timing = Frame /\ moved \in Seq(Timings)
      /\ pending \in Prepareds
  BY DEF Send, RecorderInv, Ticket, LoopTypeOK
<1>1. Frame \in Timings
  BY <1>0 DEF Prepareds
<1>2. moved' \in Seq(Timings)
  BY <1>0, <1>1
<1>3. CASE Commanded(Drives, bad, served) = Drives
  <2>1. step' = "sent" /\ UNCHANGED <<seen, action>> /\ moved' = Append(moved, Frame)
        /\ Frame' = Frame
    BY <1>0, <1>3, ThereAreDrives DEF Send, Frame
  <2>2. Held' /\ LoopTypeOK' /\ Ticket'
    BY <1>0, <1>2, <2>1 DEF RecorderInv, Held, LoopTypeOK, Ticket, Fresh
  <2>3. Books'
    BY <1>0, <2>1 DEF RecorderInv, Books, Honest
  <2>4. Remembers' /\ OwnTiming' /\ RowsAreFresh'
    BY <1>0, <2>1 DEF RecorderInv, Remembers, OwnTiming, RowsAreFresh
  <2> QED BY <2>2, <2>3, <2>4 DEF RecorderInv
<1>4. CASE Commanded(Drives, bad, served) # Drives
  BY <1>0, <1>2, <1>4, LeaveStep DEF Send
<1> QED BY <1>3, <1>4

\* The row that is appended follows from the one the validator remembers.
LEMMA RowAppended ==
    ASSUME RecorderInv, step = "sent"
    PROVE  /\ Row \in RowsOf
           /\ Append(buffer, Row) \in Seq(RowsOf)
           /\ buffer' = Append(buffer, Row) => OwnTiming' /\ RowsAreFresh'
<1>0. /\ pending \in Prepareds /\ pending # None /\ pending.timing = Frame
      /\ Fresh(pending) /\ buffer \in Seq(RowsOf)
  BY DEF RecorderInv, Ticket, LoopTypeOK
<1>1. /\ Row \in RowsOf /\ Row.timing = Row.frame /\ Row.timing = pending.timing
      /\ Row.selected = pending.selected
  BY <1>0 DEF Row, RowsOf, Prepareds
<1>2. buffer # << >> => last # None /\ last = buffer[Len(buffer)].frame
  <2> SUFFICES ASSUME buffer # << >> PROVE last # None /\ last = buffer[Len(buffer)].frame
    OBVIOUS
  <2>1. Len(buffer) \in DOMAIN buffer /\ buffer[Len(buffer)] \in RowsOf
    BY <1>0, EmptySeq
  <2>2. last = buffer[Len(buffer)].timing
    BY DEF RecorderInv, Remembers
  <2>3. last \in Timings
    BY <2>1, <2>2 DEF RowsOf
  <2> QED BY <2>1, <2>2, <2>3, NoneAssumption DEF RecorderInv, OwnTiming
<1>3. ASSUME buffer' = Append(buffer, Row) PROVE OwnTiming' /\ RowsAreFresh'
  <2>1. /\ Len(buffer) \in Nat /\ DOMAIN buffer = 1..Len(buffer)
        /\ DOMAIN buffer' = 1..(Len(buffer) + 1)
        /\ buffer'[Len(buffer) + 1] = Row
        /\ \A i \in DOMAIN buffer : buffer'[i] = buffer[i]
    BY <1>0, <1>1, <1>3, AppendProperties
  <2>2. OwnTiming'
    <3>1. ASSUME NEW i \in DOMAIN buffer' PROVE buffer'[i].timing = buffer'[i].frame
      <4>1. CASE i \in DOMAIN buffer
        BY <2>1, <4>1 DEF RecorderInv, OwnTiming
      <4>2. CASE i = Len(buffer) + 1
        BY <1>1, <2>1, <4>2
      <4> QED BY <2>1, <4>1, <4>2
    <3> QED BY <3>1 DEF OwnTiming
  <2>3. ASSUME NEW i \in DOMAIN buffer'
        PROVE  /\ buffer'[i].selected - buffer'[i].frame.state <= StateAge
               /\ buffer'[i].selected - buffer'[i].frame.camera <= CameraAge
               /\ i > 1 => \A x \in DOMAIN buffer'[i].frame :
                              buffer'[i].frame[x] > buffer'[i - 1].frame[x]
    <3>1. CASE i \in DOMAIN buffer
      <4>1. i > 1 => i - 1 \in DOMAIN buffer
        BY <2>1, <3>1
      <4> QED BY <2>1, <3>1, <4>1 DEF RecorderInv, RowsAreFresh
    <3>2. CASE i = Len(buffer) + 1
      <4>1. buffer'[i] = Row /\ Row.frame = pending.timing
        BY <1>1, <2>1, <3>2
      <4>2. DOMAIN Row.frame = Sources
        BY DEF Row, Frame, Sources
      <4>3. ASSUME i > 1 PROVE \A x \in Sources : Row.frame[x] > buffer'[i - 1].frame[x]
        <5>1. i - 1 = Len(buffer) /\ i - 1 \in DOMAIN buffer /\ buffer # << >>
          BY <2>1, <3>2, <4>3
        <5>2. last # None /\ last = buffer'[i - 1].frame
          BY <1>2, <2>1, <5>1
        <5> QED BY <1>0, <4>1, <5>2 DEF Fresh
      <4> QED BY <1>0, <1>1, <4>1, <4>2, <4>3 DEF Fresh
    <3> QED BY <2>1, <3>1, <3>2
  <2> QED BY <2>2, <2>3 DEF RowsAreFresh
<1> QED BY <1>0, <1>1, <1>3

LEMMA AddFrameStep == RecorderInv /\ AddFrame => RecorderInv'
<1> SUFFICES ASSUME RecorderInv, AddFrame PROVE RecorderInv'
  OBVIOUS
<1>0. /\ step = "sent" /\ buffer' = Append(buffer, Row) /\ last' = pending.timing
      /\ pending' = None /\ Leave /\ UNCHANGED <<moved, dishonest>>
      /\ buffer \in Seq(RowsOf) /\ pending \in Prepareds
  BY DEF AddFrame, RecorderInv, Ticket, LoopTypeOK
<1>1. /\ Row \in RowsOf /\ Append(buffer, Row) \in Seq(RowsOf)
      /\ OwnTiming' /\ RowsAreFresh'
  BY <1>0, RowAppended
<1>2. /\ Len(buffer) \in Nat /\ DOMAIN buffer = 1..Len(buffer)
      /\ Len(buffer') = Len(buffer) + 1
      /\ DOMAIN buffer' = 1..(Len(buffer) + 1)
      /\ buffer'[Len(buffer) + 1] = Row
      /\ \A i \in DOMAIN buffer : buffer'[i] = buffer[i]
  BY <1>0, <1>1, AppendProperties
<1>3. Held' /\ LoopTypeOK' /\ Ticket'
  BY <1>0, <1>1 DEF RecorderInv, Held, LoopTypeOK, Ticket, Leave, Prepareds
<1>4. Remembers'
  BY <1>0, <1>2 DEF Remembers, Row
<1>5. Books'
  <2> DEFINE frames == [i \in DOMAIN buffer |-> buffer[i].frame]
  <2>1. moved = Append(frames, Frame)
    BY <1>0 DEF RecorderInv, Books
  <2>2. \A i \in 1..Len(buffer) : buffer[i].frame \in Timings
    <3>1. \A i \in 1..Len(buffer) : buffer[i] \in RowsOf
      BY <1>0
    <3> QED BY <3>1 DEF RowsOf
  <2>3. frames \in Seq(Timings) /\ Len(frames) = Len(buffer)
    BY <1>2, <2>2
  <2>4. Frame \in Timings /\ Row.frame = Frame
    BY <1>1 DEF RowsOf, Row
  <2>5. /\ DOMAIN moved = 1..(Len(buffer) + 1)
        /\ moved[Len(buffer) + 1] = Frame
        /\ \A i \in 1..Len(buffer) : moved[i] = frames[i]
        /\ moved \in Seq(Timings)
    <3> HIDE DEF frames
    <3> QED BY <2>1, <2>3, <2>4, AppendProperties
  <2>6. \A i \in 1..Len(buffer) : moved[i] = buffer[i].frame
    BY <1>2, <2>5
  <2> HIDE DEF frames
  <2>7. \A i \in 1..(Len(buffer) + 1) : moved[i] = buffer'[i].frame
    BY <1>2, <2>4, <2>5, <2>6
  <2>8. moved = [i \in 1..(Len(buffer) + 1) |-> moved[i]]
    BY <2>5
  <2>9. Honest'
    BY <1>0, <1>2, <2>7, <2>8 DEF Honest
  <2> QED BY <1>0, <2>9 DEF Books, Leave
<1> QED BY <1>1, <1>3, <1>4, <1>5 DEF RecorderInv

LEMMA AddFrameRaisesStep == RecorderInv /\ AddFrameRaises => RecorderInv'
<1> SUFFICES ASSUME RecorderInv, AddFrameRaises PROVE RecorderInv'
  OBVIOUS
<1>0. /\ step = "sent" /\ buffer' \in {buffer, Append(buffer, Row)} /\ Leave
      /\ UNCHANGED <<pending, last, moved, dishonest>> /\ pending # None
      /\ Append(buffer, Row) \in Seq(RowsOf)
  BY RowAppended DEF AddFrameRaises, RecorderInv, Ticket
<1>1. OwnTiming' /\ RowsAreFresh'
  BY <1>0, RowAppended DEF RecorderInv, OwnTiming, RowsAreFresh
<1>2. Held' /\ LoopTypeOK' /\ Ticket'
  BY <1>0 DEF RecorderInv, Held, LoopTypeOK, Ticket, Leave
<1>3. Books' /\ Remembers'
  BY <1>0 DEF Books, Remembers, Leave
<1> QED BY <1>1, <1>2, <1>3 DEF RecorderInv

\* Between ticks the books are closed, or emptied.
LEMMA EpisodeStep ==
    ASSUME RecorderInv, SaveEpisode \/ ClearEpisode \/ EpisodeRaises
    PROVE  RecorderInv'
<1>1. /\ step = "ready" /\ UNCHANGED loopVars /\ buffer' = << >> /\ moved' = << >>
      /\ pending' \in {pending, None} /\ last' \in {last, None}
      /\ dishonest' = FALSE
  BY DEF RecorderInv, LoopTypeOK, Books, SaveEpisode, ClearEpisode, EpisodeRaises,
     Emptied, ResetEpisode
<1>2. << >> \in Seq(RowsOf) /\ << >> \in Seq(Timings) /\ DOMAIN buffer' = {}
  BY <1>1, EmptySeq
<1>3. Held' /\ LoopTypeOK' /\ Ticket'
  BY <1>1, <1>2 DEF RecorderInv, Held, LoopTypeOK, Ticket, loopVars
<1>4. Books' /\ Remembers' /\ OwnTiming' /\ RowsAreFresh'
  BY <1>1, <1>2 DEF Books, Honest, Remembers, OwnTiming, RowsAreFresh, loopVars
<1> QED BY <1>3, <1>4 DEF RecorderInv

-----------------------------------------------------------------------------
(* The specification                                                       *)

LEMMA InitHolds == Init => TInv
<1> SUFFICES ASSUME Init PROVE TInv
  OBVIOUS
<1>1. ArmInv /\ MotionInv /\ Delivered
  BY DEF Init, InitFollower, ArmInv, MotionInv, Delivered, FailedConnectPowersNothing,
     Arms, Off, ArmStates
<1>2. FeedbackInv
  BY DEF Init, InitFollower, FeedbackInv, NoFrame
<1>3. RecorderInv
  <2>1. << >> \in Seq(RowsOf) /\ << >> \in Seq(Timings)
    BY EmptySeq
  <2>2. buffer = << >> /\ moved = << >> /\ DOMAIN buffer = {}
    BY DEF Init
  <2>3. Honest
    BY <2>2 DEF Honest
  <2> QED BY <2>1, <2>2, <2>3 DEF Init, RecorderInv, Held, LoopTypeOK, Ticket, Books,
             Remembers, OwnTiming, RowsAreFresh
<1> QED BY <1>1, <1>2, <1>3 DEF TInv

\* What a step of the arms leaves to the others.
LEMMA ArmStutter == ArmInv /\ UNCHANGED armVars => ArmInv'
BY DEF ArmInv, armVars, FailedConnectPowersNothing

LEMMA MotionStutter == MotionInv /\ UNCHANGED motionVars => MotionInv'
BY DEF MotionInv, motionVars

LEMMA FeedbackStutter == FeedbackInv /\ UNCHANGED <<now, canVars>> => FeedbackInv'
BY DEF FeedbackInv, canVars

LEMMA TimeStep == FeedbackInv /\ Time => FeedbackInv'
BY DEF FeedbackInv, Time, canVars

LEMMA StepHolds == TInv /\ [Next]_vars => TInv'
<1> SUFFICES ASSUME TInv, [Next]_vars PROVE TInv'
  OBVIOUS
<1> USE DEF TInv
<1>1. ASSUME RecorderUnchanged,
             \/ Connect \/ Disconnect \/ \E a \in Arms : CameraDrops(a)
      PROVE  TInv'
  <2>1. ArmInv'
    BY <1>1, ConnectStep, DisconnectStep, CameraDropsStep
  <2>2. UNCHANGED <<now, canVars, motionVars>>
    BY <1>1 DEF Connect, Disconnect, CameraDrops
  <2>3. MotionInv' /\ FeedbackInv'
    BY <2>2, MotionStutter, FeedbackStutter
  <2>4. RecorderInv'
    BY <1>1, RecorderStutter DEF RecorderUnchanged
  <2>5. Delivered'
    BY <1>1, <2>2 DEF RecorderUnchanged, loopVars, motionVars, Delivered
  <2> QED BY <2>1, <2>3, <2>4, <2>5
<1>2. ASSUME RecorderUnchanged, Time \/ StoreFrame \/ \E f \in Feeds : ParseFrame(f)
      PROVE  TInv'
  <2>1. FeedbackInv'
    BY <1>2, TimeStep, ParseFrameStep, StoreFrameStep
  <2>2. UNCHANGED <<armVars, motionVars>>
    BY <1>2 DEF Time, ParseFrame, StoreFrame
  <2>3. ArmInv' /\ MotionInv'
    BY <2>2, ArmStutter, MotionStutter
  <2>4. RecorderInv'
    BY <1>2, RecorderStutter DEF RecorderUnchanged
  <2>5. Delivered'
    BY <1>2, <2>2 DEF RecorderUnchanged, loopVars, motionVars, Delivered
  <2> QED BY <2>1, <2>3, <2>4, <2>5
<1>3. ASSUME UNCHANGED followerVars, RecorderInv', step' # "sent" \/ step' = step
      PROVE  TInv'
  <2>1. UNCHANGED <<now, armVars, canVars, motionVars>>
    BY <1>3 DEF followerVars
  <2>2. Delivered'
    BY <1>3, <2>1 DEF motionVars, Delivered
  <2> QED BY <1>3, <2>1, <2>2, ArmStutter, MotionStutter, FeedbackStutter
<1>4. ASSUME \/ Interrupted \/ ObserveRight \/ GetAction \/ AddFrame \/ AddFrameRaises
             \/ SaveEpisode \/ ClearEpisode \/ EpisodeRaises
      PROVE  TInv'
  <2>1. UNCHANGED followerVars
    BY <1>4 DEF Interrupted, ObserveRight, GetAction, AddFrame, AddFrameRaises,
       SaveEpisode, ClearEpisode, EpisodeRaises
  <2>2. RecorderInv'
    BY <1>4, InterruptedStep, ObserveRightStep, GetActionStep, AddFrameStep,
       AddFrameRaisesStep, EpisodeStep
  <2>3. step' # "sent" \/ step' = step
    BY <1>4 DEF Interrupted, ObserveRight, GetAction, Prepare, AddFrame, AddFrameRaises,
       SaveEpisode, ClearEpisode, EpisodeRaises, Leave, loopVars
  <2> QED BY <1>3, <2>1, <2>2, <2>3
<1>5. ASSUME NEW image \in 1..now, ObserveLeft(image) PROVE TInv'
  BY <1>3, <1>5, ObserveLeftStep DEF ObserveLeft
<1>6. ASSUME NEW bad, NEW served, Send(bad, served)
      PROVE  TInv'
  <2>1. SendAction(Drives, bad, served) /\ UNCHANGED <<now, armVars, canVars>>
    BY <1>6 DEF Send, SendAction
  <2>2. MotionInv'
    BY <2>1, SendActionStep
  <2>3. ArmInv' /\ FeedbackInv'
    BY <2>1, ArmStutter, FeedbackStutter
  <2>4. RecorderInv'
    BY <1>6, SendStep
  <2>5. Delivered'
    <3>1. CASE Commanded(Drives, bad, served) = Drives
      BY <2>1, <3>1, WholeAction DEF Delivered
    <3>2. CASE Commanded(Drives, bad, served) # Drives
      BY <1>6, <3>2 DEF Send, Leave, Delivered
    <3> QED BY <3>1, <3>2
  <2> QED BY <2>2, <2>3, <2>4, <2>5
<1>9. ASSUME NEW asks \in Offers, NEW bad, NEW served, Move(asks, bad, served)
      PROVE  TInv'
  <2>1. /\ SendAction(asks, bad, served) /\ UNCHANGED <<now, armVars, canVars>>
        /\ UNCHANGED <<loopVars, datasetVars>> /\ step = "ready"
    BY <1>9 DEF Move, SendAction
  <2>2. MotionInv'
    BY <2>1, OffersAssumption, SendActionStep
  <2>3. ArmInv' /\ FeedbackInv'
    BY <2>1, ArmStutter, FeedbackStutter
  <2>4. RecorderInv' /\ Delivered'
    BY <2>1, RecorderStutter DEF loopVars, Delivered
  <2> QED BY <2>2, <2>3, <2>4
<1>7. CASE UNCHANGED vars
  BY <1>3, <1>7, RecorderStutter DEF vars, followerVars, loopVars, datasetVars
<1>8. CASE Next
  BY <1>1, <1>2, <1>4, <1>5, <1>6, <1>8, <1>9 DEF Next
<1> QED BY <1>7, <1>8

\* The inductive invariant of the arms, their feedback and the recorder.
THEOREM Invariant == Spec => []TInv
BY InitHolds, StepHolds, PTL DEF Spec

\* A connect that fails leaves no arm powered that was not, unless DisableArm
\* raised: BiPiperXFollower.connect rolls the first arm back by force.
THEOREM FailedConnectNeverPowers == Spec => []FailedConnectPowersNothing
<1>1. TInv => FailedConnectPowersNothing
  BY DEF TInv, ArmInv
<1> QED BY <1>1, Invariant, PTL

\* Unless the SDK raised on the way, each drive was last commanded the latest
\* action accepted for it, and a refused action moved none:
\* BiPiperXFollower.send_action converts both parts before it commands one.
THEOREM ArmsAlwaysTogether == Spec => []ArmsMoveTogether
<1>1. TInv => ArmsMoveTogether
  BY DEF TInv, MotionInv, Delivered, ArmsMoveTogether
<1> QED BY <1>1, Invariant, PTL

\* A saved episode is what moved the arms, tick for tick, with the timing of
\* each row its own: the ticket that is prepared before the action is sent, and
\* the save that is refused while one is open.
THEOREM EpisodeAlwaysWhatMoved == Spec => []EpisodeIsWhatMoved
<1>1. TInv => EpisodeIsWhatMoved
  BY DEF TInv, RecorderInv, LoopTypeOK, Books, OwnTiming, EpisodeIsWhatMoved
<1> QED BY <1>1, Invariant, PTL

\* Every recorded row was selected on feedback within the limits and newer, in
\* every source, than the row before.
THEOREM RowsAlwaysFresh == Spec => []RowsAreFresh
<1>1. TInv => RowsAreFresh
  BY DEF TInv, RecorderInv
<1> QED BY <1>1, Invariant, PTL
=============================================================================
