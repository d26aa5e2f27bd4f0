------------------------ MODULE DatasetPipeline_proofs ------------------------
(***************************************************************************)
(* Proofs about DatasetPipeline for every number of episodes and every     *)
(* queue bound: whatever the command-line tools publish is of complete     *)
(* recordings and never of two of them, while the session writes, other    *)
(* tools publish and the operator removes.                                 *)
(***************************************************************************)
EXTENDS DatasetPipeline, RecordingSession_proofs

\* A dataset of one recording.
Whole(e) == [rows |-> e, images |-> e]

PipelineTypeOK ==
    /\ tool \in [command : Commands \cup {"none"}, episode : 0..MaxEpisodes,
                 at : 0..11, got : [rows : 0..MaxEpisodes, images : 0..MaxEpisodes]]
    /\ bundle \in 0..MaxEpisodes
    /\ report \in {HalfWritten} \cup 0..MaxEpisodes
    /\ dataset \in [rows : 0..MaxEpisodes, images : 0..MaxEpisodes]
    /\ decision \in [of : 0..MaxEpisodes,
                     dataset : [rows : 0..MaxEpisodes, images : 0..MaxEpisodes]]

\* What is published, by whomever, is of one finalized recording.
Published ==
    /\ bundle \in readable \cup {None}
    /\ report \in readable \cup {None, HalfWritten}
    /\ \/ dataset = Nothing
       \/ dataset.rows \in readable /\ dataset = Whole(dataset.rows)
    /\ \/ decision = Undecided
       \/ /\ decision.of \in readable
          /\ decision.dataset = Whole(decision.of)

\* What a process of command c and episode e knows at the n-th step: the
\* commands that check the artifact hold a finalized episode after the second
\* read, and the two that join rows and images hold what the earlier reads
\* have shown.
Holds(c, e, n, got) ==
    /\ n \in 0..11
    /\ c \in {"extract", "replay", "admit"} =>
           /\ e \in Episodes
           /\ n >= 3 => e \in readable
    /\ c = "extract" => n \in 1..4
    /\ c = "replay" => n \in 1..5
    /\ c = "materialize" =>
           /\ n \in 1..5
           /\ n >= 2 => got.rows \in readable
           /\ n >= 3 => got.images = got.rows
    /\ c = "admit" =>
           /\ n \in 1..11
           /\ n <= 4 => got = Nothing
           /\ n >= 5 => got = Whole(e)

ToolHolds == Holds(tool.command, tool.episode, tool.at, tool.got)

\* What can be read as finalized, or could be, is a completed recording.
Reading ==
    /\ readable \subseteq Episodes
    /\ \A e \in Episodes : Final(e) => e \in readable
    /\ \A e \in readable : Completed(e)

PInv == PipelineTypeOK /\ Published /\ ToolHolds /\ Reading

-----------------------------------------------------------------------------
(* Lemmas                                                                  *)

\* What a sequence of five elements becomes when it is repeated.
LEMMA LenTwice ==
    ASSUME NEW S, NEW s \in Seq(S), Len(s) = 5
    PROVE  /\ Len(s \o s) = 10
           /\ \A i \in 1..10 : (s \o s)[i] = IF i <= 5 THEN s[i] ELSE s[i - 5]
<1>1. /\ Len(s \o s) = Len(s) + Len(s)
      /\ \A i \in 1..Len(s) + Len(s) :
            (s \o s)[i] = IF i <= Len(s) THEN s[i] ELSE s[i - Len(s)]
  BY ConcatProperties
<1> QED BY <1>1

\* The places at which each command takes each step.
LEMMA Points ==
    ASSUME PipelineTypeOK, ToolHolds, NEW c \in Commands, NEW p, At(c, p)
    PROVE  /\ tool.command = c
           /\ c \in {"extract", "replay", "materialize", "admit"}
           /\ c = "extract" =>
                  \/ tool.at = 1 /\ p = "manifest"
                  \/ tool.at = 2 /\ p = "marker"
                  \/ tool.at = 3 /\ p = "free"
                  \/ tool.at = 4 /\ p = "publish"
           /\ c = "replay" =>
                  \/ tool.at = 1 /\ p = "manifest"
                  \/ tool.at = 2 /\ p = "marker"
                  \/ tool.at = 3 /\ p = "free"
                  \/ tool.at = 4 /\ p = "write"
                  \/ tool.at = 5 /\ p = "publish"
           /\ c = "materialize" =>
                  \/ tool.at = 1 /\ p = "bundle"
                  \/ tool.at = 2 /\ p = "report"
                  \/ tool.at = 3 /\ p = "free"
                  \/ tool.at = 4 /\ p = "recheck"
                  \/ tool.at = 5 /\ p = "publish"
           /\ c = "admit" =>
                  \/ tool.at \in {1, 6} /\ p = "manifest"
                  \/ tool.at \in {2, 7} /\ p = "marker"
                  \/ tool.at \in {3, 8} /\ p = "bundle"
                  \/ tool.at \in {4, 9} /\ p = "dataset"
                  \/ tool.at \in {5, 10} /\ p = "report"
                  \/ tool.at = 11 /\ p = "publish"
<1>1. c \in {"extract", "replay", "materialize", "admit"} /\ tool.command = c
      /\ Program[c][tool.at] = p
  BY DEF Commands, Program, At
<1>2. CASE c = "extract"
  <2>1. tool.at \in 1..4
    BY <1>1, <1>2 DEF ToolHolds, Holds, Holds
  <2> DEFINE steps == <<"manifest", "marker", "free", "publish">>
  <2>2. p = steps[tool.at]
    BY <1>1, <1>2 DEF Program
  <2>3. steps[1] = "manifest" /\ steps[2] = "marker" /\ steps[3] = "free" /\ steps[4] = "publish"
    OBVIOUS
  <2> HIDE DEF steps
  <2> QED BY <1>1, <1>2, <2>1, <2>2, <2>3
<1>3. CASE c = "replay"
  <2>1. tool.at \in 1..5
    BY <1>1, <1>3 DEF ToolHolds, Holds
  <2> DEFINE steps == <<"manifest", "marker", "free", "write", "publish">>
  <2>2. p = steps[tool.at]
    BY <1>1, <1>3 DEF Program
  <2>3. /\ steps[1] = "manifest" /\ steps[2] = "marker" /\ steps[3] = "free"
        /\ steps[4] = "write" /\ steps[5] = "publish"
    OBVIOUS
  <2> HIDE DEF steps
  <2> QED BY <1>1, <1>3, <2>1, <2>2, <2>3
<1>4. CASE c = "materialize"
  <2>1. tool.at \in 1..5
    BY <1>1, <1>4 DEF ToolHolds, Holds
  <2> DEFINE steps == <<"bundle", "report", "free", "recheck", "publish">>
  <2>2. p = steps[tool.at]
    BY <1>1, <1>4 DEF Program
  <2>3. /\ steps[1] = "bundle" /\ steps[2] = "report" /\ steps[3] = "free"
        /\ steps[4] = "recheck" /\ steps[5] = "publish"
    OBVIOUS
  <2> HIDE DEF steps
  <2> QED BY <1>1, <1>4, <2>1, <2>2, <2>3
<1>5. CASE c = "admit"
  <2>1. tool.at \in 1..11
    BY <1>1, <1>5 DEF ToolHolds, Holds
  <2>2. p = (Evaluation \o Evaluation \o <<"publish">>)[tool.at]
    <3>1. Program["admit"] = Evaluation \o Evaluation \o <<"publish">>
      BY DEF Program
    <3> QED BY <1>1, <1>5, <3>1
  <2>3. /\ Evaluation \in Seq({"manifest", "marker", "bundle", "dataset", "report"})
        /\ Len(Evaluation) = 5
        /\ Evaluation[1] = "manifest" /\ Evaluation[2] = "marker"
        /\ Evaluation[3] = "bundle" /\ Evaluation[4] = "dataset"
        /\ Evaluation[5] = "report"
    BY DEF Evaluation
  <2>4. PICK twice \in Seq({"manifest", "marker", "bundle", "dataset", "report"}) : 
                twice = Evaluation \o Evaluation
    BY <2>3, ConcatProperties
  <2>5. Len(twice) = 10 /\ \A i \in 1..10 :
          twice[i] = IF i <= 5 THEN Evaluation[i] ELSE Evaluation[i - 5]
    <3>1. Len(Evaluation \o Evaluation) = 10
      BY <2>3, LenTwice
    <3>2. \A i \in 1..10 : (Evaluation \o Evaluation)[i] =
            IF i <= 5 THEN Evaluation[i] ELSE Evaluation[i - 5]
      BY <2>3, LenTwice
    <3> QED BY <2>4, <3>1, <3>2
  <2>6. /\ tool.at \in 1..10 => p = twice[tool.at]
        /\ tool.at = 11 => p = "publish"
    BY <2>1, <2>2, <2>4, <2>5
  <2> QED BY <1>1, <1>5, <2>1, <2>3, <2>5, <2>6
<1> QED BY <1>1, <1>2, <1>3, <1>4, <1>5

-----------------------------------------------------------------------------
(* One lemma per step of a tool                                            *)

LEMMA PipelineInitOK == Init /\ PipelineInit => PInv
<1> SUFFICES ASSUME Init, PipelineInit PROVE PInv
  OBVIOUS
<1>1. PipelineTypeOK /\ Published /\ ToolHolds
  BY SessionAssumption DEF PipelineInit, PipelineTypeOK, Published, ToolHolds,
     Holds, Idle, Nothing, Undecided, None
<1>2. Reading
  BY DEF Init, PipelineInit, Reading, Final, Episodes
<1> QED BY <1>1, <1>2 DEF PInv

\* Nobody writes the manifest or the result of an episode that has its verdict,
\* changes what it was sealed with, or runs its failed finalization again.
LEMMA SettledFiles ==
    ASSUME Inv, [Next]_vars, NEW e \in Episodes, marker[e] \in Terminal
    PROVE  /\ manifest'[e] = manifest[e] /\ result'[e] = result[e]
           /\ outcome'[e] = outcome[e] /\ (committed[e] => committed'[e])
           /\ future[e] = "error" => future'[e] = "error"
<1> USE DEF Terminal
<1>0. /\ TypeOK /\ Unopened /\ CallShape /\ Hands /\ Handed /\ WorkerShape
      /\ e \in 1..MaxEpisodes /\ MaxEpisodes \in Nat
  BY SessionAssumption DEF Inv, Episodes
<1>1. /\ at = "run" => active # e
      /\ submitting # e /\ (wstep \in {"mark", "verify", "manifest", "result", "final"} => job # e)
  BY <1>0 DEF CallShape, Hands, WorkerShape, None
<1>2. CASE OpenEpisode
  <2>1. e # started + 1
    BY <1>0 DEF Unopened, Episodes, TypeOK
  <2> QED BY <1>0, <1>2, <2>1 DEF OpenEpisode, TypeOK, worker
<1>3. CASE Record \/ EndEpisode \/ Close
  BY <1>0, <1>1, <1>3 DEF Record, EndEpisode, Close, Callable, Seal, TypeOK, worker, disk
<1>4. CASE Submit \/ AwaitOldest
  BY <1>0, <1>1, <1>4 DEF Submit, AwaitOldest, Enqueue, Refuse, TypeOK
<1>5. CASE WorkerTake
  BY <1>0, <1>5 DEF WorkerTake, TypeOK, main, disk
<1>6. CASE WorkerAdvance \/ WorkerFinish \/ WorkerFault
  <2>1. job # e /\ (Write \/ UNCHANGED disk) /\ UNCHANGED main
    BY <1>1, <1>6 DEF WorkerAdvance, WorkerFinish, WorkerFault, StepAfter
  <2>2. manifest'[e] = manifest[e] /\ result'[e] = result[e]
    BY <1>0, <2>1 DEF Write, WriteMarker, Verify, WriteManifest, WriteResult,
       WriteVerdict, disk, TypeOK
  <2>3. future'[e] = future[e]
    BY <1>0, <1>6, <2>1 DEF WorkerAdvance, WorkerFinish, WorkerFault, TypeOK
  <2> QED BY <2>1, <2>2, <2>3 DEF main
<1>7. CASE WorkerHandler
  BY <1>0, <1>7 DEF WorkerHandler, WorkerShape, TypeOK, main
<1>8. CASE CheckFinalization \/ StartEpisode \/ CloseSubmit \/ Drain \/ Closed \/ UNCHANGED vars
  BY <1>8 DEF CheckFinalization, StartEpisode, CloseSubmit, Drain, Closed, vars, main, worker, disk
<1> QED BY <1>2, <1>3, <1>4, <1>5, <1>6, <1>7, <1>8 DEF Next, Unblock, Worker

\* The session works on: what was complete stays complete.
LEMMA CompletedStays ==
    ASSUME Inv, [Next]_vars, NEW e \in Episodes, Completed(e)
    PROVE  Completed(e)'
<1>1. marker[e] \in Terminal
  BY DEF Completed, Terminal
<1>2. VerdictKept(e)
  BY <1>1, VerdictStep
<1>3. /\ manifest'[e] = manifest[e] /\ result'[e] = result[e]
      /\ outcome'[e] = outcome[e] /\ (committed[e] => committed'[e])
      /\ future[e] = "error" => future'[e] = "error"
  BY <1>1, SettledFiles
<1>4. marker'[e] = "finalized" \/ (marker'[e] = "failed" /\ future'[e] = "error")
  BY <1>2, <1>3 DEF Completed, VerdictKept
<1> QED BY <1>3, <1>4 DEF Completed

LEMMA SessionStep ==
    ASSUME PInv, Inv, [Next]_vars, UNCHANGED pipeline,
           readable' = readable \cup {e \in Episodes : Final(e)'}
    PROVE  PInv'
<1>1. PipelineTypeOK'
  BY DEF PInv, PipelineTypeOK, pipeline, outputs
<1>2. Published'
  BY DEF PInv, Published, pipeline, outputs, Whole
<1>3. ToolHolds'
  BY DEF PInv, ToolHolds, Holds, pipeline, outputs, Whole
<1>4. Reading'
  <2>1. readable' \subseteq Episodes'
    BY DEF PInv, Reading, Episodes
  <2>2. Inv'
    BY InvStep
  <2>3. ASSUME NEW e \in Episodes, Final(e)'
        PROVE  Completed(e)'
    BY <2>2, <2>3 DEF Inv, FinalizedIsComplete, Final, Completed, Episodes
  <2>4. ASSUME NEW e \in readable
        PROVE  Completed(e)'
    BY <2>4, CompletedStays DEF PInv, Reading
  <2> QED BY <2>1, <2>3, <2>4 DEF Reading, Episodes
<1> QED BY <1>1, <1>2, <1>3, <1>4 DEF PInv

\* The tools write no file of the session.
LEMMA ReadingSame ==
    ASSUME Reading, UNCHANGED <<vars, readable>>
    PROVE  Reading'
BY DEF Reading, Final, Completed, vars, main, worker, disk, Episodes

LEMMA BeginStep ==
    ASSUME PInv, Inv, UNCHANGED <<vars, readable>>, NEW command \in Commands,
           NEW e \in 1..started, Begin(command, e)
    PROVE  PInv'
<1>1. e \in Episodes /\ e \in 0..MaxEpisodes
  BY SessionAssumption DEF Inv, TypeOK, Episodes
<1>2. /\ tool'.command = command /\ tool'.episode = e /\ tool'.at = 1
      /\ tool'.got = Nothing
      /\ tool' \in [command : Commands \cup {"none"}, episode : 0..MaxEpisodes,
                    at : 0..11,
                    got : [rows : 0..MaxEpisodes, images : 0..MaxEpisodes]]
  <2>1. tool' = [command |-> command, episode |-> e, at |-> 1, got |-> Nothing]
    BY DEF Begin, Idle
  <2>2. Nothing \in [rows : 0..MaxEpisodes, images : 0..MaxEpisodes]
    BY SessionAssumption DEF Nothing, None
  <2> QED BY <1>1, <2>1, <2>2
<1>3. ToolHolds'
  BY <1>1, <1>2 DEF ToolHolds, Holds
<1>4. PipelineTypeOK' /\ Published'
  BY <1>2 DEF Begin, PInv, PipelineTypeOK, Published, outputs, Whole
<1>5. Reading'
  BY ReadingSame DEF PInv
<1> QED BY <1>3, <1>4, <1>5 DEF PInv

\* A step that only reads: the process is gone, or it is one place further
\* and knows what it should know there.
LEMMA ReadStep ==
    ASSUME PInv, UNCHANGED <<vars, readable>>, UNCHANGED outputs,
           NEW got \in [rows : 0..MaxEpisodes, images : 0..MaxEpisodes],
           tool' # Idle =>
               /\ tool' = [tool EXCEPT !.at = tool.at + 1, !.got = got]
               /\ Holds(tool.command, tool.episode, tool.at + 1, got)
    PROVE  PInv'
<1>0. readable' = readable /\ Reading'
  BY ReadingSame DEF PInv
<1>1. Published'
  BY <1>0 DEF PInv, Published, outputs, Whole
<1>2. CASE tool' = Idle
  <2>1. ToolHolds'
    BY <1>2 DEF ToolHolds, Holds, Idle
  <2>2. tool' \in [command : {"none"}, episode : 0..MaxEpisodes, at : 0..11,
                   got : [rows : 0..MaxEpisodes, images : 0..MaxEpisodes]]
    BY <1>2, SessionAssumption DEF Idle, Nothing, None
  <2> QED BY <1>0, <1>1, <2>1, <2>2 DEF PInv, PipelineTypeOK, outputs
<1>3. CASE tool' # Idle
  <2>1. tool = [command |-> tool.command, episode |-> tool.episode,
                at |-> tool.at, got |-> tool.got]
    BY DEF PInv, PipelineTypeOK
  <2>2. tool' = [command |-> tool.command, episode |-> tool.episode,
                 at |-> tool.at + 1, got |-> got]
    BY <1>3, <2>1
  <2>3. /\ tool.command \in Commands \cup {"none"}
        /\ tool.episode \in 0..MaxEpisodes /\ tool.at + 1 \in 0..11
    BY <1>3 DEF PInv, PipelineTypeOK, Holds
  <2>4. PipelineTypeOK'
    BY <2>2, <2>3 DEF PInv, PipelineTypeOK, outputs
  <2>5. ToolHolds'
    BY <1>0, <1>3, <2>2 DEF ToolHolds, Holds, Whole
  <2> QED BY <1>0, <1>1, <2>4, <2>5 DEF PInv
<1> QED BY <1>2, <1>3

\* A finalized marker vouches for the manifest too.
LEMMA MarkerVouches ==
    ASSUME PInv, Inv, NEW e \in Episodes, marker[e] = "finalized"
    PROVE  e \in readable
BY DEF PInv, Reading, Inv, FinalizedIsComplete, Final

\* Reading steps keep the invariant.

\* The first read proves nothing yet.
LEMMA ReadManifestStep == PInv /\ Inv /\ ReadManifest /\ UNCHANGED <<vars, readable>> => PInv'
<1> SUFFICES ASSUME PInv, Inv, UNCHANGED <<vars, readable>>, ReadManifest PROVE PInv'
  OBVIOUS
<1>0. PipelineTypeOK /\ Published /\ ToolHolds /\ UNCHANGED outputs
  BY DEF PInv, ReadManifest
<1>1. CASE /\ At("extract", "manifest")
           /\ Pass(manifest[tool.episode] = "finalized", tool.got)
  <2>1. tool.command = "extract" /\ tool.at \in {1}
    BY <1>0, <1>1, Points DEF Commands, Program
  <2>2. tool.got \in [rows : 0..MaxEpisodes, images : 0..MaxEpisodes]
    BY <1>0, SessionAssumption DEF PipelineTypeOK, None
  <2>3. tool' # Idle =>
          /\ manifest[tool.episode] = "finalized"
          /\ tool' = [tool EXCEPT !.at = tool.at + 1, !.got = tool.got]
    BY <1>1 DEF Pass
  <2>4. tool' # Idle => Holds("extract", tool.episode, tool.at + 1, tool.got)
    BY <1>0, <2>1, <2>3 DEF ToolHolds, Holds
  <2> QED BY <2>1, <2>2, <2>3, <2>4, <1>0, ReadStep
<1>2. CASE /\ At("replay", "manifest")
           /\ Pass(manifest[tool.episode] = "finalized", tool.got)
  <2>1. tool.command = "replay" /\ tool.at \in {1}
    BY <1>0, <1>2, Points DEF Commands, Program
  <2>2. tool.got \in [rows : 0..MaxEpisodes, images : 0..MaxEpisodes]
    BY <1>0, SessionAssumption DEF PipelineTypeOK, None
  <2>3. tool' # Idle =>
          /\ manifest[tool.episode] = "finalized"
          /\ tool' = [tool EXCEPT !.at = tool.at + 1, !.got = tool.got]
    BY <1>2 DEF Pass
  <2>4. tool' # Idle => Holds("replay", tool.episode, tool.at + 1, tool.got)
    BY <1>0, <2>1, <2>3 DEF ToolHolds, Holds
  <2> QED BY <2>1, <2>2, <2>3, <2>4, <1>0, ReadStep
<1>3. CASE /\ At("admit", "manifest")
           /\ Pass(manifest[tool.episode] = "finalized", tool.got)
  <2>1. tool.command = "admit" /\ tool.at \in {1, 6}
    BY <1>0, <1>3, Points DEF Commands, Program
  <2>2. tool.got \in [rows : 0..MaxEpisodes, images : 0..MaxEpisodes]
    BY <1>0, SessionAssumption DEF PipelineTypeOK, None
  <2>3. tool' # Idle =>
          /\ manifest[tool.episode] = "finalized"
          /\ tool' = [tool EXCEPT !.at = tool.at + 1, !.got = tool.got]
    BY <1>3 DEF Pass
  <2>4. tool' # Idle => Holds("admit", tool.episode, tool.at + 1, tool.got)
    BY <1>0, <2>1, <2>3 DEF ToolHolds, Holds
  <2> QED BY <2>1, <2>2, <2>3, <2>4, <1>0, ReadStep
<1> QED BY <1>1, <1>2, <1>3 DEF ReadManifest

\* The marker does: it is of a finalized episode.
LEMMA ReadMarkerStep == PInv /\ Inv /\ ReadMarker /\ UNCHANGED <<vars, readable>> => PInv'
<1> SUFFICES ASSUME PInv, Inv, UNCHANGED <<vars, readable>>, ReadMarker PROVE PInv'
  OBVIOUS
<1>0. PipelineTypeOK /\ Published /\ ToolHolds /\ UNCHANGED outputs
  BY DEF PInv, ReadMarker
<1>1. CASE /\ At("extract", "marker")
           /\ Pass(marker[tool.episode] = "finalized", tool.got)
  <2>1. tool.command = "extract" /\ tool.at \in {2}
    BY <1>0, <1>1, Points DEF Commands, Program
  <2>2. tool.got \in [rows : 0..MaxEpisodes, images : 0..MaxEpisodes]
    BY <1>0, SessionAssumption DEF PipelineTypeOK, None
  <2>3. tool' # Idle =>
          /\ marker[tool.episode] = "finalized"
          /\ tool' = [tool EXCEPT !.at = tool.at + 1, !.got = tool.got]
    BY <1>1 DEF Pass
  <2>4. tool' # Idle => Holds("extract", tool.episode, tool.at + 1, tool.got)
    BY <1>0, <2>1, <2>3, MarkerVouches DEF ToolHolds, Holds
  <2> QED BY <2>1, <2>2, <2>3, <2>4, <1>0, ReadStep
<1>2. CASE /\ At("replay", "marker")
           /\ Pass(marker[tool.episode] = "finalized", tool.got)
  <2>1. tool.command = "replay" /\ tool.at \in {2}
    BY <1>0, <1>2, Points DEF Commands, Program
  <2>2. tool.got \in [rows : 0..MaxEpisodes, images : 0..MaxEpisodes]
    BY <1>0, SessionAssumption DEF PipelineTypeOK, None
  <2>3. tool' # Idle =>
          /\ marker[tool.episode] = "finalized"
          /\ tool' = [tool EXCEPT !.at = tool.at + 1, !.got = tool.got]
    BY <1>2 DEF Pass
  <2>4. tool' # Idle => Holds("replay", tool.episode, tool.at + 1, tool.got)
    BY <1>0, <2>1, <2>3, MarkerVouches DEF ToolHolds, Holds
  <2> QED BY <2>1, <2>2, <2>3, <2>4, <1>0, ReadStep
<1>3. CASE /\ At("admit", "marker")
           /\ Pass(marker[tool.episode] = "finalized", tool.got)
  <2>1. tool.command = "admit" /\ tool.at \in {2, 7}
    BY <1>0, <1>3, Points DEF Commands, Program
  <2>2. tool.got \in [rows : 0..MaxEpisodes, images : 0..MaxEpisodes]
    BY <1>0, SessionAssumption DEF PipelineTypeOK, None
  <2>3. tool' # Idle =>
          /\ marker[tool.episode] = "finalized"
          /\ tool' = [tool EXCEPT !.at = tool.at + 1, !.got = tool.got]
    BY <1>3 DEF Pass
  <2>4. tool' # Idle => Holds("admit", tool.episode, tool.at + 1, tool.got)
    BY <1>0, <2>1, <2>3, MarkerVouches DEF ToolHolds, Holds
  <2> QED BY <2>1, <2>2, <2>3, <2>4, <1>0, ReadStep
<1> QED BY <1>1, <1>2, <1>3 DEF ReadMarker

\* The name is free; what was read is kept.
LEMMA CheckFreeStep == PInv /\ Inv /\ CheckFree /\ UNCHANGED <<vars, readable>> => PInv'
<1> SUFFICES ASSUME PInv, Inv, UNCHANGED <<vars, readable>>, CheckFree PROVE PInv'
  OBVIOUS
<1>0. PipelineTypeOK /\ Published /\ ToolHolds /\ UNCHANGED outputs
  BY DEF PInv, CheckFree
<1>1. CASE /\ At("extract", "free")
           /\ Pass(bundle = None, tool.got)
  <2>1. tool.command = "extract" /\ tool.at \in {3}
    BY <1>0, <1>1, Points DEF Commands, Program
  <2>2. tool.got \in [rows : 0..MaxEpisodes, images : 0..MaxEpisodes]
    BY <1>0, SessionAssumption DEF PipelineTypeOK, None
  <2>3. tool' # Idle =>
          /\ bundle = None
          /\ tool' = [tool EXCEPT !.at = tool.at + 1, !.got = tool.got]
    BY <1>1 DEF Pass
  <2>4. tool' # Idle => Holds("extract", tool.episode, tool.at + 1, tool.got)
    BY <1>0, <2>1, <2>3 DEF ToolHolds, Holds
  <2> QED BY <2>1, <2>2, <2>3, <2>4, <1>0, ReadStep
<1>2. CASE /\ At("replay", "free")
           /\ Pass(report = None, tool.got)
  <2>1. tool.command = "replay" /\ tool.at \in {3}
    BY <1>0, <1>2, Points DEF Commands, Program
  <2>2. tool.got \in [rows : 0..MaxEpisodes, images : 0..MaxEpisodes]
    BY <1>0, SessionAssumption DEF PipelineTypeOK, None
  <2>3. tool' # Idle =>
          /\ report = None
          /\ tool' = [tool EXCEPT !.at = tool.at + 1, !.got = tool.got]
    BY <1>2 DEF Pass
  <2>4. tool' # Idle => Holds("replay", tool.episode, tool.at + 1, tool.got)
    BY <1>0, <2>1, <2>3 DEF ToolHolds, Holds
  <2> QED BY <2>1, <2>2, <2>3, <2>4, <1>0, ReadStep
<1>3. CASE /\ At("materialize", "free")
           /\ Pass(dataset = Nothing, tool.got)
  <2>1. tool.command = "materialize" /\ tool.at \in {3}
    BY <1>0, <1>3, Points DEF Commands, Program
  <2>2. tool.got \in [rows : 0..MaxEpisodes, images : 0..MaxEpisodes]
    BY <1>0, SessionAssumption DEF PipelineTypeOK, None
  <2>3. tool' # Idle =>
          /\ dataset = Nothing
          /\ tool' = [tool EXCEPT !.at = tool.at + 1, !.got = tool.got]
    BY <1>3 DEF Pass
  <2>4. tool' # Idle => Holds("materialize", tool.episode, tool.at + 1, tool.got)
    BY <1>0, <2>1, <2>3 DEF ToolHolds, Holds
  <2> QED BY <2>1, <2>2, <2>3, <2>4, <1>0, ReadStep
<1> QED BY <1>1, <1>2, <1>3 DEF CheckFree

\* The bundle is of a finalized recording.
LEMMA ReadBundleStep == PInv /\ Inv /\ ReadBundle /\ UNCHANGED <<vars, readable>> => PInv'
<1> SUFFICES ASSUME PInv, Inv, UNCHANGED <<vars, readable>>, ReadBundle PROVE PInv'
  OBVIOUS
<1>0. PipelineTypeOK /\ Published /\ ToolHolds /\ UNCHANGED outputs
  BY DEF PInv, ReadBundle
<1>1. CASE /\ At("materialize", "bundle")
           /\ Pass(bundle # None, [rows |-> bundle, images |-> None])
  <2>1. tool.command = "materialize" /\ tool.at \in {1}
    BY <1>0, <1>1, Points DEF Commands, Program
  <2>2. [rows |-> bundle, images |-> None] \in [rows : 0..MaxEpisodes, images : 0..MaxEpisodes]
    BY <1>0, SessionAssumption DEF PipelineTypeOK, None
  <2>3. tool' # Idle =>
          /\ bundle # None
          /\ tool' = [tool EXCEPT !.at = tool.at + 1, !.got = [rows |-> bundle, images |-> None]]
    BY <1>1 DEF Pass
  <2>4. tool' # Idle => Holds("materialize", tool.episode, tool.at + 1, [rows |-> bundle, images |-> None])
    BY <1>0, <2>1, <2>3 DEF ToolHolds, Holds, Published
  <2> QED BY <2>1, <2>2, <2>3, <2>4, <1>0, ReadStep
<1>2. CASE /\ At("admit", "bundle")
           /\ Pass(bundle = tool.episode, tool.got)
  <2>1. tool.command = "admit" /\ tool.at \in {3, 8}
    BY <1>0, <1>2, Points DEF Commands, Program
  <2>2. tool.got \in [rows : 0..MaxEpisodes, images : 0..MaxEpisodes]
    BY <1>0, SessionAssumption DEF PipelineTypeOK, None
  <2>3. tool' # Idle =>
          /\ bundle = tool.episode
          /\ tool' = [tool EXCEPT !.at = tool.at + 1, !.got = tool.got]
    BY <1>2 DEF Pass
  <2>4. tool' # Idle => Holds("admit", tool.episode, tool.at + 1, tool.got)
    BY <1>0, <2>1, <2>3 DEF ToolHolds, Holds
  <2> QED BY <2>1, <2>2, <2>3, <2>4, <1>0, ReadStep
<1> QED BY <1>1, <1>2 DEF ReadBundle

\* Rows and images are of one recording from here on.
LEMMA JoinStep == PInv /\ Inv /\ Join /\ UNCHANGED <<vars, readable>> => PInv'
<1> SUFFICES ASSUME PInv, Inv, UNCHANGED <<vars, readable>>, Join PROVE PInv'
  OBVIOUS
<1>0. PipelineTypeOK /\ Published /\ ToolHolds /\ UNCHANGED outputs
  BY DEF PInv, Join
<1>1. CASE /\ At("materialize", "report")
           /\ Pass(report = tool.got.rows, [tool.got EXCEPT !.images = report])
  <2>1. tool.command = "materialize" /\ tool.at \in {2}
    BY <1>0, <1>1, Points DEF Commands, Program
  <2>2. Whole(tool.got.rows) \in [rows : 0..MaxEpisodes, images : 0..MaxEpisodes]
    BY <1>0 DEF PipelineTypeOK, Whole
  <2>3. tool' # Idle => report = tool.got.rows
    BY <1>1 DEF Pass
  <2>4. [tool.got EXCEPT !.images = tool.got.rows] = Whole(tool.got.rows)
    BY <1>0 DEF PipelineTypeOK, Whole
  <2>5. tool' # Idle =>
          tool' = [tool EXCEPT !.at = tool.at + 1, !.got = Whole(tool.got.rows)]
    BY <1>1, <2>3, <2>4 DEF Pass
  <2>6. tool' # Idle =>
          Holds("materialize", tool.episode, tool.at + 1, Whole(tool.got.rows))
    BY <1>0, <2>1 DEF ToolHolds, Holds, Whole
  <2> QED BY <2>1, <2>2, <2>5, <2>6, <1>0, ReadStep
<1>2. CASE /\ At("admit", "report")
           /\ Pass((report = tool.got.images /\ report = tool.episode), tool.got)
  <2>1. tool.command = "admit" /\ tool.at \in {5, 10}
    BY <1>0, <1>2, Points DEF Commands, Program
  <2>2. tool.got \in [rows : 0..MaxEpisodes, images : 0..MaxEpisodes]
    BY <1>0, SessionAssumption DEF PipelineTypeOK, None
  <2>3. tool' # Idle =>
          /\ (report = tool.got.images /\ report = tool.episode)
          /\ tool' = [tool EXCEPT !.at = tool.at + 1, !.got = tool.got]
    BY <1>2 DEF Pass
  <2>4. tool' # Idle => Holds("admit", tool.episode, tool.at + 1, tool.got)
    BY <1>0, <2>1, <2>3 DEF ToolHolds, Holds
  <2> QED BY <2>1, <2>2, <2>3, <2>4, <1>0, ReadStep
<1> QED BY <1>1, <1>2 DEF Join

\* A dataset that is of the episode is all of the episode.
LEMMA ReadDatasetStep == PInv /\ Inv /\ ReadDataset /\ UNCHANGED <<vars, readable>> => PInv'
<1> SUFFICES ASSUME PInv, Inv, UNCHANGED <<vars, readable>>, ReadDataset PROVE PInv'
  OBVIOUS
<1>0. PipelineTypeOK /\ Published /\ ToolHolds /\ UNCHANGED outputs
  BY DEF PInv, ReadDataset
<1>1. CASE /\ At("admit", "dataset")
           /\ Pass((dataset.rows = tool.episode /\ tool.got \in {Nothing, dataset}), dataset)
  <2>1. tool.command = "admit" /\ tool.at \in {4, 9}
    BY <1>0, <1>1, Points DEF Commands, Program
  <2>2. dataset \in [rows : 0..MaxEpisodes, images : 0..MaxEpisodes]
    BY <1>0, SessionAssumption DEF PipelineTypeOK, None
  <2>3. tool' # Idle =>
          /\ (dataset.rows = tool.episode /\ tool.got \in {Nothing, dataset})
          /\ tool' = [tool EXCEPT !.at = tool.at + 1, !.got = dataset]
    BY <1>1 DEF Pass
  <2>4. tool' # Idle => Holds("admit", tool.episode, tool.at + 1, dataset)
    BY <1>0, <2>1, <2>3 DEF ToolHolds, Holds, Published, Nothing, Episodes, None
  <2> QED BY <2>1, <2>2, <2>3, <2>4, <1>0, ReadStep
<1> QED BY <1>1 DEF ReadDataset

\* The recheck changes nothing of what is held.
LEMMA RecheckStep == PInv /\ Inv /\ Recheck /\ UNCHANGED <<vars, readable>> => PInv'
<1> SUFFICES ASSUME PInv, Inv, UNCHANGED <<vars, readable>>, Recheck PROVE PInv'
  OBVIOUS
<1>0. PipelineTypeOK /\ Published /\ ToolHolds /\ UNCHANGED outputs
  BY DEF PInv, Recheck
<1>1. CASE /\ At("materialize", "recheck")
           /\ Pass(report = tool.got.images, tool.got)
  <2>1. tool.command = "materialize" /\ tool.at \in {4}
    BY <1>0, <1>1, Points DEF Commands, Program
  <2>2. tool.got \in [rows : 0..MaxEpisodes, images : 0..MaxEpisodes]
    BY <1>0, SessionAssumption DEF PipelineTypeOK, None
  <2>3. tool' # Idle =>
          /\ report = tool.got.images
          /\ tool' = [tool EXCEPT !.at = tool.at + 1, !.got = tool.got]
    BY <1>1 DEF Pass
  <2>4. tool' # Idle => Holds("materialize", tool.episode, tool.at + 1, tool.got)
    BY <1>0, <2>1, <2>3 DEF ToolHolds, Holds
  <2> QED BY <2>1, <2>2, <2>3, <2>4, <1>0, ReadStep
<1> QED BY <1>1 DEF Recheck

LEMMA OpenReportStep == PInv /\ Inv /\ OpenReport /\ UNCHANGED <<vars, readable>> => PInv'
<1> SUFFICES ASSUME PInv, Inv, UNCHANGED <<vars, readable>>, OpenReport PROVE PInv'
  OBVIOUS
<1>1. PipelineTypeOK /\ Published /\ ToolHolds /\ readable' = readable /\ Reading'
  BY ReadingSame DEF PInv
<1>2. tool.command = "replay" /\ tool.at = 4
  BY <1>1, Points DEF Commands, Program, OpenReport
<1>3. tool' = [tool EXCEPT !.at = 5]
  <2>1. tool = [command |-> tool.command, episode |-> tool.episode,
                at |-> tool.at, got |-> tool.got]
    BY <1>1 DEF PipelineTypeOK
  <2>2. tool' = [tool EXCEPT !.at = 5, !.got = tool.got]
    BY <1>2 DEF OpenReport, Pass
  <2> QED BY <2>1, <2>2
<1>4. PipelineTypeOK'
  BY <1>1, <1>3 DEF OpenReport, PipelineTypeOK
<1>5. ToolHolds'
  BY <1>1, <1>2, <1>3 DEF ToolHolds, Holds, PipelineTypeOK
<1>6. Published'
  BY <1>1 DEF OpenReport, Published, Whole
<1> QED BY <1>1, <1>4, <1>5, <1>6 DEF PInv

\* A step after which the process is gone and the outputs keep their promise.
LEMMA GoneStep ==
    ASSUME PInv, UNCHANGED <<vars, readable>>, tool' = Idle, Published', PipelineTypeOK'
    PROVE  PInv'
BY ReadingSame DEF PInv, ToolHolds, Holds, Idle

LEMMA IdleType ==
    Idle \in [command : Commands \cup {"none"}, episode : 0..MaxEpisodes,
             at : 0..11, got : [rows : 0..MaxEpisodes, images : 0..MaxEpisodes]]
BY SessionAssumption DEF Idle, Nothing, None

LEMMA CloseReportStep == PInv /\ Inv /\ CloseReport /\ UNCHANGED <<vars, readable>> => PInv'
<1> SUFFICES ASSUME PInv, Inv, UNCHANGED <<vars, readable>>, CloseReport PROVE PInv'
  OBVIOUS
<1>1. PipelineTypeOK /\ Published /\ ToolHolds /\ readable' = readable
  BY DEF PInv
<1>2. tool.command = "replay" /\ tool.at = 5
  BY <1>1, Points DEF Commands, Program, CloseReport
<1>3. tool.episode \in readable /\ tool.episode \in 0..MaxEpisodes
  BY <1>1, <1>2 DEF ToolHolds, Holds, PipelineTypeOK
<1>4. Published'
  BY <1>1, <1>3 DEF CloseReport, Published, Whole
<1>5. PipelineTypeOK'
  BY <1>1, <1>3, IdleType, SessionAssumption DEF CloseReport, PipelineTypeOK, None
<1> QED BY <1>4, <1>5, GoneStep DEF CloseReport

\* A publisher that finds the name taken leaves what is there; one that finds
\* it free publishes what it holds.
LEMMA PublishStep == PInv /\ Inv /\ Publish /\ UNCHANGED <<vars, readable>> => PInv'
<1> SUFFICES ASSUME PInv, Inv, UNCHANGED <<vars, readable>>, Publish PROVE PInv'
  OBVIOUS
<1> DEFINE Got == [rows : 0..MaxEpisodes, images : 0..MaxEpisodes]
<1>1. PipelineTypeOK /\ Published /\ ToolHolds /\ readable' = readable
      /\ tool' = Idle
  BY DEF PInv, Publish
<1>2. /\ tool' \in [command : Commands \cup {"none"}, episode : 0..MaxEpisodes,
                   at : 0..11, got : Got]
      /\ tool.episode \in 0..MaxEpisodes /\ tool.got \in Got
  BY <1>1, IdleType DEF PipelineTypeOK
<1>3. CASE /\ At("extract", "publish")
           /\ bundle' = OrRefuse(bundle, None, tool.episode)
           /\ UNCHANGED <<report, dataset, decision>>
  <2>1. tool.command = "extract" /\ tool.at = 4
    BY <1>1, <1>3, Points DEF Commands, Program
  <2>2. tool.episode \in readable
    BY <1>1, <2>1 DEF ToolHolds, Holds
  <2>3. Published' /\ PipelineTypeOK'
    BY <1>1, <1>2, <1>3, <2>2 DEF Published, PipelineTypeOK, OrRefuse, Whole
  <2> QED BY <1>1, <2>3, GoneStep
<1>4. CASE /\ At("materialize", "publish")
           /\ dataset' = OrRefuse(dataset, Nothing, tool.got)
           /\ UNCHANGED <<bundle, report, decision>>
  <2>1. tool.command = "materialize" /\ tool.at = 5
    BY <1>1, <1>4, Points DEF Commands, Program
  <2>2. tool.got.rows \in readable /\ tool.got.images = tool.got.rows
    BY <1>1, <2>1 DEF ToolHolds, Holds
  <2>3. tool.got = Whole(tool.got.rows)
    BY <1>2, <2>2 DEF Whole
  <2>4. PipelineTypeOK'
    BY <1>1, <1>2, <1>4 DEF PipelineTypeOK, OrRefuse
  <2>5. \/ dataset' = Nothing
        \/ dataset'.rows \in readable' /\ dataset' = Whole(dataset'.rows)
    BY <1>1, <1>4, <2>2, <2>3 DEF Published, OrRefuse
  <2>6. Published'
    BY <1>1, <1>4, <2>5 DEF Published, Whole
  <2> QED BY <1>1, <2>4, <2>6, GoneStep
<1>5. CASE /\ At("admit", "publish")
           /\ decision' = OrRefuse(decision, Undecided,
                                   [of |-> tool.episode, dataset |-> tool.got])
           /\ UNCHANGED <<bundle, report, dataset>>
  <2>1. tool.command = "admit" /\ tool.at = 11
    BY <1>1, <1>5, Points DEF Commands, Program
  <2>2. tool.episode \in readable /\ tool.got = Whole(tool.episode)
    BY <1>1, <2>1 DEF ToolHolds, Holds
  <2>3. PipelineTypeOK'
    BY <1>1, <1>2, <1>5 DEF PipelineTypeOK, OrRefuse
  <2>4. Published'
    BY <1>1, <1>5, <2>2 DEF Published, OrRefuse, Whole
  <2> QED BY <1>1, <2>3, <2>4, GoneStep
<1> QED BY <1>3, <1>4, <1>5 DEF Publish

LEMMA DieStep == PInv /\ Inv /\ Die /\ UNCHANGED <<vars, readable>> => PInv'
<1> SUFFICES ASSUME PInv, Inv, UNCHANGED <<vars, readable>>, Die PROVE PInv'
  OBVIOUS
<1>1. Published' /\ PipelineTypeOK'
  BY IdleType DEF PInv, Published, PipelineTypeOK, Whole, Die, outputs
<1> QED BY <1>1, GoneStep DEF Die

\* What the operator removes was of one recording, and so is what is left.
LEMMA RemoveStep == PInv /\ Inv /\ Remove /\ UNCHANGED <<vars, readable>> => PInv'
<1> SUFFICES ASSUME PInv, Inv, UNCHANGED <<vars, readable>>, Remove PROVE PInv'
  OBVIOUS
<1>1. Published'
  BY DEF PInv, Published, Remove, Whole
<1>2. PipelineTypeOK'
  BY SessionAssumption DEF PInv, PipelineTypeOK, Remove, None, Nothing
<1>3. ToolHolds'
  BY DEF PInv, ToolHolds, Holds, Remove, Whole
<1>4. Reading'
  BY ReadingSame DEF PInv
<1> QED BY <1>1, <1>2, <1>3, <1>4 DEF PInv

\* Another process publishes under the same promise.
LEMMA OtherRunsStep ==
    ASSUME PInv, Inv, UNCHANGED <<vars, readable>>, NEW e \in Episodes, OtherRuns(e)
    PROVE  PInv'
<1>1. /\ readable' = readable /\ e \in readable /\ e \in 0..MaxEpisodes
      /\ UNCHANGED tool /\ PipelineTypeOK /\ Published /\ ToolHolds /\ Reading'
  BY ReadingSame, SessionAssumption DEF OtherRuns, Episodes, PInv
<1>2. ToolHolds'
  BY <1>1 DEF ToolHolds, Holds, Whole
<1>3. CASE /\ bundle = None /\ bundle' = e
           /\ UNCHANGED <<report, dataset, decision>>
  BY <1>1, <1>2, <1>3 DEF PInv, PipelineTypeOK, Published, Whole
<1>4. CASE /\ report' \in {e, HalfWritten}
           /\ UNCHANGED <<bundle, dataset, decision>>
  BY <1>1, <1>2, <1>4 DEF PInv, PipelineTypeOK, Published, Whole
<1>5. CASE /\ dataset' = Whole(e)
           /\ UNCHANGED <<bundle, report, decision>>
  BY <1>1, <1>2, <1>5 DEF PInv, PipelineTypeOK, Published, Whole
<1>6. CASE /\ dataset = Whole(e)
           /\ decision' = [of |-> e, dataset |-> dataset]
           /\ UNCHANGED <<bundle, report, dataset>>
  BY <1>1, <1>2, <1>6 DEF PInv, PipelineTypeOK, Published, Whole
<1> QED BY <1>3, <1>4, <1>5, <1>6 DEF OtherRuns, Whole

-----------------------------------------------------------------------------
(* The theorems                                                            *)

PipelineStep == \/ /\ Next /\ UNCHANGED pipeline
                   /\ readable' = readable \cup {e \in Episodes : Final(e)'}
                \/ PipelineNext /\ UNCHANGED <<vars, readable>>

\* Beside the tools the session runs as it runs alone, so every theorem about
\* it holds here too.
THEOREM PipelineRunsSession == PipelineSpec => Spec
<1>1. [PipelineStep]_all => [Next]_vars
  BY DEF PipelineStep, all
<1> QED BY <1>1, PTL DEF PipelineSpec, Spec, PipelineStep

LEMMA PipelineInvStep == PInv /\ Inv /\ [PipelineStep]_all => PInv'
<1> SUFFICES ASSUME PInv, Inv, [PipelineStep]_all PROVE PInv'
  OBVIOUS
<1>0. CASE UNCHANGED all
  <2>1. UNCHANGED <<vars, pipeline, readable>>
    BY <1>0 DEF all
  <2>2. Reading'
    BY <2>1, ReadingSame DEF PInv
  <2> QED BY <2>1, <2>2 DEF PInv, PipelineTypeOK, Published, ToolHolds, Holds, Whole,
      pipeline, outputs
<1>1. CASE /\ Next /\ UNCHANGED pipeline
           /\ readable' = readable \cup {e \in Episodes : Final(e)'}
  BY <1>1, SessionStep
<1>2. CASE PipelineNext /\ UNCHANGED <<vars, readable>>
  BY <1>2, BeginStep, ReadManifestStep, ReadMarkerStep, CheckFreeStep,
     ReadBundleStep, JoinStep, ReadDatasetStep, RecheckStep, OpenReportStep,
     CloseReportStep, PublishStep, DieStep, OtherRunsStep, RemoveStep
     DEF PipelineNext
<1> QED BY <1>0, <1>1, <1>2 DEF PipelineStep

\* The inductive invariant of the tools: what is on disk under an output's
\* name, and what a running tool holds at each point of its program.
THEOREM PipelineInvariant == PipelineSpec => []PInv
<1>1. PipelineSpec => []Inv
  BY PipelineRunsSession, Invariant, PTL
<1> QED BY <1>1, PipelineInitOK, PipelineInvStep, PTL DEF PipelineSpec, PipelineStep

\* Whatever is published is of recordings that are complete on disk, whose
\* verdict only the finalization that wrote it may have taken back, and neither
\* a dataset nor a decision mixes two of them.
THEOREM AlwaysMadeOfOneFinalized == PipelineSpec => []MadeOfOneFinalized
<1>1. PInv => MadeOfOneFinalized
  <2> SUFFICES ASSUME PInv PROVE MadeOfOneFinalized
    OBVIOUS
  <2>1. /\ dataset.rows \in readable \cup {None}
        /\ dataset.images = dataset.rows
    BY DEF PInv, Published, Whole, Nothing
  <2>2. /\ decision.of \in readable \cup {None}
        /\ decision.dataset = [rows |-> decision.of, images |-> decision.of]
    BY DEF PInv, Published, Whole, Undecided, Nothing
  <2>3. Sources \subseteq readable
    BY <2>1, <2>2, SessionAssumption
       DEF Sources, PInv, Published, None, HalfWritten, Episodes
  <2> QED BY <2>1, <2>2, <2>3 DEF MadeOfOneFinalized, PInv, Reading
<1> QED BY <1>1, PipelineInvariant, PTL

\* What stands under a published name is replaced by nobody.
THEOREM AlwaysPublishedOnce == PipelineSpec => PublishedOnce
<1> DEFINE Once == /\ bundle # None => bundle' \in {bundle, None}
                   /\ dataset # Nothing => dataset' \in {dataset, Nothing}
                   /\ decision # Undecided => decision' = decision
<1>1. PInv /\ [PipelineStep]_all => [Once]_all
  <2> SUFFICES ASSUME PInv, [PipelineStep]_all PROVE Once \/ UNCHANGED all
    OBVIOUS
  <2>1. CASE UNCHANGED outputs
    BY <2>1 DEF outputs
  <2>2. CASE OpenReport \/ CloseReport
    BY <2>2 DEF OpenReport, CloseReport
  <2>3. CASE Publish
    BY <2>3 DEF Publish, OrRefuse
  <2>4. CASE Remove
    BY <2>4 DEF Remove
  <2>5. ASSUME NEW e \in Episodes, OtherRuns(e) PROVE Once
    BY <2>5 DEF OtherRuns
  <2> QED
    BY <2>1, <2>2, <2>3, <2>4, <2>5
       DEF PipelineStep, PipelineNext, Begin, ReadManifest, ReadMarker, CheckFree,
           ReadBundle, Join, ReadDataset, Recheck, Die, all, pipeline
<1> QED BY <1>1, PipelineInvariant, PTL
        DEF PipelineSpec, PipelineStep, PublishedOnce
=============================================================================
