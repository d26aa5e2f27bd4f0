---------------------------- MODULE DatasetPipeline ----------------------------
(***************************************************************************)
(* tools/isaac_vr_replay.py, isaac_vr_lerobot_materialize.py and           *)
(* isaac_vr_admission.py: the command-line tools that turn a finalized     *)
(* episode into a projection bundle, a replay report with its renders, a   *)
(* materialized LeRobot dataset and an admission decision.  They are       *)
(* processes of their own and share nothing but the disk with each other   *)
(* and with the RecordingSession, which may still be writing the three     *)
(* files of an episode; the operator may give them any episode and remove  *)
(* an output at any time.  One process is followed step by step; what      *)
(* others that run at the same time do to the disk is one step each.       *)
(*                                                                         *)
(* Each kind of output has one name here, so that every two runs compete   *)
(* for it.  A content digest is the episode the bytes come from: a         *)
(* directory with a file changed or missing fails its manifest, and the    *)
(* sealed HDF5 file has no writer left.  A demo has one segment.           *)
(***************************************************************************)
EXTENDS RecordingSession, Integers

VARIABLES
    tool,      \* a process: its command, its episode, its place, what it read
    bundle,    \* the projection directory: the episode its rows are of
    report,    \* the replay report: its episode, None, or half written
    dataset,   \* the materialized directory: the origin of rows and images
    decision,  \* the admission decision and the inputs it names
    readable   \* the episodes that could be read as finalized at some time

outputs == <<bundle, report, dataset, decision>>
pipeline == <<tool, outputs>>
all == <<vars, pipeline, readable>>

HalfWritten == -1
Nothing == [rows |-> None, images |-> None]
Dataset == [rows : Episodes, images : Episodes]
Undecided == [of |-> None, dataset |-> Nothing]

\* The order in which each command looks at the disk.  publish_decision
\* evaluates the demo a second time before it links the decision.
Evaluation == <<"manifest", "marker", "bundle", "dataset", "report">>
Program ==
    [extract |-> <<"manifest", "marker", "free", "publish">>,
     replay |-> <<"manifest", "marker", "free", "write", "publish">>,
     materialize |-> <<"bundle", "report", "free", "recheck", "publish">>,
     admit |-> Evaluation \o Evaluation \o <<"publish">>]
Commands == DOMAIN Program

Idle == [command |-> "none", episode |-> None, at |-> 0, got |-> Nothing]

PipelineInit ==
    /\ tool = Idle
    /\ bundle = None /\ report = None /\ dataset = Nothing /\ decision = Undecided
    /\ readable = {}

-----------------------------------------------------------------------------
(* A command, step by step                                                 *)

At(command, point) ==
    /\ tool.command = command
    /\ Program[command][tool.at] = point

\* The step passes and the process keeps what it read, or raises.
Pass(check, got) ==
    tool' = IF check THEN [tool EXCEPT !.at = @ + 1, !.got = got] ELSE Idle

Begin(command, e) ==
    /\ tool = Idle
    /\ tool' = [Idle EXCEPT !.command = command, !.episode = e, !.at = 1]
    /\ UNCHANGED outputs

\* verify_recording_artifact reads the manifest first ...
ReadManifest ==
    /\ \E c \in {"extract", "replay", "admit"} : At(c, "manifest")
    /\ Pass(manifest[tool.episode] = "finalized", tool.got)
    /\ UNCHANGED outputs

\* Mutant: the manifest is believed without its finalization marker.
ReadMarkerUnchecked ==
    /\ \E c \in {"extract", "replay", "admit"} : At(c, "marker")
    /\ Pass(TRUE, tool.got)
    /\ UNCHANGED outputs

\* ... and then the marker, which must be finalized with the same frames,
\* outcome and digest.
ReadMarker ==
    /\ \E c \in {"extract", "replay", "admit"} : At(c, "marker")
    /\ Pass(marker[tool.episode] = "finalized", tool.got)
    /\ UNCHANGED outputs

\* The output must not exist yet (_atomic_directory, replay_from_snapshot).
CheckFree ==
    /\ \/ At("extract", "free") /\ Pass(bundle = None, tool.got)
       \/ At("replay", "free") /\ Pass(report = None, tool.got)
       \/ At("materialize", "free") /\ Pass(dataset = Nothing, tool.got)
    /\ UNCHANGED outputs

\* verify_projection_bundle; admission wants the bundle of its own episode.
ReadBundle ==
    /\ \/ /\ At("materialize", "bundle")
          /\ Pass(bundle # None, [rows |-> bundle, images |-> None])
       \/ /\ At("admit", "bundle")
          /\ Pass(bundle = tool.episode, tool.got)
    /\ UNCHANGED outputs

\* Mutant: the report is taken for granted.
JoinAny ==
    /\ \/ /\ At("materialize", "report")
          /\ Pass(report # None, [tool.got EXCEPT !.images = report])
       \/ /\ At("admit", "report")
          /\ Pass(report # None, tool.got)
    /\ UNCHANGED outputs

\* _validated_image_join: the report is whole and of the rows' recording; in
\* admission it is also, byte for byte, the one the dataset was made from.
Join ==
    /\ \/ /\ At("materialize", "report")
          /\ Pass(report = tool.got.rows, [tool.got EXCEPT !.images = report])
       \/ /\ At("admit", "report")
          /\ Pass(report = tool.got.images /\ report = tool.episode, tool.got)
    /\ UNCHANGED outputs

\* The dataset's source is the projection's source; the second evaluation
\* must find what the first one found.
ReadDataset ==
    /\ At("admit", "dataset")
    /\ Pass(dataset.rows = tool.episode /\ tool.got \in {Nothing, dataset}, dataset)
    /\ UNCHANGED outputs

\* "replay report changed during materialization"
Recheck ==
    /\ At("materialize", "recheck")
    /\ Pass(report = tool.got.images, tool.got)
    /\ UNCHANGED outputs

\* write_text opens and truncates whatever has the name by now ...
OpenReport ==
    /\ At("replay", "write")
    /\ report' = HalfWritten
    /\ Pass(TRUE, tool.got)
    /\ UNCHANGED <<bundle, dataset, decision>>

\* ... and completes it, unless it has been removed under the open file.  A
\* write that fails, or two runs that write at once, may leave either's text
\* or neither's.
CloseReport ==
    /\ At("replay", "publish")
    /\ report' \in IF report = None THEN {None}
                   ELSE {report, HalfWritten, tool.episode}
    /\ tool' = Idle
    /\ UNCHANGED <<bundle, dataset, decision>>

\* Mutant: a rename that replaces what is there.
OrReplace(current, absent, new) == new

\* os.replace of a private directory refuses a published one, os.link any
\* existing file: what is there stays.
OrRefuse(current, absent, new) == IF current = absent THEN new ELSE current

\* _publish_directory and publish_decision.
Publish ==
    /\ \/ /\ At("extract", "publish")
          /\ bundle' = OrRefuse(bundle, None, tool.episode)
          /\ UNCHANGED <<report, dataset, decision>>
       \/ /\ At("materialize", "publish")
          /\ dataset' = OrRefuse(dataset, Nothing, tool.got)
          /\ UNCHANGED <<bundle, report, decision>>
       \/ /\ At("admit", "publish")
          /\ decision' = OrRefuse(decision, Undecided,
                                  [of |-> tool.episode, dataset |-> tool.got])
          /\ UNCHANGED <<bundle, report, dataset>>
    /\ tool' = Idle

\* A process dies, or raises for a reason of its own: its private directory
\* is not under a published name, its report stays half written.
Die ==
    /\ tool # Idle
    /\ tool' = Idle
    /\ UNCHANGED outputs

\* The operator removes an output, to have it made again.
Remove ==
    /\ \/ bundle # None /\ bundle' = None /\ UNCHANGED <<report, dataset, decision>>
       \/ report # None /\ report' = None /\ UNCHANGED <<bundle, dataset, decision>>
       \/ dataset # Nothing /\ dataset' = Nothing /\ UNCHANGED <<bundle, report, decision>>
    /\ UNCHANGED tool

Final(e) == manifest[e] = "finalized" /\ marker[e] = "finalized"

\* Another process runs one of the commands on episode e, which it may have
\* found finalized a while ago.
OtherRuns(e) ==
    /\ e \in readable
    /\ \/ bundle = None /\ bundle' = e /\ UNCHANGED <<report, dataset, decision>>
       \/ report' \in {e, HalfWritten} /\ UNCHANGED <<bundle, dataset, decision>>
       \/ /\ bundle = e /\ report = e /\ dataset = Nothing
          /\ dataset' = [rows |-> e, images |-> e]
          /\ UNCHANGED <<bundle, report, decision>>
       \/ /\ bundle = e /\ report = e /\ dataset = [rows |-> e, images |-> e]
          /\ decision = Undecided /\ decision' = [of |-> e, dataset |-> dataset]
          /\ UNCHANGED <<bundle, report, dataset>>
    /\ UNCHANGED tool

PipelineNext ==
    \/ \E command \in Commands, e \in 1..started : Begin(command, e)
    \/ ReadManifest \/ ReadMarker \/ CheckFree \/ ReadBundle \/ Join
    \/ ReadDataset \/ Recheck \/ OpenReport \/ CloseReport \/ Publish \/ Die
    \/ \E e \in Episodes : OtherRuns(e)
    \/ Remove

PipelineSpec ==
    /\ Init /\ PipelineInit
    /\ [][\/ /\ Next /\ UNCHANGED pipeline
             /\ readable' = readable \cup {e \in Episodes : Final(e)'}
          \/ PipelineNext /\ UNCHANGED <<vars, readable>>]_all

-----------------------------------------------------------------------------
(* Correctness                                                             *)

\* The recordings an output was made from.
Sources ==
    {bundle, report, dataset.rows, dataset.images, decision.of} \cap Episodes

\* A recording whose finalization went as far as its last write: manifest and
\* result are final, the episode was accepted with rows, and the marker says
\* so too, unless that write raised and the session has been told of it.
Completed(e) ==
    /\ manifest[e] = "finalized" /\ result[e] = "finalized"
    /\ outcome[e] \in Accepted /\ committed[e]
    /\ marker[e] = "finalized" \/ (marker[e] = "failed" /\ future[e] = "error")

\* Whatever a tool has published is of a recording that is complete on disk,
\* although it was read while the worker was writing.  Its verdict may have
\* been taken back since, but only by the finalization that had written all
\* of it and then raised.  And a dataset, and the decision about it, never
\* mixes two recordings, whatever was removed and made again between the reads
\* of one command.
MadeOfOneFinalized ==
    /\ \A e \in Sources : Completed(e)
    /\ dataset.rows = dataset.images
    /\ decision.dataset = [rows |-> decision.of, images |-> decision.of]

\* What has been published under a name is never replaced there; only the
\* operator removes it, and a decision not even he.  (The report is written
\* in place and is not promised this: materialization rechecks it.)
PublishedOnce ==
    [][/\ bundle # None => bundle' \in {bundle, None}
       /\ dataset # Nothing => dataset' \in {dataset, Nothing}
       /\ decision # Undecided => decision' = decision]_all
=============================================================================
