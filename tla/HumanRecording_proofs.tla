------------------------- MODULE HumanRecording_proofs -------------------------
(***************************************************************************)
(* Proofs about HumanRecording, for any number of demonstrations and of    *)
(* technical episodes: a saved demonstration is whole and finalized, each  *)
(* one is disposed of at most once, the operator is only asked when        *)
(* recording is over, and no episode is lost without an exception.         *)
(***************************************************************************)
EXTENDS HumanRecording, TLAPS, FiniteSetTheorems, WellFoundedInduction,
        SequenceTheorems

-----------------------------------------------------------------------------
(* The invariant                                                           *)

Owning == Active \cup {"resetting"}
Asking == {"waiting", "review", "classify_outcome", "interrupted"}

\* Where the loop may be in each state of the lifecycle.
Control ==
    /\ at \in {"top", "finally"} => state \in {"waiting", "interrupted"} \cup Active
    /\ at = "rest" => state \in {"waiting"} \cup Active
    /\ at \in {"cleanup", "exit"} => state \in {"waiting", "interrupted", "failed"}
    /\ at = "closing" =>
          \/ /\ resume \in {"stop", "reset", "interrupt"} /\ state = "resetting"
          \/ /\ resume = "exit" /\ state \in {"waiting", "interrupted", "failed"}
    /\ state = "failed" => failed

\* The demonstration the lifecycle owns is the latest one and has no document;
\* every one before it has one.
Disposed ==
    /\ \A d \in Demos : \A x, y \in published[d] : x = y
    /\ \A d \in Demos : d > demos => published[d] = {}
    /\ \A d \in 1..demos : (d # demo \/ state = "interrupted") => published[d] # {}
    /\ state \in Owning => demo = demos /\ demo \in Demos /\ published[demo] = {}
    /\ state = "interrupted" => demo \in Demos
    /\ state = "waiting" => demo = None

\* Episodes are numbered in the order they were opened, one records at a time,
\* only those with a row are finalized, a sealed one has its session and a
\* stranded one is the last.
Numbered ==
    /\ \A e \in Episodes : artifact[e] = "absent" <=> owner[e] = None
    /\ \A e \in Episodes : owner[e] <= demos
    /\ \A e, f \in Episodes : artifact[e] = "absent" /\ e <= f => artifact[f] = "absent"
    /\ \A e \in Episodes : artifact[e] = "recording" <=> e = recording
    /\ \A e \in Episodes :
          outcome[e] = "operator_stopped" \/ artifact[e] = "finalized" => rows[e]
    /\ \A e \in Episodes : artifact[e] = "sealed" => session /\ outcome[e] # "none"
    /\ \A e, f \in Episodes : artifact[e] = "stranded" /\ e < f => artifact[f] = "absent"

\* A lost episode has ended the run or is about to: the session still has to
\* report it.
Reported ==
    /\ \A e \in Episodes : artifact[e] = "stranded" => state = "failed"
    /\ \A e \in Episodes : Lost(e) => failed \/ (session /\ broken)

\* The list of the demonstration under way is all its episodes, in order.
Listed ==
    state \in Owning =>
        /\ EpisodesOf(demo) =
              Elements(episodes) \cup IF recording = None THEN {} ELSE {recording}
        /\ \A i \in DOMAIN episodes : \A k \in 1..(i - 1) : episodes[k] < episodes[i]
        /\ recording # None => \A i \in DOMAIN episodes : episodes[i] < recording

\* Nothing records and nothing waits for the worker.
Over ==
    /\ recording = None
    /\ \A e \in Episodes : artifact[e] \notin {"recording", "sealed"}

Calm ==
    /\ state \in Asking => Over /\ ~session
    /\ at = "exit" => Over /\ ~session
    /\ at = "closing" => recording = None

\* While a demonstration may still be saved, an episode of it that could not
\* be finalized leaves its mark on the session.
Savable ==
    /\ (state = "recording" \/ (state = "resetting" /\ resume = "stop")) =>
          /\ recording # None => rows[recording]
          /\ \A i \in DOMAIN episodes :
                /\ session
                /\ outcome[episodes[i]] = "operator_stopped"
                /\ artifact[episodes[i]] \in {"sealed", "finalized", "failed"}
                /\ artifact[episodes[i]] = "failed" => broken
    /\ state \in {"review", "classify_outcome"} =>
          \A i \in DOMAIN episodes : artifact[episodes[i]] = "finalized"

\* A press that every tick saw is still held if it has fired.
Pressed ==
    \A b \in Buttons \ missed : uses[b] <= 1 /\ (uses[b] >= 1 => b \in held)

HInv ==
    /\ TypeOK /\ Control /\ Disposed /\ Numbered /\ Listed /\ Calm /\ Savable
    /\ SavedIsFinalized /\ Pressed /\ Reported

-----------------------------------------------------------------------------
(* Sequences and numbers                                                  *)

\* The next episode is the least that is not used.
LEMMA FirstFresh ==
    ASSUME Fresh # {}
    PROVE  NextEpisode \in Fresh /\ \A f \in Fresh : NextEpisode <= f
<1>0. Fresh \subseteq Nat
  BY RecordingAssumption DEF Fresh, Episodes
<1>1. PICK m \in Fresh : \A y \in Fresh : ~(<<y, m>> \in OpToRel(<, Nat))
  BY <1>0, NatLessThanWellFounded, WFMin
<1>2. \A y \in Fresh : ~(y < m)
  <2>1. \A y \in Fresh : y \in Nat /\ m \in Nat
    BY <1>0
  <2> QED BY <1>1, <2>1 DEF OpToRel
<1>3. \A y \in Fresh : m <= y
  BY <1>0, <1>2
<1> QED BY <1>3 DEF NextEpisode

LEMMA Appended ==
    ASSUME NEW list \in Seq(Episodes), NEW e \in Episodes
    PROVE  /\ Append(list, e) \in Seq(Episodes)
           /\ Len(list) \in Nat /\ DOMAIN list = 1..Len(list)
           /\ DOMAIN Append(list, e) = 1..(Len(list) + 1)
           /\ Append(list, e)[Len(list) + 1] = e
           /\ \A i \in DOMAIN list : Append(list, e)[i] = list[i]
           /\ Elements(Append(list, e)) = Elements(list) \cup {e}
<1> DEFINE longer == Append(list, e)
<1>1. /\ longer \in Seq(Episodes)
      /\ Len(list) \in Nat /\ DOMAIN list = 1..Len(list)
      /\ DOMAIN longer = 1..(Len(list) + 1)
      /\ longer[Len(list) + 1] = e
      /\ \A i \in DOMAIN list : longer[i] = list[i]
  BY AppendProperties
<1> HIDE DEF longer
<1>2. Elements(longer) = Elements(list) \cup {e}
  BY <1>1 DEF Elements
<1> QED BY <1>1, <1>2 DEF longer

LEMMA EpisodeIsNumber == \A e \in Episodes : e \in Nat /\ e # None
BY RecordingAssumption DEF Episodes, None

LEMMA DemoIsNumber == \A d \in Demos : d \in Nat /\ d # None
BY RecordingAssumption DEF Demos, None

-----------------------------------------------------------------------------
(* Documents                                                               *)

\* A document of the demonstration under way is its only one.
LEMMA PublishDisposes ==
    ASSUME HInv, state \in Owning, NEW d \in Dispositions, Publish(d), demos' = demos
    PROVE  /\ published' \in [Demos -> SUBSET [disposition : Dispositions,
                                               list : Seq(Episodes)]]
           /\ \A k \in Demos : \A x, y \in published'[k] : x = y
           /\ \A k \in Demos : k > demos => published'[k] = {}
           /\ \A k \in 1..demos : published'[k] # {}
<1> DEFINE doc == [disposition |-> d, list |-> episodes]
<1>1. /\ demo = demos /\ demo \in Demos /\ published[demo] = {}
      /\ published \in [Demos -> SUBSET [disposition : Dispositions, list : Seq(Episodes)]]
      /\ demos \in 0..MaxDemos
      /\ episodes \in Seq(Episodes)
  BY DEF HInv, Disposed, TypeOK
<1>2. doc \in [disposition : Dispositions, list : Seq(Episodes)]
  BY <1>1
<1>3. published' = [published EXCEPT ![demo] = {doc}]
  BY <1>1 DEF Publish
<1> HIDE DEF doc
<1>4. published' \in [Demos -> SUBSET [disposition : Dispositions, list : Seq(Episodes)]]
  BY <1>1, <1>2, <1>3
<1>5. published'[demo] = {doc} /\ \A k \in Demos : k # demo => published'[k] = published[k]
  BY <1>1, <1>3
<1>6. \A k \in Demos : \A x, y \in published'[k] : x = y
  BY <1>5 DEF HInv, Disposed
<1>7. \A k \in Demos : k > demos => published'[k] = {}
  BY <1>1, <1>5, DemoIsNumber DEF HInv, Disposed
<1>8. \A k \in 1..demos : published'[k] # {}
  <2>1. \A k \in 1..demos : k \in Demos
    BY <1>1, RecordingAssumption DEF Demos
  <2> QED BY <1>5, <2>1 DEF HInv, Disposed
<1> QED BY <1>4, <1>6, <1>7, <1>8

\* Nothing that happens to the files takes a saved demonstration away.
LEMMA SavedKept ==
    ASSUME HInv, published' = published,
           \A e \in Episodes :
              \/ owner'[e] = owner[e]
              \/ state \in Owning /\ owner[e] = None /\ owner'[e] = demo,
           \A e \in Episodes : rows[e] => rows'[e],
           \A e \in Episodes : artifact[e] = "finalized" => artifact'[e] = "finalized"
    PROVE  SavedIsFinalized'
<1> SUFFICES ASSUME NEW d \in Demos, NEW doc \in published[d], doc.disposition \in TaskOutcomes
             PROVE  /\ doc.list # << >>
                    /\ \A i \in DOMAIN doc.list : \A k \in 1..(i - 1) : doc.list[k] < doc.list[i]
                    /\ Elements(doc.list) = EpisodesOf(d)'
                    /\ \A e \in Elements(doc.list) : artifact'[e] = "finalized" /\ rows'[e]
  BY DEF SavedIsFinalized
<1>1. /\ doc.list # << >>
      /\ \A i \in DOMAIN doc.list : \A k \in 1..(i - 1) : doc.list[k] < doc.list[i]
      /\ Elements(doc.list) = EpisodesOf(d)
      /\ \A e \in Elements(doc.list) : artifact[e] = "finalized" /\ rows[e]
  BY DEF HInv, SavedIsFinalized
<1>2. d # None /\ (state \in Owning => d # demo)
  BY DemoIsNumber DEF HInv, Disposed
<1>3. EpisodesOf(d)' = EpisodesOf(d)
  BY <1>2 DEF EpisodesOf
<1>4. Elements(doc.list) \subseteq Episodes
  BY <1>1 DEF EpisodesOf
<1> QED BY <1>1, <1>3, <1>4

\* A saved document lists the whole demonstration, every episode finalized.
LEMMA PublishSaves ==
    ASSUME HInv, state \in Owning, recording = None, NEW d \in Dispositions,
           MayPublish(d), Publish(d), UNCHANGED <<artifact, rows, owner>>
    PROVE  SavedIsFinalized'
<1> SUFFICES ASSUME NEW k \in Demos, NEW doc \in published'[k],
                    doc.disposition \in TaskOutcomes
             PROVE  /\ doc.list # << >>
                    /\ \A i \in DOMAIN doc.list : \A j \in 1..(i - 1) : doc.list[j] < doc.list[i]
                    /\ Elements(doc.list) = EpisodesOf(k)
                    /\ \A e \in Elements(doc.list) : artifact[e] = "finalized" /\ rows[e]
  BY DEF SavedIsFinalized, EpisodesOf
<1>1. /\ demo \in Demos /\ published[demo] = {}
      /\ published \in [Demos -> SUBSET [disposition : Dispositions, list : Seq(Episodes)]]
  BY DEF HInv, Disposed, TypeOK
<1>2. CASE doc \in published[k]
  BY <1>2 DEF HInv, SavedIsFinalized
<1>3. CASE doc \notin published[k]
  <2>1. k = demo /\ doc = [disposition |-> d, list |-> episodes]
    BY <1>1, <1>3 DEF Publish
  <2>2. Publishable
    BY <2>1 DEF MayPublish
  <2>3. /\ EpisodesOf(demo) = Elements(episodes)
        /\ \A i \in DOMAIN episodes : \A j \in 1..(i - 1) : episodes[j] < episodes[i]
    BY DEF HInv, Listed
  <2>4. \A e \in Elements(episodes) : e \in Episodes /\ artifact[e] = "finalized"
    BY <2>2, <2>3 DEF Publishable, Elements, EpisodesOf
  <2>5. \A e \in Elements(episodes) : rows[e]
    BY <2>4 DEF HInv, Numbered
  <2> QED BY <2>1, <2>2, <2>3, <2>4, <2>5 DEF Publishable
<1> QED BY <1>2, <1>3

-----------------------------------------------------------------------------
(* Raising, finishing, interrupting                                        *)

Presses ==
    /\ held \in SUBSET Buttons /\ uses \in [Buttons -> 0..2] /\ missed \in SUBSET Buttons
    /\ Pressed

LEMMA PressesKept == HInv /\ UNCHANGED <<held, uses, missed>> => Presses'
BY DEF HInv, TypeOK, Presses, Pressed

FileTypes ==
    /\ session \in BOOLEAN /\ broken \in BOOLEAN
    /\ recording \in 0..MaxEpisodes
    /\ episodes \in Seq(Episodes)
    /\ artifact \in [Episodes -> ArtifactStates]
    /\ outcome \in [Episodes -> {"none", "operator_stopped", "aborted", "failure"}]
    /\ rows \in [Episodes -> BOOLEAN]
    /\ owner \in [Episodes -> 0..MaxDemos]

\* A loss stays reported while the files are left alone: the session keeps
\* what it knows, or has told it.
LEMMA ReportedKept ==
    ASSUME HInv, UNCHANGED <<artifact, outcome>>, failed => failed',
           state = "failed" => state' = "failed",
           UNCHANGED <<session, broken>> \/ (session /\ broken => failed')
    PROVE  Reported'
<1>1. \A e \in Episodes : artifact'[e] = "stranded" => state' = "failed"
  BY DEF HInv, Reported
<1>2. \A e \in Episodes : Lost(e)' => Lost(e)
  BY DEF Lost
<1>3. \A e \in Episodes : Lost(e) => failed' \/ (session' /\ broken')
  BY DEF HInv, Reported
<1> QED BY <1>1, <1>2, <1>3 DEF Reported

\* An exception leaves the demonstration without a document, or with its own.
LEMMA RaiseStep ==
    ASSUME HInv, Raise, UNCHANGED <<demo, demos>>, Presses', FileTypes', Numbered',
           SavedIsFinalized',
           \/ UNCHANGED published
           \/ state \in Owning /\ \E d \in Dispositions : Publish(d)
    PROVE  HInv'
<1>1. /\ state' = "failed" /\ at' = "cleanup" /\ failed' = TRUE /\ resume' = "none"
  BY DEF Raise
<1>2. /\ published' \in [Demos -> SUBSET [disposition : Dispositions, list : Seq(Episodes)]]
      /\ \A k \in Demos : \A x, y \in published'[k] : x = y
      /\ \A k \in Demos : k > demos => published'[k] = {}
      /\ \A k \in 1..demos : k # demo => published'[k] # {}
  <2>1. CASE UNCHANGED published
    BY <2>1 DEF HInv, TypeOK, Disposed
  <2>2. ASSUME state \in Owning, NEW d \in Dispositions, Publish(d)
        PROVE  /\ published' \in [Demos -> SUBSET [disposition : Dispositions,
                                                   list : Seq(Episodes)]]
               /\ \A k \in Demos : \A x, y \in published'[k] : x = y
               /\ \A k \in Demos : k > demos => published'[k] = {}
               /\ \A k \in 1..demos : k # demo => published'[k] # {}
    BY <2>2, PublishDisposes
  <2> QED BY <2>1, <2>2
<1>3. TypeOK'
  BY <1>1, <1>2 DEF HInv, TypeOK, FileTypes, Presses, States, Points
<1>4. Control'
  BY <1>1 DEF Control
<1>5. Disposed'
  BY <1>1, <1>2 DEF Disposed, Owning, Active
<1>6. Listed' /\ Calm' /\ Savable' /\ Pressed'
  BY <1>1 DEF Listed, Calm, Savable, Presses, Owning, Active, Asking
<1>7. Reported'
  BY <1>1 DEF Reported
<1> QED BY <1>3, <1>4, <1>5, <1>6, <1>7 DEF HInv

\* The demonstration gets its document and the lifecycle waits for the next.
LEMMA FinishStep ==
    ASSUME HInv, state \in Owning, NEW d \in Dispositions, Finish(d), Over,
           session' = FALSE, broken' \in BOOLEAN, ~(session /\ broken), Presses',
           UNCHANGED <<demos, recording, episodes, artifact, outcome, rows, owner>>
    PROVE  HInv'
<1>1. FileTypes'
  BY DEF HInv, TypeOK, FileTypes
<1>2. Numbered'
  BY DEF HInv, Numbered, Over
<1>3. CASE Raise
  <2>1. UNCHANGED demo /\ (UNCHANGED published \/ (MayPublish(d) /\ Publish(d)))
    BY <1>3 DEF Finish, Raise
  <2>2. SavedIsFinalized'
    <3>1. CASE UNCHANGED published
      BY <3>1, SavedKept
    <3>2. CASE MayPublish(d) /\ Publish(d)
      BY <3>2, PublishSaves DEF Over
    <3> QED BY <2>1, <3>1, <3>2
  <2> QED BY <1>1, <1>2, <1>3, <2>1, <2>2, RaiseStep
<1>4. CASE MayPublish(d) /\ Publish(d) /\ state' = "waiting" /\ demo' = None
           /\ at' = "top" /\ resume' = "none" /\ UNCHANGED failed
  <2>1. SavedIsFinalized'
    BY <1>4, PublishSaves DEF Over
  <2>2. Disposed' /\ published' \in [Demos -> SUBSET [disposition : Dispositions,
                                                      list : Seq(Episodes)]]
    BY <1>4, PublishDisposes DEF Disposed, Owning, Active
  <2>3. TypeOK'
    <3>1. demo' \in 0..MaxDemos
      BY <1>4, RecordingAssumption DEF None
    <3> QED BY <1>1, <1>4, <2>2, <3>1 DEF HInv, TypeOK, FileTypes, Presses, States, Points
  <2>4. Control'
    BY <1>4 DEF Control
  <2>5. Listed' /\ Calm' /\ Savable' /\ Pressed'
    BY <1>4 DEF Listed, Calm, Savable, Presses, Owning, Active, Asking, Over
  <2>6. Reported'
    BY <1>4, ReportedKept DEF Owning, Active
  <2> QED BY <1>2, <2>1, <2>2, <2>3, <2>4, <2>5, <2>6 DEF HInv
<1> QED BY <1>3, <1>4 DEF Finish

\* The same for a demonstration that is interrupted.
LEMMA InterruptedStep ==
    ASSUME HInv, state \in Owning, Interrupted, Over,
           session' = FALSE, broken' \in BOOLEAN, ~(session /\ broken), Presses',
           UNCHANGED <<demos, recording, episodes, artifact, outcome, rows, owner>>
    PROVE  HInv'
<1>0. "interrupted" \in Dispositions /\ MayPublish("interrupted")
  BY DEF MayPublish, Dispositions, TaskOutcomes
<1>1. FileTypes'
  BY DEF HInv, TypeOK, FileTypes
<1>2. Numbered'
  BY DEF HInv, Numbered, Over
<1>3. CASE Raise
  <2>1. UNCHANGED demo /\ (UNCHANGED published \/ Publish("interrupted"))
    BY <1>3 DEF Interrupted, Raise
  <2>2. SavedIsFinalized'
    <3>1. CASE UNCHANGED published
      BY <3>1, SavedKept
    <3>2. CASE Publish("interrupted")
      BY <1>0, <3>2, PublishSaves DEF Over
    <3> QED BY <2>1, <3>1, <3>2
  <2> QED BY <1>0, <1>1, <1>2, <1>3, <2>1, <2>2, RaiseStep
<1>4. CASE Publish("interrupted") /\ state' = "interrupted" /\ UNCHANGED demo
           /\ at' \in {"top", "finally"} /\ resume' = "none" /\ UNCHANGED failed
  <2>1. SavedIsFinalized'
    BY <1>0, <1>4, PublishSaves DEF Over
  <2>2. /\ published' \in [Demos -> SUBSET [disposition : Dispositions,
                                            list : Seq(Episodes)]]
        /\ \A k \in Demos : \A x, y \in published'[k] : x = y
        /\ \A k \in Demos : k > demos => published'[k] = {}
        /\ \A k \in 1..demos : published'[k] # {}
    BY <1>0, <1>4, PublishDisposes
  <2>3. demo' \in Demos
    BY <1>4 DEF HInv, Disposed
  <2>4. Disposed'
    BY <1>4, <2>2, <2>3 DEF Disposed, Owning, Active
  <2>5. TypeOK'
    BY <1>1, <1>4, <2>2 DEF HInv, TypeOK, FileTypes, Presses, States, Points
  <2>6. Control'
    BY <1>4 DEF Control
  <2>7. Listed' /\ Calm' /\ Savable' /\ Pressed'
    BY <1>4 DEF Listed, Calm, Savable, Presses, Owning, Active, Asking, Over
  <2>8. Reported'
    BY <1>4, ReportedKept DEF Owning, Active
  <2> QED BY <1>2, <2>1, <2>4, <2>5, <2>6, <2>7, <2>8 DEF HInv
<1> QED BY <1>3, <1>4 DEF Interrupted

-----------------------------------------------------------------------------
(* Sealing an episode                                                      *)

\* A sealed episode is the last of its list, and aborted without a row.
LEMMA EndEpisodeStep ==
    ASSUME HInv, NEW asked \in {"operator_stopped", "aborted", "failure"},
           recording # None, EndEpisode(asked), UNCHANGED <<rows, owner, broken, demos>>
    PROVE  /\ FileTypes' /\ Numbered'
           /\ \A e \in Episodes : artifact[e] = "finalized" => artifact'[e] = "finalized"
           /\ session = TRUE /\ session' = TRUE /\ recording' = None
           /\ (state \in Owning /\ demo' = demo) => Listed'
           /\ (failed' = failed /\ state # "failed") => Reported'
<1>1. /\ recording \in Episodes /\ session = TRUE /\ session' = session
      /\ recording' = None /\ episodes' = Append(episodes, recording)
      /\ artifact[recording] = "recording"
      /\ artifact' = [artifact EXCEPT ![recording] = "sealed"]
      /\ outcome' = [outcome EXCEPT ![recording] =
                        IF rows[recording] \/ asked = "failure" THEN asked ELSE "aborted"]
  BY RecordingAssumption DEF HInv, TypeOK, Episodes, None, EndEpisode, Files!Seal
<1>2. /\ episodes \in Seq(Episodes) /\ artifact \in [Episodes -> ArtifactStates]
      /\ outcome \in [Episodes -> {"none", "operator_stopped", "aborted", "failure"}]
      /\ rows \in [Episodes -> BOOLEAN]
  BY DEF HInv, TypeOK
<1>3. /\ episodes' \in Seq(Episodes)
      /\ DOMAIN episodes = 1..Len(episodes) /\ Len(episodes) \in Nat
      /\ DOMAIN episodes' = 1..(Len(episodes) + 1)
      /\ episodes'[Len(episodes) + 1] = recording
      /\ \A i \in DOMAIN episodes : episodes'[i] = episodes[i]
      /\ Elements(episodes)' = Elements(episodes) \cup {recording}
  <2>1. /\ episodes' \in Seq(Episodes)
        /\ DOMAIN episodes = 1..Len(episodes) /\ Len(episodes) \in Nat
        /\ DOMAIN episodes' = 1..(Len(episodes) + 1)
        /\ episodes'[Len(episodes) + 1] = recording
        /\ \A i \in DOMAIN episodes : episodes'[i] = episodes[i]
    BY <1>1, <1>2, Appended
  <2> QED BY <2>1 DEF Elements
<1>4. recording' \in 0..MaxEpisodes
  BY <1>1, RecordingAssumption DEF None
<1>5. FileTypes'
  <2>1. artifact' \in [Episodes -> ArtifactStates]
    BY <1>1, <1>2 DEF Files!States, ArtifactStates
  <2>2. outcome' \in [Episodes -> {"none", "operator_stopped", "aborted", "failure"}]
    BY <1>1, <1>2
  <2> QED BY <1>1, <1>3, <1>4, <2>1, <2>2 DEF HInv, TypeOK, FileTypes
<1>6. Numbered'
  <2>1. /\ \A e \in Episodes : e # recording => artifact'[e] = artifact[e]
                                               /\ outcome'[e] = outcome[e]
        /\ artifact'[recording] = "sealed"
        /\ outcome'[recording] = "operator_stopped" => rows[recording]
        /\ outcome'[recording] # "none"
    BY <1>1, <1>2
  <2>2. \A e \in Episodes : artifact'[e] = "absent" <=> artifact[e] = "absent"
    BY <1>1, <2>1
  <2>3. \A e \in Episodes : artifact'[e] = "recording" <=> e = recording'
    BY <1>1, <2>1, EpisodeIsNumber DEF HInv, Numbered
  <2>4. \A e \in Episodes : artifact'[e] = "stranded" <=> artifact[e] = "stranded"
    BY <1>1, <2>1
  <2> QED BY <1>1, <2>1, <2>2, <2>3, <2>4 DEF HInv, Numbered
<1>7. ASSUME state \in Owning, demo' = demo PROVE Listed'
  <2>1. /\ EpisodesOf(demo) = Elements(episodes) \cup {recording}
        /\ \A i \in DOMAIN episodes : \A k \in 1..(i - 1) : episodes[k] < episodes[i]
        /\ \A i \in DOMAIN episodes : episodes[i] < recording
    BY <1>1, <1>7, EpisodeIsNumber DEF HInv, Listed
  <2>2. EpisodesOf(demo)' = Elements(episodes)'
    BY <1>3, <1>7, <2>1 DEF EpisodesOf
  <2>3. \A i \in DOMAIN episodes' : \A k \in 1..(i - 1) : episodes'[k] < episodes'[i]
    <3> SUFFICES ASSUME NEW i \in DOMAIN episodes', NEW k \in 1..(i - 1)
                 PROVE  episodes'[k] < episodes'[i]
      OBVIOUS
    <3>1. k \in DOMAIN episodes /\ episodes'[k] = episodes[k]
      BY <1>3
    <3>2. CASE i \in DOMAIN episodes
      BY <1>3, <2>1, <3>1, <3>2
    <3>3. CASE i = Len(episodes) + 1
      BY <1>3, <2>1, <3>1, <3>3
    <3> QED BY <1>3, <3>2, <3>3
  <2> QED BY <1>1, <2>2, <2>3 DEF Listed
<1>8. \A e \in Episodes : artifact[e] = "finalized" => artifact'[e] = "finalized"
  BY <1>1, <1>2
<1>9. ASSUME failed' = failed, state # "failed" PROVE Reported'
  <2>1. \A e \in Episodes : e # recording => artifact'[e] = artifact[e]
                                              /\ outcome'[e] = outcome[e]
    BY <1>1, <1>2
  <2>2. artifact'[recording] = "sealed"
    BY <1>1, <1>2
  <2>3. \A e \in Episodes : artifact'[e] # "stranded"
    BY <1>9, <2>1, <2>2 DEF HInv, Reported
  <2>4. \A e \in Episodes : Lost(e)' => Lost(e)
    BY <2>1, <2>2 DEF Lost
  <2>5. \A e \in Episodes : Lost(e) => failed' \/ (session' /\ broken')
    BY <1>1, <1>9 DEF HInv, Reported
  <2> QED BY <2>3, <2>4, <2>5 DEF Reported
<1> QED BY <1>1, <1>5, <1>6, <1>7, <1>8, <1>9

\* An episode with rows that is sealed for the operator can be saved.
LEMMA EndEpisodeSavable ==
    ASSUME HInv, state = "recording", recording # None, EndEpisode("operator_stopped"),
           UNCHANGED broken
    PROVE  \A i \in DOMAIN episodes' :
              /\ session'
              /\ outcome'[episodes'[i]] = "operator_stopped"
              /\ artifact'[episodes'[i]] \in {"sealed", "finalized", "failed"}
              /\ artifact'[episodes'[i]] = "failed" => broken'
<1>1. /\ recording \in Episodes /\ session' = TRUE
      /\ episodes' = Append(episodes, recording)
      /\ artifact' = [artifact EXCEPT ![recording] = "sealed"]
      /\ rows[recording]
      /\ outcome' = [outcome EXCEPT ![recording] = "operator_stopped"]
  <2>1. recording \in Episodes
    BY RecordingAssumption DEF HInv, TypeOK, Episodes, None
  <2>2. session' = TRUE /\ artifact' = [artifact EXCEPT ![recording] = "sealed"]
    BY DEF EndEpisode, Files!Seal, HInv, TypeOK
  <2>3. rows[recording]
    BY DEF HInv, Savable
  <2> QED BY <2>1, <2>2, <2>3 DEF EndEpisode
<1>2. /\ episodes \in Seq(Episodes) /\ artifact \in [Episodes -> ArtifactStates]
      /\ outcome \in [Episodes -> {"none", "operator_stopped", "aborted", "failure"}]
  BY DEF HInv, TypeOK
<1>3. /\ DOMAIN episodes = 1..Len(episodes) /\ Len(episodes) \in Nat
      /\ DOMAIN episodes' = 1..(Len(episodes) + 1)
      /\ episodes'[Len(episodes) + 1] = recording
      /\ \A i \in DOMAIN episodes : episodes'[i] = episodes[i]
  BY <1>1, <1>2, Appended
<1>4. \A i \in DOMAIN episodes : episodes[i] # recording /\ episodes[i] \in Episodes
  <2>1. \A i \in DOMAIN episodes : episodes[i] < recording
    BY DEF HInv, Listed, Owning, Active
  <2>2. \A i \in DOMAIN episodes : episodes[i] \in Episodes
    BY <1>2
  <2> QED BY <1>1, <2>1, <2>2, EpisodeIsNumber
<1>5. ASSUME NEW i \in DOMAIN episodes
      PROVE  /\ outcome'[episodes'[i]] = outcome[episodes[i]]
             /\ artifact'[episodes'[i]] = artifact[episodes[i]]
  BY <1>1, <1>2, <1>3, <1>4
<1>6. ASSUME NEW i \in DOMAIN episodes
      PROVE  /\ outcome[episodes[i]] = "operator_stopped"
             /\ artifact[episodes[i]] \in {"sealed", "finalized", "failed"}
             /\ artifact[episodes[i]] = "failed" => broken
  BY DEF HInv, Savable
<1>7. /\ outcome'[recording] = "operator_stopped" /\ artifact'[recording] = "sealed"
  BY <1>1, <1>2
<1> SUFFICES ASSUME NEW i \in DOMAIN episodes'
             PROVE  /\ session'
                    /\ outcome'[episodes'[i]] = "operator_stopped"
                    /\ artifact'[episodes'[i]] \in {"sealed", "finalized", "failed"}
                    /\ artifact'[episodes'[i]] = "failed" => broken'
  OBVIOUS
<1>8. CASE i \in DOMAIN episodes
  BY <1>1, <1>5, <1>6, <1>8
<1>9. CASE i = Len(episodes) + 1
  BY <1>1, <1>3, <1>7, <1>9
<1> QED BY <1>3, <1>8, <1>9

\* An episode whose seal raised is failed.
LEMMA EndEpisodeRaisesStep ==
    ASSUME HInv, recording # None, EndEpisodeRaises, UNCHANGED <<rows, owner, broken, demos>>
    PROVE  /\ FileTypes' /\ Numbered' /\ recording' = None
           /\ \A e \in Episodes : artifact[e] = "finalized" => artifact'[e] = "finalized"
<1>1. /\ recording \in Episodes /\ recording' = None
      /\ artifact[recording] = "recording"
      /\ artifact' = [artifact EXCEPT ![recording] = "failed"]
      /\ UNCHANGED <<outcome, episodes, session>>
      /\ artifact \in [Episodes -> ArtifactStates]
  <2>1. recording \in Episodes
    BY RecordingAssumption DEF HInv, TypeOK, Episodes, None
  <2> QED BY <2>1 DEF HInv, TypeOK, Numbered, EndEpisodeRaises, Files!Abandon
<1>2. FileTypes'
  <2>1. artifact' \in [Episodes -> ArtifactStates]
    BY <1>1 DEF Files!States, ArtifactStates
  <2>2. recording' \in 0..MaxEpisodes
    BY <1>1, RecordingAssumption DEF None
  <2> QED BY <1>1, <2>1, <2>2 DEF HInv, TypeOK, FileTypes
<1>3. \A e \in Episodes : artifact[e] = "finalized" => artifact'[e] = "finalized"
  BY <1>1
<1>4. Numbered'
  <2>1. \A e \in Episodes : /\ artifact'[e] = "absent" <=> artifact[e] = "absent"
                            /\ artifact'[e] = "finalized" <=> artifact[e] = "finalized"
                            /\ artifact'[e] = "sealed" <=> artifact[e] = "sealed"
                            /\ artifact'[e] = "stranded" <=> artifact[e] = "stranded"
    BY <1>1
  <2>2. \A e \in Episodes : artifact'[e] = "recording" <=> e = recording'
    BY <1>1, EpisodeIsNumber DEF HInv, Numbered
  <2> QED BY <1>1, <2>1, <2>2 DEF HInv, Numbered
<1> QED BY <1>1, <1>2, <1>3, <1>4

LEMMA SealDemoStep ==
    ASSUME HInv, NEW why \in {"stop", "reset", "interrupt"}, state = "recording",
           SealDemo(why), UNCHANGED <<demo, demos>>, Presses'
    PROVE  HInv'
<1>0. /\ UNCHANGED <<broken, rows, owner, published>> /\ state \in Owning
      /\ OutcomeOf(why) \in {"operator_stopped", "aborted", "failure"}
  BY DEF SealDemo, Owning, Active, OutcomeOf
<1>1. CASE recording # None /\ EndEpisodeRaises /\ Raise
  <2>1. /\ FileTypes' /\ Numbered'
        /\ \A e \in Episodes : artifact[e] = "finalized" => artifact'[e] = "finalized"
    BY <1>0, <1>1, EndEpisodeRaisesStep
  <2>2. SavedIsFinalized'
    BY <1>0, <2>1, SavedKept
  <2> QED BY <1>0, <1>1, <2>1, <2>2, RaiseStep
<1>2. ASSUME state' = "resetting", at' = "closing", resume' = why, UNCHANGED failed,
             FileTypes', Numbered', Listed', Reported', recording' = None,
             \A e \in Episodes : artifact[e] = "finalized" => artifact'[e] = "finalized",
             why = "stop" => \A i \in DOMAIN episodes' :
                /\ session'
                /\ outcome'[episodes'[i]] = "operator_stopped"
                /\ artifact'[episodes'[i]] \in {"sealed", "finalized", "failed"}
                /\ artifact'[episodes'[i]] = "failed" => broken'
      PROVE  HInv'
  <2>1. TypeOK'
    BY <1>0, <1>2 DEF HInv, TypeOK, FileTypes, Presses, States, Points
  <2>2. Control' /\ Calm'
    BY <1>2 DEF Control, Calm, Asking
  <2>3. Disposed'
    BY <1>0, <1>2 DEF HInv, Disposed, Owning, Active
  <2>4. Savable'
    BY <1>2 DEF Savable
  <2>5. SavedIsFinalized'
    BY <1>0, <1>2, SavedKept
  <2> QED BY <1>2, <2>1, <2>2, <2>3, <2>4, <2>5 DEF HInv, Presses
<1>3. CASE /\ recording # None /\ EndEpisode(OutcomeOf(why))
           /\ state' = "resetting" /\ at' = "closing" /\ resume' = why /\ UNCHANGED failed
  <2>1. /\ FileTypes' /\ Numbered' /\ Listed' /\ Reported' /\ recording' = None
        /\ \A e \in Episodes : artifact[e] = "finalized" => artifact'[e] = "finalized"
    BY <1>0, <1>3, EndEpisodeStep
  <2>2. why = "stop" => \A i \in DOMAIN episodes' :
                /\ session'
                /\ outcome'[episodes'[i]] = "operator_stopped"
                /\ artifact'[episodes'[i]] \in {"sealed", "finalized", "failed"}
                /\ artifact'[episodes'[i]] = "failed" => broken'
    BY <1>0, <1>3, EndEpisodeSavable DEF OutcomeOf
  <2> QED BY <1>2, <1>3, <2>1, <2>2
<1>4. CASE /\ recording = None /\ UNCHANGED <<recording, episodes, artifact, outcome, session>>
           /\ state' = "resetting" /\ at' = "closing" /\ resume' = why /\ UNCHANGED failed
  <2>1. FileTypes' /\ Numbered'
    BY <1>0, <1>4 DEF HInv, TypeOK, FileTypes, Numbered
  <2>2. Listed'
    BY <1>0, <1>4 DEF HInv, Listed, EpisodesOf, Elements
  <2>3. \A i \in DOMAIN episodes' :
                /\ session'
                /\ outcome'[episodes'[i]] = "operator_stopped"
                /\ artifact'[episodes'[i]] \in {"sealed", "finalized", "failed"}
                /\ artifact'[episodes'[i]] = "failed" => broken'
    BY <1>0, <1>4 DEF HInv, Savable
  <2>4. Reported'
    BY <1>0, <1>4, ReportedKept
  <2> QED BY <1>2, <1>4, <2>1, <2>2, <2>3, <2>4
<1> QED BY <1>1, <1>3, <1>4 DEF SealDemo

-----------------------------------------------------------------------------
(* One pass through the loop                                               *)

\* A pass that leaves every file and demonstration as it is.
LEMMA StillStep ==
    ASSUME HInv, Presses',
           UNCHANGED <<demo, demos, session, broken, recording, episodes, files, resume, failed>>,
           at' \in {"top", "rest", "finally", "cleanup"}, Control',
           \/ state' = state
           \/ state = "review" /\ state' = "classify_outcome"
    PROVE  HInv'
<1>0. state' \in States
  BY DEF HInv, TypeOK, States
<1>1. TypeOK'
  BY <1>0 DEF HInv, TypeOK, Presses, Points, files
<1>2. Disposed'
  BY DEF HInv, Disposed, files, Owning, Active
<1>3. Numbered'
  BY DEF HInv, Numbered, files
<1>4. Listed'
  BY DEF HInv, Listed, files, Owning, Active, EpisodesOf, Elements
<1>5. Calm'
  BY DEF HInv, Calm, files, Asking, Over
<1>6. Savable'
  BY DEF HInv, Savable, files
<1>7. SavedIsFinalized'
  BY SavedKept DEF files
<1>8. Reported'
  BY ReportedKept DEF files
<1> QED BY <1>1, <1>2, <1>3, <1>4, <1>5, <1>6, <1>7, <1>8 DEF HInv, Presses

LEMMA StepRaisesStep == HInv /\ StepRaises => HInv'
<1> SUFFICES ASSUME HInv, StepRaises PROVE HInv'
  OBVIOUS
<1>1. /\ Raise
      /\ UNCHANGED <<demo, demos, held, uses, missed, session, broken, recording,
                     episodes, files>>
  BY DEF StepRaises
<1>2. Presses'
  BY <1>1, PressesKept
<1>3. FileTypes' /\ Numbered'
  BY <1>1 DEF HInv, TypeOK, FileTypes, Numbered, files
<1>4. SavedIsFinalized'
  BY <1>1, SavedKept DEF files
<1> QED BY <1>1, <1>2, <1>3, <1>4, RaiseStep DEF files

LEMMA LeaveStep == HInv /\ (LeaveLoop \/ FreeTick \/ FinallySkips) => HInv'
<1> SUFFICES ASSUME HInv, LeaveLoop \/ FreeTick \/ FinallySkips PROVE HInv'
  OBVIOUS
<1>1. /\ UNCHANGED <<lifecycle, resume, failed, session, broken, recording, episodes, files>>
      /\ at' \in {"top", "finally", "cleanup"}
  BY DEF LeaveLoop, FreeTick, FinallySkips
<1>2. Presses'
  BY <1>1, PressesKept DEF lifecycle
<1>3. Control'
  BY <1>1 DEF HInv, Control, LeaveLoop, FreeTick, FinallySkips, MayTick, lifecycle, Active
<1> QED BY <1>1, <1>2, <1>3, StillStep DEF lifecycle

\* What each event is listened to in.
LEMMA Meanings ==
    ASSUME state \in States, NEW i \in DOMAIN Meaning[state]
    PROVE  /\ Meaning[state][i][2] = "start" => state = "waiting"
           /\ Meaning[state][i][2] = "stop" => state = "recording"
           /\ Meaning[state][i][2] = "save" => state = "review"
           /\ Meaning[state][i][2] \in Dispositions => state \in {"review", "classify_outcome"}
<1>1. CASE state = "waiting"
  <2>1. Meaning[state] = <<<<"x", "start">>>>
    BY <1>1, Zenon DEF Meaning
  <2> QED BY <1>1, <2>1 DEF Dispositions, TaskOutcomes
<1>2. CASE state = "recording"
  <2>1. Meaning[state] = <<<<"y", "stop">>>>
    BY <1>2, Zenon DEF Meaning
  <2> QED BY <1>2, <2>1 DEF Dispositions, TaskOutcomes
<1>3. CASE state = "review"
  <2>1. Meaning[state] = <<<<"x", "save">>, <<"b", "discarded">>>>
    BY <1>3, Zenon DEF Meaning
  <2> QED BY <1>3, <2>1
<1>4. CASE state = "classify_outcome"
  <2>1. Meaning[state] = <<<<"x", "success">>, <<"y", "failure">>, <<"b", "incomplete">>>>
    BY <1>4, Zenon DEF Meaning
  <2> QED BY <1>4, <2>1
<1>5. CASE state \in {"resetting", "failed", "interrupted"}
  <2>1. Meaning[state] = << >>
    BY <1>5, Zenon DEF Meaning
  <2> QED BY <2>1
<1> QED BY <1>1, <1>2, <1>3, <1>4, <1>5 DEF States

\* A button that fires was up at the last tick and is held from now on.
LEMMA PollPresses ==
    ASSUME HInv, NEW pressed \in SUBSET Buttons, NEW observed \in SUBSET pressed,
           NEW fired, fired \subseteq observed \ held,
           held' = observed,
           missed' = (missed \cap pressed) \cup (pressed \ observed),
           CountUse(pressed, fired)
    PROVE  Presses'
<1>1. uses \in [Buttons -> 0..2] /\ missed \in SUBSET Buttons
  BY DEF HInv, TypeOK
<1>2. \A b \in Buttons : uses'[b] = IF b \notin pressed THEN 0
                                    ELSE IF b \in fired /\ uses[b] < 2 THEN uses[b] + 1
                                    ELSE uses[b]
  BY DEF CountUse
<1>3. uses' \in [Buttons -> 0..2]
  <2>1. \A b \in Buttons : uses[b] \in 0..2
    BY <1>1
  <2>2. \A b \in Buttons : uses'[b] \in 0..2
    BY <1>2, <2>1
  <2> QED BY <2>2 DEF CountUse
<1>4. ASSUME NEW b \in Buttons, b \notin missed'
      PROVE  uses'[b] <= 1 /\ (uses'[b] >= 1 => b \in held')
  <2>1. b \in pressed => b \in observed /\ b \notin missed
    BY <1>4
  <2>2. b \in pressed => uses[b] <= 1 /\ (uses[b] >= 1 => b \in held) /\ uses[b] \in 0..2
    BY <1>1, <2>1 DEF HInv, Pressed
  <2> QED BY <1>2, <2>1, <2>2
<1> QED BY <1>1, <1>3, <1>4 DEF Presses, Pressed

\* X: a demonstration starts, with no episode yet.
LEMMA StartStep ==
    ASSUME HInv, state = "waiting", Presses', demos < MaxDemos,
           demos' = demos + 1, demo' = demos + 1,
           state' = "recording", at' = "rest", episodes' = << >>,
           UNCHANGED <<resume, failed, session, broken, recording, files>>
    PROVE  HInv'
<1>1. /\ demos \in Nat /\ demos' \in Demos /\ demos' \in 0..MaxDemos
      /\ recording = None /\ << >> \in Seq(Episodes)
  BY RecordingAssumption DEF HInv, TypeOK, Calm, Asking, Over, Demos
<1>2. TypeOK'
  BY <1>1 DEF HInv, TypeOK, Presses, States, Points, files
<1>3. Control' /\ Calm'
  BY DEF Control, Calm, Asking, Active
<1>4. Disposed'
  <2>1. published'[demo'] = {}
    BY <1>1 DEF HInv, Disposed, files
  <2>2. \A d \in 1..demos' : d # demo' => published'[d] # {}
    <3>1. \A d \in 1..demos' : d # demo' => d \in 1..demos /\ d # None
      BY <1>1 DEF None
    <3> QED BY <3>1 DEF HInv, Disposed, files
  <2>3. \A d \in Demos : d > demos' => d > demos
    BY <1>1, DemoIsNumber
  <2> QED BY <1>1, <2>1, <2>2, <2>3 DEF HInv, Disposed, files
<1>5. Numbered'
  <2>1. \A e \in Episodes : owner[e] <= demos'
    <3>1. \A e \in Episodes : owner[e] \in Nat
      BY DEF HInv, TypeOK
    <3> QED BY <1>1, <3>1 DEF HInv, Numbered
  <2> QED BY <2>1 DEF HInv, Numbered, files
<1>6. Listed'
  <2>1. EpisodesOf(demo)' = {}
    <3>1. \A e \in Episodes : owner[e] \in Nat /\ owner[e] <= demos
      BY DEF HInv, TypeOK, Numbered
    <3> QED BY <1>1, <3>1 DEF EpisodesOf, files
  <2>2. Elements(episodes)' = {}
    BY EmptySeq DEF Elements
  <2>3. DOMAIN episodes' = {}
    OBVIOUS
  <2> QED BY <1>1, <2>1, <2>2, <2>3 DEF Listed
<1>7. Savable'
  <2>1. DOMAIN episodes' = {}
    OBVIOUS
  <2> QED BY <1>1, <2>1 DEF Savable
<1>8. SavedIsFinalized'
  BY SavedKept DEF files
<1>9. Reported'
  BY ReportedKept DEF files
<1> QED BY <1>2, <1>3, <1>4, <1>5, <1>6, <1>7, <1>8, <1>9 DEF HInv, Presses

LEMMA PollButtonsStep == HInv /\ PollButtons => HInv'
<1> SUFFICES ASSUME HInv, PollButtons PROVE HInv'
  OBVIOUS
<1>1. PICK pressed \in SUBSET Buttons, observed \in SUBSET Buttons :
          /\ observed \in Observable(pressed)
          /\ held' = observed
          /\ missed' = (missed \cap pressed) \cup (pressed \ observed)
          /\ \/ /\ Fired(observed) = {}
                /\ CountUse(pressed, {})
                /\ at' = "rest"
                /\ UNCHANGED <<state, demo, demos, resume, failed, session,
                               broken, recording, episodes, files>>
             \/ \E first \in Fired(observed) :
                   /\ \A i \in Fired(observed) : first <= i
                   /\ CountUse(pressed, {Meaning[state][first][1]})
                   /\ Perform(Meaning[state][first][2])
  BY DEF PollButtons, Observable
<1>2. observed \in SUBSET pressed
  BY <1>1 DEF Observable
<1>3. at = "top" /\ state # "interrupted" /\ state \in States
  BY DEF PollButtons, MayTick, HInv, TypeOK
<1>4. CASE /\ CountUse(pressed, {})
           /\ at' = "rest"
           /\ UNCHANGED <<state, demo, demos, resume, failed, session,
                          broken, recording, episodes, files>>
  <2>1. Presses'
    BY <1>1, <1>2, <1>4, PollPresses
  <2>2. Control'
    BY <1>3, <1>4 DEF HInv, Control
  <2> QED BY <1>4, <2>1, <2>2, StillStep
<1>5. ASSUME NEW first \in Fired(observed),
             CountUse(pressed, {Meaning[state][first][1]}),
             Perform(Meaning[state][first][2])
      PROVE  HInv'
  <2>1. first \in DOMAIN Meaning[state] /\ Meaning[state][first][1] \in observed \ held
    BY DEF Fired
  <2>2. Presses'
    BY <1>1, <1>2, <1>5, <2>1, PollPresses
  <2>3. PICK event : event = Meaning[state][first][2]
    OBVIOUS
  <2>4. /\ event = "start" => state = "waiting"
        /\ event = "stop" => state = "recording"
        /\ event = "save" => state = "review"
        /\ event \in Dispositions => state \in {"review", "classify_outcome"}
    BY <1>3, <2>1, <2>3, Meanings
  <2>5. Perform(event)
    BY <1>5, <2>3
  <2>6. CASE event = "start" /\ Perform(event)
    <3>1. /\ demos < MaxDemos
          /\ demos' = demos + 1 /\ demo' = demos + 1
          /\ state' = "recording" /\ at' = "rest" /\ episodes' = << >>
          /\ UNCHANGED <<resume, failed, session, broken, recording, files>>
      BY <2>6 DEF Perform, Dispositions, TaskOutcomes
    <3> QED BY <2>2, <2>4, <2>6, <3>1, StartStep
  <2>7. CASE event = "stop" /\ Perform(event)
    <3>1. SealDemo("stop") /\ UNCHANGED <<demo, demos>>
      BY <2>7 DEF Perform, Dispositions, TaskOutcomes
    <3> QED BY <2>2, <2>4, <2>7, <3>1, SealDemoStep
  <2>8. CASE event = "save" /\ Perform(event)
    <3>1. /\ state' = "classify_outcome" /\ at' = "rest"
          /\ UNCHANGED <<demo, demos, resume, failed, session, broken, recording,
                         episodes, files>>
      BY <2>8 DEF Perform, Dispositions, TaskOutcomes
    <3>2. Control'
      BY <3>1 DEF Control, Active
    <3> QED BY <2>2, <2>4, <2>8, <3>1, <3>2, StillStep
  <2>9. CASE event \in Dispositions /\ Perform(event)
    <3>1. /\ Finish(event)
          /\ UNCHANGED <<demos, session, broken, recording, episodes, artifact,
                         outcome, rows, owner>>
      BY <2>9 DEF Perform, Dispositions, TaskOutcomes
    <3>2. Over /\ session = FALSE /\ ~(session /\ broken) /\ broken \in BOOLEAN /\ state \in Owning
      BY <2>4, <2>9 DEF HInv, TypeOK, Calm, Asking, Owning, Active
    <3> QED BY <2>2, <2>9, <3>1, <3>2, FinishStep
  <2> QED BY <2>5, <2>6, <2>7, <2>8, <2>9 DEF Perform
<1> QED BY <1>1, <1>4, <1>5

LEMMA MenuTickStep == HInv /\ MenuTick => HInv'
<1> SUFFICES ASSUME HInv, MenuTick PROVE HInv'
  OBVIOUS
<1>1. /\ at = "rest" /\ state \in {"review", "classify_outcome"}
      /\ UNCHANGED <<demos, held, uses, missed, session, broken, recording, episodes,
                     artifact, outcome, rows, owner>>
  BY DEF MenuTick
<1>2. Presses'
  BY <1>1, PressesKept
<1>3. Over /\ session = FALSE /\ ~(session /\ broken) /\ broken \in BOOLEAN /\ state \in Owning
  BY <1>1 DEF HInv, TypeOK, Calm, Asking, Owning, Active
<1>4. CASE at' = "top" /\ UNCHANGED <<state, demo, resume, failed, published>>
  <2>1. Control'
    BY <1>1, <1>4 DEF HInv, Control, Active
  <2> QED BY <1>1, <1>2, <1>4, <2>1, StillStep DEF files
<1>5. CASE Finish("discarded")
  BY <1>1, <1>2, <1>3, <1>5, FinishStep DEF Dispositions
<1>6. CASE Interrupted
  BY <1>1, <1>2, <1>3, <1>6, InterruptedStep
<1> QED BY <1>4, <1>5, <1>6 DEF MenuTick

LEMMA InterruptStep ==
    HInv /\ Interrupt /\ UNCHANGED <<demos, uses, missed>> => HInv'
<1> SUFFICES ASSUME HInv, Interrupt, UNCHANGED <<demos, uses, missed>> PROVE HInv'
  OBVIOUS
<1>1. Presses'
  BY PressesKept DEF Interrupt
<1>2. CASE state = "recording" /\ SealDemo("interrupt") /\ UNCHANGED <<demo, demos>>
  BY <1>1, <1>2, SealDemoStep
<1>3. CASE /\ state \in {"review", "classify_outcome"} /\ Interrupted
           /\ UNCHANGED <<demos, session, broken, recording, episodes,
                          artifact, outcome, rows, owner>>
  <2>1. Over /\ session = FALSE /\ ~(session /\ broken) /\ broken \in BOOLEAN /\ state \in Owning
    BY <1>3 DEF HInv, TypeOK, Calm, Asking, Owning, Active
  <2> QED BY <1>1, <1>3, <2>1, InterruptedStep
<1> QED BY <1>2, <1>3 DEF Interrupt

LEMMA EnvironmentResetStep == HInv /\ EnvironmentReset => HInv'
BY SealDemoStep, PressesKept DEF EnvironmentReset

LEMMA GapTickStep == HInv /\ GapTick => HInv'
<1> SUFFICES ASSUME HInv, GapTick PROVE HInv'
  OBVIOUS
<1>1. /\ at = "rest" /\ state = "recording" /\ state \in Owning
      /\ UNCHANGED <<demo, demos, held, uses, missed, broken, rows, owner, published>>
  BY DEF GapTick, Owning, Active
<1>2. Presses'
  BY <1>1, PressesKept
<1>3. CASE /\ at' = "top"
           /\ UNCHANGED <<state, resume, failed, recording, episodes, artifact, outcome, session>>
  <2>1. Control'
    BY <1>1, <1>3 DEF HInv, Control
  <2> QED BY <1>1, <1>2, <1>3, <2>1, StillStep DEF files
<1>4. CASE HasRow /\ EndEpisode("operator_stopped") /\ at' = "top"
           /\ UNCHANGED <<state, resume, failed>>
  <2>1. /\ FileTypes' /\ Numbered' /\ Listed' /\ Reported' /\ recording' = None
        /\ \A e \in Episodes : artifact[e] = "finalized" => artifact'[e] = "finalized"
    BY <1>1, <1>4, EndEpisodeStep DEF HasRow
  <2>2. Savable'
    BY <1>1, <1>4, <2>1, EndEpisodeSavable DEF Savable, HasRow
  <2>3. TypeOK'
    BY <1>1, <1>2, <1>4, <2>1 DEF HInv, TypeOK, FileTypes, Presses, States, Points
  <2>4. Control' /\ Calm'
    BY <1>1, <1>4 DEF HInv, Control, Calm, Asking
  <2>5. Disposed'
    BY <1>1, <1>4 DEF HInv, Disposed, Owning, Active
  <2>6. SavedIsFinalized'
    BY <1>1, <2>1, SavedKept
  <2> QED BY <1>2, <2>1, <2>2, <2>3, <2>4, <2>5, <2>6 DEF HInv, Presses
<1>5. CASE HasRow /\ EndEpisodeRaises /\ Raise
  <2>1. /\ FileTypes' /\ Numbered'
        /\ \A e \in Episodes : artifact[e] = "finalized" => artifact'[e] = "finalized"
    BY <1>1, <1>5, EndEpisodeRaisesStep DEF HasRow
  <2>2. SavedIsFinalized'
    BY <1>1, <2>1, SavedKept
  <2> QED BY <1>1, <1>2, <1>5, <2>1, <2>2, RaiseStep
<1> QED BY <1>3, <1>4, <1>5 DEF GapTick

LEMMA RecordTickStep == HInv /\ RecordTick => HInv'
<1> SUFFICES ASSUME HInv, RecordTick PROVE HInv'
  OBVIOUS
<1>1. /\ at = "rest" /\ state = "recording" /\ recording # None
      /\ rows' = [rows EXCEPT ![recording] = TRUE]
      /\ at' = "top"
      /\ UNCHANGED <<state, demo, demos, held, uses, missed, resume, failed, session,
                     broken, recording, episodes, artifact, outcome, owner, published>>
  BY DEF RecordTick, lifecycle
<1>2. Presses'
  BY <1>1, PressesKept
<1>3. /\ rows' \in [Episodes -> BOOLEAN] /\ recording \in Episodes
      /\ \A e \in Episodes : rows[e] => rows'[e]
      /\ rows'[recording]
  BY <1>1, RecordingAssumption DEF HInv, TypeOK, Episodes, None
<1>4. TypeOK'
  BY <1>1, <1>2, <1>3 DEF HInv, TypeOK, Presses, Points
<1>5. Control' /\ Calm'
  BY <1>1 DEF HInv, Control, Calm, Asking
<1>6. Disposed'
  BY <1>1 DEF HInv, Disposed, Owning, Active
<1>7. Numbered'
  BY <1>1, <1>3 DEF HInv, Numbered
<1>8. Listed'
  BY <1>1 DEF HInv, Listed, EpisodesOf
<1>9. Savable'
  BY <1>1, <1>3 DEF HInv, Savable
<1>10. SavedIsFinalized'
  BY <1>1, <1>3, SavedKept
<1>11. Reported'
  BY <1>1, ReportedKept
<1> QED BY <1>2, <1>4, <1>5, <1>6, <1>7, <1>8, <1>9, <1>10, <1>11 DEF HInv, Presses

\* What an eligible tick opens is the demonstration's own and latest episode.
LEMMA OpenTickStep == HInv /\ OpenTick => HInv'
<1> SUFFICES ASSUME HInv, OpenTick PROVE HInv'
  OBVIOUS
<1>0. /\ at = "rest" /\ state = "recording" /\ state \in Owning /\ recording = None
      /\ UNCHANGED <<demo, demos, held, uses, missed, broken, episodes, outcome, published>>
      /\ owner' = [owner EXCEPT ![NextEpisode] = demo]
      /\ demo = demos /\ demo \in Demos
  BY DEF OpenTick, Owning, Active, HInv, Disposed
<1>1. PICK next \in Episodes :
        /\ next = NextEpisode /\ artifact[next] = "absent" /\ owner[next] = None
        /\ \A f \in Episodes : artifact[f] = "absent" => next <= f
  BY FirstFresh DEF OpenTick, Fresh, HInv, Numbered
<1>2. /\ artifact \in [Episodes -> ArtifactStates] /\ rows \in [Episodes -> BOOLEAN]
      /\ owner \in [Episodes -> 0..MaxDemos] /\ demo \in 1..MaxDemos
      /\ next # None /\ next \in Nat /\ demo # None
  BY <1>0, EpisodeIsNumber, DemoIsNumber DEF HInv, TypeOK, Demos
<1>3. Presses'
  BY <1>0, PressesKept
<1>4. /\ owner' \in [Episodes -> 0..MaxDemos]
      /\ owner'[next] = demo
      /\ \A e \in Episodes : e # next => owner'[e] = owner[e]
  BY <1>0, <1>1, <1>2
<1>5. ASSUME NEW now \in {"recording", "failed", "stranded"},
             artifact' = [artifact EXCEPT ![next] = now],
             recording' = (IF now = "recording" THEN next ELSE None),
             rows' \in {rows, [rows EXCEPT ![next] = TRUE]},
             session' \in BOOLEAN, session => session'
      PROVE  /\ FileTypes' /\ Numbered' /\ SavedIsFinalized'
             /\ rows' \in [Episodes -> BOOLEAN]
             /\ \A e \in Episodes : rows[e] => rows'[e]
  <2>1. /\ rows' \in [Episodes -> BOOLEAN]
        /\ \A e \in Episodes : rows[e] => rows'[e]
    BY <1>2, <1>5
  <2>2. /\ artifact' \in [Episodes -> ArtifactStates]
        /\ artifact'[next] \in {"recording", "failed", "stranded"}
        /\ artifact'[next] = "recording" <=> recording' = next
        /\ \A e \in Episodes : e # next => artifact'[e] = artifact[e]
        /\ recording' \in {next, None}
    BY <1>2, <1>5 DEF Files!States, ArtifactStates
  <2>3. recording' \in 0..MaxEpisodes
    BY <2>2, RecordingAssumption DEF None, Episodes
  <2>4. FileTypes'
    BY <1>0, <1>4, <1>5, <2>1, <2>2, <2>3 DEF HInv, TypeOK, FileTypes
  <2>5. Numbered'
    <3>1. \A e \in Episodes : artifact'[e] = "absent" <=> owner'[e] = None
      BY <1>2, <1>4, <2>2 DEF HInv, Numbered
    <3>2. \A e \in Episodes : owner'[e] <= demos'
      <4>1. demo <= demos
        BY <1>0, DemoIsNumber
      <4> QED BY <1>0, <1>4, <4>1 DEF HInv, Numbered
    <3>3. ASSUME NEW e \in Episodes, NEW f \in Episodes, artifact'[e] = "absent", e <= f
          PROVE  artifact'[f] = "absent"
      <4>1. e # next /\ artifact[e] = "absent" /\ next <= e
        BY <1>1, <2>2, <3>3
      <4>2. artifact[f] = "absent"
        BY <3>3, <4>1 DEF HInv, Numbered
      <4>3. f # next
        BY <3>3, <4>1, EpisodeIsNumber
      <4> QED BY <2>2, <4>2, <4>3
    <3>4. \A e \in Episodes : artifact'[e] = "recording" <=> e = recording'
      BY <1>0, <2>2, EpisodeIsNumber DEF HInv, Numbered
    <3>5. \A e \in Episodes :
             outcome'[e] = "operator_stopped" \/ artifact'[e] = "finalized" => rows'[e]
      BY <1>0, <2>1, <2>2 DEF HInv, Numbered
    <3>6. \A e \in Episodes : artifact'[e] = "sealed" => session' /\ outcome'[e] # "none"
      BY <1>0, <1>5, <2>2 DEF HInv, Numbered
    <3>7. ASSUME NEW e \in Episodes, NEW f \in Episodes, artifact'[e] = "stranded", e < f
          PROVE  artifact'[f] = "absent"
      <4>1. e = next
        BY <1>0, <2>2, <3>7 DEF HInv, Reported
      <4>2. artifact[f] = "absent" /\ f # next
        BY <1>1, <3>7, <4>1, EpisodeIsNumber DEF HInv, Numbered
      <4> QED BY <2>2, <4>2
    <3> QED BY <3>1, <3>2, <3>3, <3>4, <3>5, <3>6, <3>7 DEF Numbered
  <2>6. SavedIsFinalized'
    <3>1. \A e \in Episodes : artifact[e] = "finalized" => artifact'[e] = "finalized"
      BY <1>1, <2>2
    <3>2. \A e \in Episodes :
              \/ owner'[e] = owner[e]
              \/ state \in Owning /\ owner[e] = None /\ owner'[e] = demo
      BY <1>0, <1>1, <1>4
    <3> QED BY <1>0, <2>1, <3>1, <3>2, SavedKept
  <2> QED BY <2>1, <2>4, <2>5, <2>6
<1>6. ASSUME artifact' = [artifact EXCEPT ![next] = "recording"], recording' = next,
             session' = TRUE, rows' = [rows EXCEPT ![next] = TRUE], at' = "top",
             UNCHANGED <<state, resume, failed>>
      PROVE  HInv'
  <2>1. FileTypes' /\ Numbered' /\ SavedIsFinalized' /\ rows'[next]
    <3>1. FileTypes' /\ Numbered' /\ SavedIsFinalized'
      BY <1>2, <1>5, <1>6
    <3> QED BY <1>1, <1>2, <1>6, <3>1
  <2>2. TypeOK'
    BY <1>0, <1>3, <1>6, <2>1 DEF HInv, TypeOK, FileTypes, Presses, Points
  <2>3. Control' /\ Calm'
    BY <1>0, <1>6 DEF HInv, Control, Calm, Asking
  <2>4. Disposed'
    BY <1>0, <1>6 DEF HInv, Disposed, Owning, Active
  <2>5. Listed'
    <3>1. /\ EpisodesOf(demo) = Elements(episodes)
          /\ \A i \in DOMAIN episodes : \A k \in 1..(i - 1) : episodes[k] < episodes[i]
      BY <1>0 DEF HInv, Listed
    <3>2. EpisodesOf(demo)' = EpisodesOf(demo) \cup {next}
      BY <1>0, <1>4 DEF EpisodesOf
    <3>3. ASSUME NEW i \in DOMAIN episodes PROVE episodes[i] < next
      <4>1. episodes[i] \in Episodes /\ episodes[i] \in EpisodesOf(demo)
        BY <3>1 DEF Elements, EpisodesOf
      <4>2. artifact[episodes[i]] # "absent"
        BY <1>2, <4>1 DEF EpisodesOf, HInv, Numbered
      <4>3. ~(next <= episodes[i])
        BY <1>1, <4>1, <4>2 DEF HInv, Numbered
      <4> QED BY <1>1, <4>1, <4>3, EpisodeIsNumber
    <3> QED BY <1>0, <1>2, <1>6, <3>1, <3>2, <3>3 DEF Listed, Elements
  <2>6. Savable'
    <3>1. ASSUME NEW i \in DOMAIN episodes
          PROVE  /\ outcome[episodes[i]] = "operator_stopped"
                 /\ artifact'[episodes[i]] \in {"sealed", "finalized", "failed"}
                 /\ artifact'[episodes[i]] = "failed" => broken
      <4>1. /\ outcome[episodes[i]] = "operator_stopped"
            /\ artifact[episodes[i]] \in {"sealed", "finalized", "failed"}
            /\ artifact[episodes[i]] = "failed" => broken
        BY <1>0 DEF HInv, Savable
      <4>2. episodes[i] \in Episodes /\ episodes[i] # next
        <5>1. episodes \in Seq(Episodes)
          BY DEF HInv, TypeOK
        <5> QED BY <1>1, <4>1, <5>1
      <4> QED BY <1>2, <1>6, <4>1, <4>2
    <3> QED BY <1>0, <1>6, <2>1, <3>1 DEF Savable
  <2>7. Reported'
    <3>1. \A e \in Episodes : /\ e # next => artifact'[e] = artifact[e]
                              /\ artifact'[next] = "recording"
      BY <1>1, <1>2, <1>6
    <3>2. \A e \in Episodes : artifact'[e] # "stranded"
      BY <1>0, <3>1 DEF HInv, Reported
    <3>3. \A e \in Episodes : Lost(e)' => Lost(e)
      BY <1>0, <3>1 DEF Lost
    <3>4. \A e \in Episodes : Lost(e) => failed' \/ (session' /\ broken')
      BY <1>0, <1>6 DEF HInv, Reported
    <3> QED BY <3>2, <3>3, <3>4 DEF Reported
  <2> QED BY <1>3, <2>1, <2>2, <2>3, <2>4, <2>5, <2>6, <2>7 DEF HInv, Presses
<1>7. ASSUME Raise, NEW now \in {"recording", "failed", "stranded"},
             artifact' = [artifact EXCEPT ![next] = now],
             recording' = (IF now = "recording" THEN next ELSE None),
             rows' \in {rows, [rows EXCEPT ![next] = TRUE]},
             session' \in BOOLEAN, session => session'
      PROVE  HInv'
  BY <1>0, <1>3, <1>5, <1>7, RaiseStep
<1>8. session \in BOOLEAN
  BY DEF HInv, TypeOK
<1>9. \/ /\ artifact' = [artifact EXCEPT ![next] = "recording"]
         /\ recording' = next /\ session' = TRUE
         /\ \/ FirstRow(next) /\ at' = "top" /\ UNCHANGED <<state, resume, failed>>
            \/ Raise /\ rows' \in {rows, [rows EXCEPT ![next] = TRUE]}
      \/ /\ Raise
         /\ UNCHANGED <<rows, session>>
         /\ \/ artifact' = [artifact EXCEPT ![next] = "failed"] /\ UNCHANGED recording
            \/ artifact' = [artifact EXCEPT ![next] = "stranded"] /\ UNCHANGED recording
            \/ artifact' = [artifact EXCEPT ![next] = "recording"] /\ recording' = next
  BY <1>1 DEF OpenTick, OpenRaises
<1> QED BY <1>0, <1>6, <1>7, <1>8, <1>9 DEF FirstRow

-----------------------------------------------------------------------------
(* Leaving                                                                 *)

LEMMA DisconnectStep == HInv /\ (Disconnect \/ FinallyInterrupt) => HInv'
<1> SUFFICES ASSUME HInv, Disconnect \/ FinallyInterrupt PROVE HInv'
  OBVIOUS
<1>1. Interrupt
  BY DEF Disconnect, FinallyInterrupt
<1>2. UNCHANGED <<demos, uses, missed>>
  BY <1>1 DEF Interrupt
<1> QED BY <1>1, <1>2, InterruptStep

LEMMA CleanupStep == HInv /\ Cleanup => HInv'
<1> SUFFICES ASSUME HInv, Cleanup PROVE HInv'
  OBVIOUS
<1>0. /\ at = "cleanup" /\ at' = "closing" /\ resume' = "exit"
      /\ UNCHANGED <<state, demo, demos, held, uses, missed, failed, broken, rows,
                     owner, published>>
      /\ state \in {"waiting", "interrupted", "failed"}
  BY DEF Cleanup, lifecycle, HInv, Control
<1>1. Presses'
  BY <1>0, PressesKept
<1>2. ASSUME FileTypes', Numbered', recording' = None,
             \A e \in Episodes : artifact[e] = "finalized" => artifact'[e] = "finalized",
             state # "failed" => UNCHANGED <<artifact, outcome, session>>
      PROVE  HInv'
  <2>1. TypeOK'
    BY <1>0, <1>1, <1>2 DEF HInv, TypeOK, FileTypes, Presses, Points
  <2>2. Control' /\ Listed' /\ Savable'
    BY <1>0 DEF HInv, Control, Listed, Savable, Owning, Active
  <2>3. Calm'
    BY <1>0, <1>2 DEF HInv, Calm, Asking, Over
  <2>4. Disposed'
    BY <1>0 DEF HInv, Disposed, Owning, Active
  <2>5. SavedIsFinalized'
    BY <1>0, <1>2, SavedKept
  <2>6. Reported'
    <3>1. CASE state = "failed"
      BY <1>0, <3>1 DEF HInv, Control, Reported
    <3>2. CASE state # "failed"
      BY <1>0, <1>2, <3>2, ReportedKept
    <3> QED BY <3>1, <3>2
  <2> QED BY <1>1, <1>2, <2>1, <2>2, <2>3, <2>4, <2>5, <2>6 DEF HInv, Presses
<1>3. recording # None => state = "failed"
  BY <1>0 DEF HInv, Calm, Asking, Over
<1>4. CASE recording = None /\ UNCHANGED <<recording, episodes, artifact, outcome, session>>
  <2>1. FileTypes' /\ Numbered'
    BY <1>0, <1>4 DEF HInv, TypeOK, FileTypes, Numbered
  <2> QED BY <1>2, <1>4, <2>1
<1>5. CASE recording # None /\ EndEpisode("failure")
  <2>1. /\ FileTypes' /\ Numbered' /\ recording' = None
        /\ \A e \in Episodes : artifact[e] = "finalized" => artifact'[e] = "finalized"
    BY <1>0, <1>5, EndEpisodeStep
  <2> QED BY <1>2, <1>3, <1>5, <2>1
<1>6. CASE recording # None /\ EndEpisodeRaises
  <2>1. /\ FileTypes' /\ Numbered' /\ recording' = None
        /\ \A e \in Episodes : artifact[e] = "finalized" => artifact'[e] = "finalized"
    BY <1>0, <1>6, EndEpisodeRaisesStep
  <2> QED BY <1>2, <1>3, <1>6, <2>1
<1>7. CASE /\ recording # None
           /\ artifact' = [artifact EXCEPT ![recording] = "failed"]
           /\ recording' = None
           /\ UNCHANGED <<episodes, outcome, session>>
  <2>1. artifact[recording] = "recording" /\ recording \in Episodes
        /\ artifact \in [Episodes -> ArtifactStates]
    <3>1. recording \in Episodes
      BY <1>7, RecordingAssumption DEF HInv, TypeOK, Episodes, None
    <3> QED BY <3>1 DEF HInv, TypeOK, Numbered
  <2>2. artifact' \in [Episodes -> ArtifactStates] /\ artifact'[recording] = "failed"
        /\ \A e \in Episodes : e # recording => artifact'[e] = artifact[e]
    BY <1>7, <2>1 DEF Files!States, ArtifactStates
  <2>3. recording' \in 0..MaxEpisodes
    BY <1>7, RecordingAssumption DEF None
  <2>4. FileTypes'
    BY <1>0, <1>7, <2>2, <2>3 DEF HInv, TypeOK, FileTypes
  <2>5. Numbered'
    <3>1. \A e \in Episodes : artifact'[e] = "recording" <=> e = recording'
      BY <1>7, <2>2, EpisodeIsNumber DEF HInv, Numbered
    <3>2. \A e \in Episodes : /\ artifact'[e] = "absent" <=> artifact[e] = "absent"
                              /\ artifact'[e] = "finalized" <=> artifact[e] = "finalized"
                              /\ artifact'[e] = "sealed" <=> artifact[e] = "sealed"
                              /\ artifact'[e] = "stranded" <=> artifact[e] = "stranded"
      BY <2>1, <2>2
    <3> QED BY <1>0, <1>7, <3>1, <3>2 DEF HInv, Numbered
  <2>6. \A e \in Episodes : artifact[e] = "finalized" => artifact'[e] = "finalized"
    BY <2>1, <2>2
  <2> QED BY <1>2, <1>3, <1>7, <2>4, <2>5, <2>6
<1> QED BY <1>4, <1>5, <1>6, <1>7 DEF Cleanup

\* When close() has returned nothing records and nothing waits.
LEMMA SessionClosedStep == HInv /\ SessionClosed => HInv'
<1> SUFFICES ASSUME HInv, SessionClosed PROVE HInv'
  OBVIOUS
<1>0. /\ at = "closing" /\ QueueIsEmpty /\ session' = FALSE /\ broken' = FALSE
      /\ UNCHANGED <<demos, held, uses, missed, recording, episodes, artifact, outcome,
                     rows, owner>>
  BY DEF SessionClosed
<1>1. recording = None /\ Over
  <2>1. recording = None
    BY <1>0 DEF HInv, Calm
  <2> QED BY <1>0, <2>1, EpisodeIsNumber DEF HInv, Numbered, Over, QueueIsEmpty
<1>2. Presses'
  BY <1>0, PressesKept
<1>3. FileTypes' /\ Numbered'
  BY <1>0 DEF HInv, TypeOK, FileTypes, Numbered, QueueIsEmpty
<1>4. resume # "exit" => state = "resetting" /\ state \in Owning
  BY <1>0 DEF HInv, Control, Owning
<1>5. CASE /\ resume = "exit" /\ at' = "exit" /\ resume' = "none"
           /\ failed' \in {failed \/ CloseRaises, TRUE}
           /\ UNCHANGED <<state, demo, published>>
  <2>1. state \in {"waiting", "interrupted", "failed"} /\ (state = "failed" => failed)
    BY <1>0, <1>5 DEF HInv, Control
  <2>2. failed' \in BOOLEAN /\ (failed => failed')
    BY <1>5 DEF HInv, TypeOK, CloseRaises
  <2>3. TypeOK'
    BY <1>0, <1>2, <1>3, <1>5, <2>2 DEF HInv, TypeOK, FileTypes, Presses, Points
  <2>4. Control' /\ Listed' /\ Savable'
    BY <1>5, <2>1, <2>2 DEF Control, Listed, Savable, Owning, Active
  <2>5. Calm'
    BY <1>0, <1>1, <1>5 DEF Calm, Over
  <2>6. Disposed'
    BY <1>0, <1>5 DEF HInv, Disposed, Owning, Active
  <2>7. SavedIsFinalized'
    BY <1>0, <1>5, SavedKept
  <2>8. Reported'
    BY <1>0, <1>5, <2>2, ReportedKept DEF CloseRaises
  <2> QED BY <1>2, <1>3, <2>3, <2>4, <2>5, <2>6, <2>7, <2>8 DEF HInv, Presses
<1>6. CASE Raise /\ UNCHANGED <<demo, published>>
  <2>1. SavedIsFinalized'
    BY <1>0, <1>6, SavedKept
  <2> QED BY <1>0, <1>2, <1>3, <1>6, <2>1, RaiseStep
<1>7. CASE /\ ~CloseRaises /\ resume = "stop"
           /\ state' = "review" /\ at' = "rest" /\ resume' = "none"
           /\ UNCHANGED <<demo, failed, published>>
  <2>1. TypeOK'
    BY <1>0, <1>2, <1>3, <1>7 DEF HInv, TypeOK, FileTypes, Presses, States, Points
  <2>2. Control'
    BY <1>7 DEF Control, Active
  <2>3. Disposed'
    BY <1>0, <1>4, <1>7 DEF HInv, Disposed, Owning, Active
  <2>4. Listed'
    BY <1>0, <1>4, <1>7 DEF HInv, Listed, EpisodesOf, Elements
  <2>5. Calm'
    BY <1>0, <1>1, <1>7 DEF Calm, Over
  <2>6. Savable'
    <3>1. ASSUME NEW i \in DOMAIN episodes PROVE artifact[episodes[i]] = "finalized"
      <4>1. /\ session
            /\ artifact[episodes[i]] \in {"sealed", "finalized", "failed"}
            /\ artifact[episodes[i]] = "failed" => broken
        BY <1>4, <1>7 DEF HInv, Savable
      <4>2. episodes[i] \in Episodes
        BY DEF HInv, TypeOK
      <4> QED BY <1>0, <1>7, <4>1, <4>2 DEF CloseRaises, QueueIsEmpty
    <3> QED BY <1>0, <1>7, <3>1 DEF Savable
  <2>7. SavedIsFinalized'
    BY <1>0, <1>7, SavedKept
  <2>8. Reported'
    BY <1>0, <1>4, <1>7, ReportedKept DEF CloseRaises
  <2> QED BY <1>2, <1>3, <2>1, <2>2, <2>3, <2>4, <2>5, <2>6, <2>7, <2>8 DEF HInv, Presses
<1>8. CASE ~CloseRaises /\ resume = "reset" /\ Finish("discarded")
  <2>1. "discarded" \in Dispositions /\ ~(session /\ broken)
    BY <1>8 DEF Dispositions, CloseRaises
  <2> QED BY <1>0, <1>1, <1>2, <1>4, <1>8, <2>1, FinishStep
<1>9. CASE ~CloseRaises /\ resume = "interrupt" /\ Interrupted
  <2>1. ~(session /\ broken)
    BY <1>9 DEF CloseRaises
  <2> QED BY <1>0, <1>1, <1>2, <1>4, <1>9, <2>1, InterruptedStep
<1> QED BY <1>5, <1>6, <1>7, <1>8, <1>9 DEF SessionClosed

LEMMA SettleStep == HInv /\ Settle => HInv'
<1> SUFFICES ASSUME HInv, Settle PROVE HInv'
  OBVIOUS
<1>0. UNCHANGED <<state, demo, demos, held, uses, missed, at, resume, failed, recording,
                  episodes, outcome, rows, owner, published>>
  BY DEF Settle, lifecycle, loop
<1>1. PICK e \in Episodes :
        /\ artifact[e] = "sealed" /\ UNCHANGED session
        /\ \/ /\ outcome[e] = "operator_stopped"
              /\ artifact' = [f \in Episodes |-> IF f \in {e} THEN "finalized" ELSE artifact[f]]
              /\ broken' \in {broken, TRUE}
           \/ /\ artifact' = [f \in Episodes |-> IF f \in {e} THEN "failed" ELSE artifact[f]]
              /\ broken' \in {broken \/ outcome[e] = "operator_stopped", TRUE}
  BY DEF Settle, Files!Settle
<1>2. /\ artifact \in [Episodes -> ArtifactStates]
      /\ artifact' \in [Episodes -> ArtifactStates]
      /\ broken' \in BOOLEAN
      /\ artifact'[e] \in {"finalized", "failed"}
      /\ artifact'[e] = "finalized" => outcome[e] = "operator_stopped"
      /\ artifact'[e] = "failed" /\ outcome[e] = "operator_stopped" => broken'
      /\ broken => broken'
      /\ \A f \in Episodes : f # e => artifact'[f] = artifact[f]
  BY <1>1 DEF HInv, TypeOK, Files!States, ArtifactStates
<1>3. Presses'
  BY <1>0, PressesKept
<1>4. TypeOK'
  BY <1>0, <1>1, <1>2, <1>3 DEF HInv, TypeOK, Presses
<1>5. Control' /\ Disposed'
  BY <1>0 DEF HInv, Control, Disposed
<1>6. Numbered'
  <2>1. \A f \in Episodes : /\ artifact'[f] = "absent" <=> artifact[f] = "absent"
                            /\ artifact'[f] = "recording" <=> artifact[f] = "recording"
                            /\ artifact'[f] = "stranded" <=> artifact[f] = "stranded"
                            /\ artifact'[f] = "sealed" => artifact[f] = "sealed"
    BY <1>1, <1>2
  <2>2. \A f \in Episodes :
             outcome'[f] = "operator_stopped" \/ artifact'[f] = "finalized" => rows'[f]
    BY <1>0, <1>2 DEF HInv, Numbered
  <2> QED BY <1>0, <1>1, <2>1, <2>2 DEF HInv, Numbered
<1>7. Listed'
  BY <1>0 DEF HInv, Listed, EpisodesOf, Elements
<1>8. Calm'
  BY <1>0, <1>1, <1>2 DEF HInv, Calm, Over
<1>9. Savable'
  <2>1. \A i \in DOMAIN episodes : episodes[i] \in Episodes
    BY DEF HInv, TypeOK
  <2>2. state \in {"review", "classify_outcome"} => Over
    BY DEF HInv, Calm, Asking
  <2>3. ASSUME state = "recording" \/ (state = "resetting" /\ resume = "stop"),
               NEW i \in DOMAIN episodes
        PROVE  /\ session'
               /\ outcome'[episodes[i]] = "operator_stopped"
               /\ artifact'[episodes[i]] \in {"sealed", "finalized", "failed"}
               /\ artifact'[episodes[i]] = "failed" => broken'
    <3>1. /\ session
          /\ outcome[episodes[i]] = "operator_stopped"
          /\ artifact[episodes[i]] \in {"sealed", "finalized", "failed"}
          /\ artifact[episodes[i]] = "failed" => broken
      BY <2>3 DEF HInv, Savable
    <3> QED BY <1>0, <1>1, <1>2, <2>1, <3>1
  <2>4. (state = "recording" \/ (state = "resetting" /\ resume = "stop")) =>
            (recording # None => rows[recording])
    BY DEF HInv, Savable
  <2>5. state \notin {"review", "classify_outcome"}
    BY <1>1, <2>2 DEF Over
  <2> QED BY <1>0, <2>3, <2>4, <2>5 DEF Savable
<1>10. SavedIsFinalized'
  <2>1. \A f \in Episodes : artifact[f] = "finalized" => artifact'[f] = "finalized"
    BY <1>1, <1>2
  <2> QED BY <1>0, <2>1, SavedKept
<1>11. Reported'
  <2>1. \A f \in Episodes : artifact'[f] = "stranded" => artifact[f] = "stranded"
    BY <1>1, <1>2
  <2>2. \A f \in Episodes : Lost(f)' => Lost(f) \/ f = e
    BY <1>0, <1>2 DEF Lost
  <2>3. session = TRUE /\ session' = TRUE
    BY <1>1 DEF HInv, Numbered, TypeOK
  <2>4. Lost(e)' => broken'
    <3>1. outcome[e] \in {"operator_stopped", "aborted", "failure"}
      BY <1>1 DEF HInv, Numbered, TypeOK
    <3> QED BY <1>0, <1>2, <3>1 DEF Lost
  <2>5. \A f \in Episodes : Lost(f) => failed \/ (session /\ broken)
    BY DEF HInv, Reported
  <2>6. \A f \in Episodes : artifact[f] = "stranded" => state = "failed"
    BY DEF HInv, Reported
  <2> QED BY <1>0, <1>2, <2>1, <2>2, <2>3, <2>4, <2>5, <2>6 DEF Reported
<1> QED BY <1>3, <1>4, <1>5, <1>6, <1>7, <1>8, <1>9, <1>10, <1>11 DEF HInv, Presses

-----------------------------------------------------------------------------
(* The specification                                                       *)

LEMMA InitHolds == Init => HInv
<1> SUFFICES ASSUME Init PROVE HInv
  OBVIOUS
<1>0. << >> \in Seq(Episodes) /\ 0 \in 0..MaxDemos /\ 0 \in 0..MaxEpisodes
  BY RecordingAssumption, EmptySeq
<1>1. TypeOK
  <2>1. /\ artifact \in [Episodes -> ArtifactStates] /\ owner \in [Episodes -> 0..MaxDemos]
        /\ published \in [Demos -> SUBSET [disposition : Dispositions, list : Seq(Episodes)]]
    BY <1>0 DEF Init, Files!States, ArtifactStates, None
  <2>2. uses \in [Buttons -> 0..2] /\ held \in SUBSET Buttons /\ missed \in SUBSET Buttons
    BY DEF Init
  <2>3. /\ rows \in [Episodes -> BOOLEAN]
        /\ outcome \in [Episodes -> {"none", "operator_stopped", "aborted", "failure"}]
    BY DEF Init
  <2> QED BY <1>0, <2>1, <2>2, <2>3 DEF Init, TypeOK, States, Points, None
<1>2. Control /\ Listed /\ Calm /\ Savable /\ Pressed
  BY DEF Init, Control, Listed, Calm, Savable, Pressed, Owning, Active, Asking, Over
<1>3. Disposed /\ SavedIsFinalized
  BY DEF Init, Disposed, SavedIsFinalized, Owning, Active
<1>4. Numbered
  BY EpisodeIsNumber DEF Init, Numbered, None
<1>5. Reported
  BY DEF Init, Reported, Lost
<1> QED BY <1>1, <1>2, <1>3, <1>4, <1>5 DEF HInv

LEMMA StepHolds == HInv /\ [Next]_vars => HInv'
<1> SUFFICES ASSUME HInv, [Next]_vars PROVE HInv'
  OBVIOUS
<1>1. CASE UNCHANGED vars
  <2>1. Presses'
    BY <1>1, PressesKept DEF vars, lifecycle
  <2>2. TypeOK' /\ Numbered' /\ Control'
    BY <1>1 DEF HInv, TypeOK, Numbered, Control, vars, lifecycle, loop, files
  <2>3. Disposed' /\ Calm' /\ Savable'
    BY <1>1 DEF HInv, Disposed, Calm, Savable, Over, vars, lifecycle, loop, files
  <2>4. Listed'
    BY <1>1 DEF HInv, Listed, EpisodesOf, Elements, vars, lifecycle, files
  <2>5. SavedIsFinalized'
    BY <1>1, SavedKept DEF vars, files
  <2>6. Reported'
    BY <1>1, ReportedKept DEF vars, lifecycle, loop, files
  <2> QED BY <2>1, <2>2, <2>3, <2>4, <2>5, <2>6 DEF HInv, Presses
<1>2. CASE Loop
  BY <1>2, PollButtonsStep, MenuTickStep, LeaveStep, EnvironmentResetStep, GapTickStep,
     RecordTickStep, OpenTickStep, DisconnectStep DEF Loop
<1>3. CASE Leaving
  BY <1>3, DisconnectStep, LeaveStep, CleanupStep, SessionClosedStep DEF Leaving
<1> QED BY <1>1, <1>2, <1>3, LeaveStep, StepRaisesStep, SettleStep DEF Next, Exited

\* The inductive invariant of the recording loop.
THEOREM Invariant == Spec => []HInv
BY InitHolds, StepHolds, PTL DEF Spec

\* Every variable of the loop stays in its type.
THEOREM TypeCorrect == Spec => []TypeOK
<1>1. HInv => TypeOK
  BY DEF HInv
<1> QED BY <1>1, Invariant, PTL

\* A saved demonstration lists all its episodes, in order, finalized and with
\* rows, for good: publish_saved_demo reads what seal_demo has waited for.
THEOREM SavedAlwaysFinalized == Spec => []SavedIsFinalized
<1>1. HInv => SavedIsFinalized
  BY DEF HInv
<1> QED BY <1>1, Invariant, PTL

\* RecordingLifecycle disposes of a demonstration at most once, and of every
\* one before a run without an exception ends.
THEOREM DisposedOnce == Spec => []OneDisposition
<1>1. HInv => OneDisposition
  <2> SUFFICES ASSUME HInv PROVE OneDisposition
    OBVIOUS
  <2>1. ASSUME NEW d \in Demos PROVE Cardinality(published[d]) <= 1
    <3>1. CASE published[d] = {}
      BY <3>1, FS_EmptySet
    <3>2. CASE published[d] # {}
      <4>1. PICK x \in published[d] : published[d] = {x}
        BY <3>2 DEF HInv, Disposed
      <4>2. Cardinality({x}) = 1
        BY FS_Singleton
      <4> QED BY <4>1, <4>2
    <3> QED BY <3>1, <3>2
  <2>2. ASSUME at = "exit", ~failed, NEW d \in 1..demos PROVE published[d] # {}
    <3>1. state \in {"waiting", "interrupted"}
      BY <2>2 DEF HInv, Control
    <3>2. d # None /\ (state = "waiting" => demo = None)
      BY DEF HInv, Disposed, None
    <3> QED BY <3>1, <3>2 DEF HInv, Disposed
  <2> QED BY <2>1, <2>2 DEF OneDisposition
<1> QED BY <1>1, Invariant, PTL

\* Whenever the operator is asked, recording is over, and what is offered for
\* review can be saved.
THEOREM AlwaysQuietWhenAsked == Spec => []QuietWhenAsked
<1>1. HInv => QuietWhenAsked
  BY DEF HInv, Calm, Asking, Over, Savable, QuietWhenAsked, Publishable
<1> QED BY <1>1, Invariant, PTL

\* When run_s2 returns or raises, nothing records or waits for the worker, only
\* the last episode it opened can be without a verdict, and a run that lost an
\* episode ends with an exception.
THEOREM ExitAlwaysSettled == Spec => []ExitIsSettled
<1>1. HInv => ExitIsSettled
  <2> SUFFICES ASSUME HInv, at = "exit" PROVE ExitIsSettled
    BY DEF ExitIsSettled
  <2>1. \A e \in Episodes : artifact[e] \notin {"recording", "sealed"}
    BY DEF HInv, Calm, Over
  <2>2. \A e, f \in Episodes : artifact[e] = "stranded" /\ e < f => artifact[f] = "absent"
    BY DEF HInv, Numbered
  <2>3. ~session
    BY DEF HInv, Calm
  <2>4. \A e \in Episodes : Lost(e) => failed
    BY <2>3 DEF HInv, Reported
  <2> QED BY <2>1, <2>2, <2>4 DEF ExitIsSettled
<1> QED BY <1>1, Invariant, PTL

\* A press that every tick saw fires at most one event.
THEOREM SeenPressAlwaysOnce == Spec => []SeenPressFiresOnce
<1>1. HInv => SeenPressFiresOnce
  BY DEF HInv, Pressed, SeenPressFiresOnce
<1> QED BY <1>1, Invariant, PTL
=============================================================================
