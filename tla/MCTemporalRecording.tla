------------------------ MODULE MCTemporalRecording -------------------------
(* A bounded instance of TemporalRecording for TLC. *)
EXTENDS TemporalRecording

MCFeeds == {<<"left", "joints">>, <<"left", "gripper">>, <<"right", "joints">>}
MCOffers == {{"left"} \X {"joints", "gripper"}, {<<"right", "gripper">>}}
=============================================================================
