-------------------------- MODULE MCVoiceRecording --------------------------
(* The instance of VoiceRecording that TLC checks. *)
EXTENDS VoiceRecording
=============================================================================
