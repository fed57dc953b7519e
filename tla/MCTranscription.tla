--------------------------- MODULE MCTranscription ---------------------------
(* Transcription for TLC.                                                    *)
EXTENDS Transcription, TLC
=============================================================================
