----------------------------- MODULE MCTranscript -----------------------------
(* The small instance of the runtime, with its messages. *)
EXTENDS Transcript, MCAgentRuntime
=============================================================================
