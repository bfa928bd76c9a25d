--------------------------- MODULE MCVoiceRouting ---------------------------
(* Model-checking instance of VoiceRouting: one request of any kind, one   *)
(* that skips or pauses, and one that advances or resumes.                 *)
EXTENDS VoiceRouting

CONSTANTS Free, Skipper, Mover

MCReqs == {Free, Skipper, Mover}

MCWorkload ==
  [r \in MCReqs |-> IF r = Free THEN Kinds
                    ELSE IF r = Skipper THEN {"skip_step", "ended"} ELSE {"advance", "resume"}]
=============================================================================
