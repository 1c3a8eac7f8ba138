------------------------------ MODULE FlashJob ------------------------------
(***************************************************************************)
(* What programming one board promises, without the driver, its retries,   *)
(* its layouts or its screens: the flash is worked on in sessions only,    *)
(* the board is judged once, a good board is judged outside any session,   *)
(* and nothing touches the flash after the verdict.                        *)
(***************************************************************************)
CONSTANTS Pages, PageContent, Mode

VARIABLES phase, session, flash

jobVars == <<phase, session, flash>>

Phase == {"waiting", "working", "failed", "passed"}

JobTypeOK ==
  /\ phase \in Phase
  /\ session \in Mode \cup {"none"}
  /\ flash \in [Pages -> PageContent]

JobInit ==
  /\ phase = "waiting" /\ session = "none"
  /\ flash = [p \in Pages |-> "old"]

Detect == phase = "waiting" /\ phase' = "working" /\ UNCHANGED <<session, flash>>

Open(m) == phase = "working" /\ session' = m /\ UNCHANGED <<phase, flash>>

\* Work on the flash happens in an open session of a board still being judged.
Work ==
  /\ phase = "working" /\ session # "none"
  /\ flash' \in [Pages -> PageContent]
  /\ UNCHANGED <<phase, session>>

\* The session is closed, or lost with the target: at any time.
Close == session' = "none" /\ UNCHANGED <<phase, flash>>

Accept ==
  /\ phase = "working" /\ session' = "none"
  /\ phase' = "passed" /\ UNCHANGED flash

Reject == phase = "working" /\ phase' = "failed" /\ UNCHANGED <<session, flash>>

JobNext ==
  \/ Detect \/ (\E m \in Mode : Open(m)) \/ Work \/ Close \/ Accept \/ Reject

JobSpec == JobInit /\ [][JobNext]_jobVars
=============================================================================
