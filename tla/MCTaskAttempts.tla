--------------------------- MODULE MCTaskAttempts ---------------------------
(* Constants of the runs of TaskAttempts. *)
EXTENDS TaskAttempts

Config(lima, setup, keep) == [lima |-> lima, setup |-> setup, keep |-> keep]

\* The configurations for which every property is meant to hold.
SoundConfigs == {Config(FALSE, TRUE, FALSE), Config(TRUE, FALSE, FALSE), Config(TRUE, FALSE, TRUE)}

LimaConfigs == {Config(TRUE, FALSE, FALSE)}

LimaSetupConfigs == {Config(TRUE, TRUE, FALSE)}
=============================================================================
