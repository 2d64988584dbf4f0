-------------------------- MODULE MCCampaignOutreach --------------------------
(***************************************************************************)
(* Small instances of the strategy and outreach stages for TLC.            *)
(***************************************************************************)
EXTENDS CampaignOutreachProperties

CONSTANTS v1, v2

OneVoice == {v1}
TwoVoices == {v1, v2}
NoProse == {}
=============================================================================
