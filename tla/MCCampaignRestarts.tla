------------------------- MODULE MCCampaignRestarts -------------------------
(* CampaignRestarts on the instance of MCCampaign. *)
EXTENDS MCCampaign, CampaignRestarts
=============================================================================
