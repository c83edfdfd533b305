--------------------------- MODULE MCBugInjection ---------------------------
(* The campaign over the small regression, with its main directed suite. *)
EXTENDS MCRegression, BugInjection

MCCampaignSuites == {s \in MCSuites : Len(s) > 2}
=============================================================================
