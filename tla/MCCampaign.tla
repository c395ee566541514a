----------------------------- MODULE MCCampaign -----------------------------
(* Instance of Campaign for TLC: two publishers, four personas of which two  *)
(* or three are selected, and one id that is in neither catalog.             *)
EXTENDS Campaign

const_PublisherOrder == <<"p1", "p2">>
const_PersonaOrder == <<"s1", "s2", "s3", "s4">>
=============================================================================
