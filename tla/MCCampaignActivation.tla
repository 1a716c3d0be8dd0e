---------------------- MODULE MCCampaignActivation ----------------------
(* Two or three hosts, few candidates: model values and symmetry.        *)
EXTENDS CampaignInvariant, TLC

HostSymmetry == Permutations(Hosts)
HostAndCampaignSymmetry == HostSymmetry \cup Permutations(RotateOps)
=============================================================================
