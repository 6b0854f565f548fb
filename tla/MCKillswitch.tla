---------------------------- MODULE MCKillswitch ----------------------------
(* Two strategies that start in different modes, or one without a yaml.    *)
EXTENDS Killswitch

CONSTANTS s1, s2

MCStrategy == {s1, s2}

MCInitialModes ==
  {[s \in MCStrategy |-> IF s = s1 THEN "live" ELSE m] :
     m \in {"live", "dry_run", "none"}}
=============================================================================
