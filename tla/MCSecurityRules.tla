-------------------------- MODULE MCSecurityRules --------------------------
(* SecurityRulesProperties for TLC: every list of up to MaxRules rules     *)
(* over a few ports and CIDRs.                                             *)
EXTENDS SecurityRulesProperties, TLC
=============================================================================
