---------------------------- MODULE MCEffectHosts -----------------------------
(* Instances of EffectHosts for TLC.                                       *)
EXTENDS EffectHosts

Effect(t, b) == [type |-> t, enabled |-> b, value |-> Default]

(* A bypassed plugin alone; a bypassed gain before a plugin that is played. *)
MCSetups == {[e \in {1} |-> Effect("plugin", FALSE)],
             [e \in Effects |-> Effect(IF e = 1 THEN "gain" ELSE "plugin", e > 1)]}
=============================================================================
