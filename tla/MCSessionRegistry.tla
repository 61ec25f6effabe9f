-------------------------- MODULE MCSessionRegistry --------------------------
(* Values of the constants of SessionRegistry for the model checker. *)
EXTENDS SessionRegistry

CONSTANTS a, b

Config(m, d, e, f, r) == [max |-> m, deny |-> d, evict |-> e, failOpen |-> f, rotation |-> r]
\* As shipped, but for the limit; failing closed; and refusing logins, with rotating ids.
Deployments == { Config(1, FALSE, TRUE, TRUE, FALSE), Config(2, FALSE, TRUE, FALSE, FALSE),
                 Config(1, TRUE, FALSE, TRUE, TRUE) }
SingleDevice == { Config(1, FALSE, TRUE, TRUE, FALSE) }
=============================================================================
