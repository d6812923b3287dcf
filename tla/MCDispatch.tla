------------------------------ MODULE MCDispatch ------------------------------
(***************************************************************************)
(* One command of each kind; literals, profiles with and without an @, the *)
(* default, actions and other words, in every position; profile files of   *)
(* three names, one of them also an action, with every chain, break and    *)
(* cycle; one redirect instead of 16, so that three names are too many.    *)
(***************************************************************************)
EXTENDS Dispatch

MCFirst == {"query", "run", "tables", "meta", "gc", "ping", "web", "trace", "config", "word"}

MCLater == {"host:5000", "@a", "default", "", "-", "-x", "on", "off", "status"}

MCTokens == MCFirst \cup MCLater \cup {"a"}

MCBare == [t \in MCTokens |-> IF t = "@a" THEN "a" ELSE t]

Names == {"default", "a", "off"}

Values == {"none", "host:5000", "@a", "off"}

MCMaps == {[t \in MCTokens |-> IF t \in Names THEN f[t] ELSE "none"] : f \in [Names -> Values]}
===============================================================================
