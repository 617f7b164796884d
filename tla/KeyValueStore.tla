--------------------------- MODULE KeyValueStore ---------------------------
(***************************************************************************)
(* What a cluster promises to its clients while slots move: one register   *)
(* for each key, read and written atomically.  A key that a MIGRATE        *)
(* reported in doubt (IOERR) promises nothing any more.                    *)
(***************************************************************************)
CONSTANTS Keys, Values, None

VARIABLES store, doubt, reply

Init == store \in [Keys -> Values \cup {None}] /\ doubt = {} /\ reply = None

Set(S, x) == store' = [k \in Keys |-> IF k \in S THEN x ELSE store[k]] /\ reply' = None /\ UNCHANGED doubt
Get(k) == /\ reply' = [key |-> k, value |-> store[k]] /\ UNCHANGED <<store, doubt>>
Ack == reply' = None /\ UNCHANGED <<store, doubt>>
Doubt(k) == doubt' = doubt \cup {k} /\ UNCHANGED reply /\ \A j \in Keys \ doubt' : store'[j] = store[j]
InDoubt == /\ doubt # {} /\ UNCHANGED doubt /\ \A j \in Keys \ doubt : store'[j] = store[j]
           /\ reply' = None \/ reply'.key \in doubt

Next == \/ \E S \in SUBSET Keys, x \in Values \cup {None} : Set(S, x)
        \/ \E k \in Keys : Get(k) \/ Doubt(k)
        \/ Ack \/ InDoubt

Spec == Init /\ [][Next]_<<store, doubt, reply>>
=============================================================================
