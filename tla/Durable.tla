------------------------------ MODULE Durable ------------------------------
(***************************************************************************)
(* What the board promises of a setting: a client is shown a value only    *)
(* when a restart would bring it back, and nothing is saved that is not    *)
(* then shown, by the same request or by the restart that interrupts it.   *)
(* Board implements this.                                                  *)
(***************************************************************************)
CONSTANTS Keys, Values

VARIABLES
  saved,   \* what a restart brings back
  shown,   \* what the clients see
  due,     \* what the request being handled has still to show
  failed   \* a save failed: the promise ends

vars == <<saved, shown, due, failed>>

Init ==
  /\ saved \in [Keys -> Values]
  /\ shown = saved
  /\ due = {}
  /\ failed = FALSE

\* One request at a time; most ask for nothing to be shown.
Request(keys) ==
  /\ due = {}
  /\ due' = keys
  /\ UNCHANGED <<saved, shown, failed>>

Store(key, value) ==
  /\ key \in due
  /\ saved' = [saved EXCEPT ![key] = value]
  /\ UNCHANGED <<shown, due, failed>>

StoreFails ==
  /\ failed' = TRUE
  /\ UNCHANGED <<saved, shown, due>>

Show(key, value) ==
  /\ key \in due
  /\ failed \/ value = saved[key]
  /\ shown' = [shown EXCEPT ![key] = value]
  /\ due' = due \ {key}
  /\ UNCHANGED <<saved, failed>>

\* At any moment; what was due is given up.
Restart ==
  /\ shown' = saved
  /\ due' = {}
  /\ UNCHANGED <<saved, failed>>

Next ==
  \/ \E keys \in SUBSET Keys : Request(keys)
  \/ \E key \in Keys, value \in Values : Store(key, value) \/ Show(key, value)
  \/ StoreFails
  \/ Restart

Spec == Init /\ [][Next]_vars
=============================================================================
