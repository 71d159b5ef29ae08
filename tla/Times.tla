-------------------------------- MODULE Times --------------------------------
(* The clock that keys, quotas and links are read against.  The servers and   *)
(* the database are taken to agree on it; a request may still use a time it   *)
(* read some steps ago.                                                       *)
EXTENDS Naturals

CONSTANT LastTick   \* bound: the behaviours looked at end here

ASSUME TimeAssumption == LastTick \in Nat

VARIABLE clock

Never == LastTick + 1          \* a null date: no expiry, not revoked
Instants == 0 .. LastTick
Dates == Instants \cup {Never}

\* An expiry date that has come.
Expired(date, now) == date # Never /\ date <= now

Tick == clock < LastTick /\ clock' = clock + 1
=============================================================================
