-------------------------------- MODULE Lease --------------------------------
(***************************************************************************)
(* What the rendezvous server promises: a session id is leased to one host *)
(* at a time, and a lease ends Ttl after the last time its holder was      *)
(* heard of at the latest.  The server may forget leases at any moment     *)
(* (its memory is volatile).  Registration implements it.                  *)
(***************************************************************************)
EXTENDS Naturals

CONSTANTS
    Ids,    \* the session ids
    Hosts,  \* the hosts
    Ttl,    \* the longest time without a sign of the holder
    None    \* no lease

VARIABLES
    now,    \* the time
    lease   \* lease[id]: its holder and its end, or None

vars == <<now, lease>>

Held(id) == lease[id] # None /\ lease[id].until > now

(* Whom a viewer that asks for id should be sent to.                       *)
Holder(id) == IF Held(id) THEN lease[id].holder ELSE None

Init ==
    /\ now \in Nat
    /\ lease = [id \in Ids |-> None]

(* What is left when only the leases in kept are remembered.               *)
After(kept) == [id \in Ids |-> IF id \in kept THEN lease[id] ELSE None]

Grant(id, h) ==
    /\ ~Held(id)
    /\ \E kept \in SUBSET Ids :
           lease' = [After(kept) EXCEPT ![id] = [holder |-> h, until |-> now + Ttl]]
    /\ UNCHANGED now

Renew(id) ==
    /\ Held(id)
    /\ \E kept \in SUBSET Ids :
           lease' = [After(kept) EXCEPT ![id] =
                        [holder |-> lease[id].holder, until |-> now + Ttl]]
    /\ UNCHANGED now

Forget ==
    /\ \E kept \in SUBSET Ids : lease' = After(kept)
    /\ UNCHANGED now

Tick ==
    /\ now' > now
    /\ UNCHANGED lease

Next ==
    \/ \E id \in Ids, h \in Hosts : Grant(id, h)
    \/ \E id \in Ids : Renew(id)
    \/ Forget
    \/ Tick

Spec == Init /\ [][Next]_vars
=============================================================================
