---------------------------- MODULE Registration ----------------------------
(***************************************************************************)
(* Internet sessions: the rendezvous store behind the handlers of          *)
(* controlis-server, and the hosts that register an id for each round,     *)
(* renew it from a task of their own and give it back, over a network that *)
(* delays and loses calls and answers.                                     *)
(*                                                                         *)
(* A handler runs under the lock of the store and takes the time under it, *)
(* so it is one step.  A token is the number of the register call that got *)
(* it (the code draws 128 random bits, which are never the same twice).  A *)
(* session id is drawn at random too, but from 48 bits, and two hosts may  *)
(* draw the same.                                                          *)
(***************************************************************************)
EXTENDS Naturals, Sequences

CONSTANTS
    Hosts,      \* the hosts, each with an endpoint of its own
    Ids,        \* the session ids
    Ttl,        \* DEFAULT_TTL_SECS, which every host asks for
    Delay,      \* what counts as a timely answer
    MaxTokens,  \* bound: registrations granted
    MaxTime,    \* bound: the clock
    MaxFaults,  \* bound: lost calls, lost answers and restarts of the server
    MayRestart, \* whether the server may restart
    None        \* no entry

(* Mutant: the task wakes up when the registration ends. *)
PeriodOfTtl == Ttl

(* The interval of the refresh task.                                       *)
Period == Ttl \div 2

ASSUME RegistrationAssumption ==
    /\ Ttl \in Nat /\ Ttl >= 2
    /\ Delay \in Nat /\ MaxTokens \in Nat /\ MaxTime \in Nat /\ MaxFaults \in Nat
    /\ MayRestart \in BOOLEAN
    /\ None \notin [token : Nat, host : Hosts, expires : Nat] \cup Hosts
    /\ None \notin [holder : Hosts, until : Nat]

VARIABLES
    now,        \* the time, the same for everybody
    entries,    \* RendezvousStore::entries
    calls,      \* requests on their way to the server
    answers,    \* answers on their way to a task that waits for them
    round,      \* round[h]: what `run` of host h is doing, its id and token
    task,       \* task[h]: the refresh task of host h
    owner,      \* history: owner[k] is the host that was given token k
    faults,     \* history: lost calls and answers, restarts of the server
    late        \* history: an answer, or a refresh, was not timely

serverVars == <<entries, owner>>
hostVars == <<round, task>>
networkVars == <<calls, answers>>
vars == <<now, serverVars, networkVars, hostVars, faults, late>>

-----------------------------------------------------------------------------
Operation == {"register", "refresh", "unregister"}

Entry == [token : Nat, host : Hosts, expires : Nat]

(* The host stands for the endpoint it publishes and for its connection.   *)
Call == [op : Operation, host : Hosts, id : Ids, token : Nat, sent : Nat]

(* token is what a register call got, 0 when the answer is an error; the   *)
(* answers to the other calls are not looked at.                           *)
Reply == [op : Operation, host : Hosts, token : Nat, sent : Nat]

Round == [pc : {"idle", "register", "serve", "unregister", "gone"},
          id : Ids, token : Nat]

Task == [pc : {"none", "wait", "call"}, id : Ids, token : Nat, due : Nat]

Live(e) == e # None /\ e.expires > now

(* purge_expired_at *)
Purged == [id \in Ids |-> IF Live(entries[id]) THEN entries[id] ELSE None]

(* Somebody waits for the answer to c: neither aborted nor dead.           *)
Awaited(c) ==
    IF c.op = "refresh" THEN task[c.host].pc = "call" /\ task[c.host].token = c.token
                        ELSE round[c.host].pc = c.op

Replied(c, k) ==
    answers' = IF Awaited(c)
               THEN answers \cup {[op |-> c.op, host |-> c.host, token |-> k,
                                   sent |-> c.sent]}
               ELSE answers

-----------------------------------------------------------------------------
(* No entry lives longer than Ttl after the step that wrote it.            *)
TypeOK ==
    /\ now \in Nat
    /\ entries \in [Ids -> Entry \cup {None}]
    /\ \A id \in Ids : entries[id] # None => entries[id].expires =< now + Ttl
    /\ calls \subseteq Call
    /\ answers \subseteq Reply
    /\ round \in [Hosts -> Round]
    /\ task \in [Hosts -> Task]
    /\ owner \in Seq(Hosts)
    /\ faults \in Nat
    /\ late \in BOOLEAN

Init ==
    /\ now = 0
    /\ entries = [id \in Ids |-> None]
    /\ calls = {}
    /\ answers = {}
    /\ \E id \in Ids :
           /\ round = [h \in Hosts |-> [pc |-> "idle", id |-> id, token |-> 0]]
           /\ task = [h \in Hosts |-> [pc |-> "none", id |-> id, token |-> 0, due |-> 0]]
    /\ owner = <<>>
    /\ faults = 0
    /\ late = FALSE

-----------------------------------------------------------------------------
(* The server: the handlers and RendezvousStore. *)

(* Mutant: an entry that is there is replaced. *)
RegisterOver(c) ==
    /\ c \in calls /\ c.op = "register"
    /\ Len(owner) < MaxTokens
    /\ calls' = calls \ {c}
    /\ entries' = [Purged EXCEPT ![c.id] = [token |-> Len(owner) + 1, host |-> c.host,
                                           expires |-> now + Ttl]]
    /\ owner' = Append(owner, c.host)
    /\ Replied(c, Len(owner) + 1)
    /\ UNCHANGED <<now, hostVars, faults, late>>

Register(c) ==
    /\ c \in calls /\ c.op = "register"
    /\ Len(owner) < MaxTokens
    /\ calls' = calls \ {c}
    /\ IF Purged[c.id] = None
       THEN /\ entries' = [Purged EXCEPT ![c.id] =
                              [token |-> Len(owner) + 1, host |-> c.host,
                               expires |-> now + Ttl]]
            /\ owner' = Append(owner, c.host)
            /\ Replied(c, Len(owner) + 1)
       ELSE /\ entries' = Purged
            /\ owner' = owner
            /\ Replied(c, 0)
    /\ UNCHANGED <<now, hostVars, faults, late>>

(* Mutant: the deadline is moved, not set. *)
RenewedFurther(c, e) == [e EXCEPT !.host = c.host, !.expires = e.expires + Ttl]

(* The entry that a refresh of e by c leaves behind.                       *)
Renewed(c, e) == [e EXCEPT !.host = c.host, !.expires = now + Ttl]

(* Mutant: a refresh registers again what is not there. *)
RefreshOrInsert(c) ==
    /\ c \in calls /\ c.op = "refresh"
    /\ calls' = calls \ {c}
    /\ LET e == Purged[c.id] IN
       entries' = IF e = None \/ e.token = c.token
                  THEN [Purged EXCEPT ![c.id] = [token |-> c.token, host |-> c.host,
                                                 expires |-> now + Ttl]]
                  ELSE Purged
    /\ Replied(c, 0)
    /\ UNCHANGED <<now, owner, hostVars, faults, late>>

(* NotFound and TokenMismatch change nothing.                              *)
Refresh(c) ==
    /\ c \in calls /\ c.op = "refresh"
    /\ calls' = calls \ {c}
    /\ LET e == Purged[c.id] IN
       entries' = IF e # None /\ e.token = c.token
                  THEN [Purged EXCEPT ![c.id] = Renewed(c, e)]
                  ELSE Purged
    /\ Replied(c, 0)
    /\ UNCHANGED <<now, owner, hostVars, faults, late>>

(* Mutant: the token is not compared. *)
UnregisterAnyToken(c) ==
    /\ c \in calls /\ c.op = "unregister"
    /\ calls' = calls \ {c}
    /\ entries' = [Purged EXCEPT ![c.id] = None]
    /\ Replied(c, 0)
    /\ UNCHANGED <<now, owner, hostVars, faults, late>>

Unregister(c) ==
    /\ c \in calls /\ c.op = "unregister"
    /\ calls' = calls \ {c}
    /\ LET e == Purged[c.id] IN
       entries' = IF e # None /\ e.token = c.token
                  THEN [Purged EXCEPT ![c.id] = None]
                  ELSE Purged
    /\ Replied(c, 0)
    /\ UNCHANGED <<now, owner, hostVars, faults, late>>

(* Mutant: what has expired is found until somebody else purges it. *)
LookedUpUnpurged(id) ==
    IF entries[id] = None THEN None ELSE entries[id].host

(* What lookup answers a viewer now.                                       *)
LookedUp(id) == IF Purged[id] = None THEN None ELSE Purged[id].host

(* What the viewer does with the answer is not said here.                  *)
Lookup ==
    /\ entries' = Purged
    /\ UNCHANGED <<now, owner, networkVars, hostVars, faults, late>>

(* The store is in memory.                                                 *)
Restart ==
    /\ MayRestart /\ faults < MaxFaults
    /\ faults' = faults + 1
    /\ entries' = [id \in Ids |-> None]
    /\ UNCHANGED <<now, owner, networkVars, hostVars, late>>

-----------------------------------------------------------------------------
(* The host: register_internet, run, unregister_internet. *)

Send(h, op, id, k) ==
    calls' = calls \cup {[op |-> op, host |-> h, id |-> id, token |-> k, sent |-> now]}

BeginRound(h, id) ==
    /\ round[h].pc = "idle"
    /\ round' = [round EXCEPT ![h] = [pc |-> "register", id |-> id, token |-> 0]]
    /\ Send(h, "register", id, 0)
    /\ UNCHANGED <<now, serverVars, answers, task, faults, late>>

(* register_internet returns.  Without a registration the round is a LAN   *)
(* round, which is no concern of the rendezvous server.                    *)
RegisterAnswered(a) ==
    LET h == a.host IN
    /\ a \in answers /\ a.op = "register"
    /\ answers' = answers \ {a}
    /\ IF a.token = 0
       THEN /\ round' = [round EXCEPT ![h].pc = "idle"]
            /\ UNCHANGED task
       ELSE /\ round' = [round EXCEPT ![h].pc = "serve", ![h].token = a.token]
            /\ task' = [task EXCEPT ![h] = [pc |-> "wait", id |-> round[h].id,
                                            token |-> a.token, due |-> now]]
    /\ UNCHANGED <<now, serverVars, calls, faults, late>>

(* What happens to the answers when the task of host h stops waiting.      *)
Drop(h, ops) == answers' = {a \in answers : a.host # h \/ a.op \notin ops}

(* The connection was served, or accept failed: unregister_internet aborts *)
(* the task, whose last refresh may still be on its way.                   *)
EndRound(h) ==
    /\ round[h].pc = "serve"
    /\ round' = [round EXCEPT ![h].pc = "unregister"]
    /\ task' = [task EXCEPT ![h].pc = "none"]
    /\ Send(h, "unregister", round[h].id, round[h].token)
    /\ Drop(h, {"refresh"})
    /\ UNCHANGED <<now, serverVars, faults, late>>

(* Any answer will do: the result is not looked at.                        *)
UnregisterAnswered(a) ==
    LET h == a.host IN
    /\ a \in answers /\ a.op = "unregister"
    /\ answers' = answers \ {a}
    /\ round' = [round EXCEPT ![h].pc = "idle", ![h].token = 0]
    /\ UNCHANGED <<now, serverVars, calls, task, faults, late>>

(* Nobody takes the code: `run` returns and leaves the task running.       *)
CodeNotTaken(h) ==
    /\ round[h].pc = "serve"
    /\ round' = [round EXCEPT ![h].pc = "gone"]
    /\ UNCHANGED <<now, serverVars, networkVars, task, faults, late>>

(* The process of the host ends, with its tasks.                           *)
Die(h) ==
    /\ round[h].pc # "gone" \/ task[h].pc # "none"
    /\ round' = [round EXCEPT ![h].pc = "gone"]
    /\ task' = [task EXCEPT ![h].pc = "none"]
    /\ Drop(h, Operation)
    /\ UNCHANGED <<now, serverVars, calls, faults, late>>

-----------------------------------------------------------------------------
(* spawn_refresh_task *)

(* The first tick comes at once, and a tick that was missed is made up for. *)
RefreshTick(h) ==
    /\ task[h].pc = "wait" /\ task[h].due =< now
    /\ task' = [task EXCEPT ![h].pc = "call", ![h].due = @ + Period]
    /\ Send(h, "refresh", task[h].id, task[h].token)
    /\ UNCHANGED <<now, serverVars, answers, round, faults, late>>

(* An error is logged, and the task goes on.                               *)
RefreshAnswered(a) ==
    /\ a \in answers /\ a.op = "refresh"
    /\ answers' = answers \ {a}
    /\ task' = [task EXCEPT ![a.host].pc = "wait"]
    /\ UNCHANGED <<now, serverVars, calls, round, faults, late>>

-----------------------------------------------------------------------------
(* The network and the clock. *)

(* A call does not reach the store: the connection fails, or the rate      *)
(* limiter refuses it.  The caller gets an error.                          *)
LoseCall(c) ==
    /\ c \in calls
    /\ faults < MaxFaults
    /\ faults' = faults + 1
    /\ calls' = calls \ {c}
    /\ Replied(c, 0)
    /\ UNCHANGED <<now, serverVars, hostVars, late>>

(* A register call was handled, and its answer is lost.                    *)
LoseAnswer(a) ==
    /\ a \in answers /\ a.op = "register" /\ a.token # 0
    /\ faults < MaxFaults
    /\ faults' = faults + 1
    /\ answers' = (answers \ {a}) \cup {[a EXCEPT !.token = 0]}
    /\ UNCHANGED <<now, serverVars, calls, hostVars, late>>

(* A call is late when it is not answered within Delay, a refresh when it  *)
(* is not sent when it is due.                                             *)
Overdue ==
    \/ \E m \in calls \cup answers : m.sent + Delay =< now
    \/ \E h \in Hosts : task[h].pc = "wait" /\ task[h].due =< now

Tick ==
    /\ now < MaxTime
    /\ now' = now + 1
    /\ late' = (late \/ Overdue)
    /\ UNCHANGED <<serverVars, networkVars, hostVars, faults>>

-----------------------------------------------------------------------------
Next ==
    \/ \E c \in calls : Register(c) \/ Refresh(c) \/ Unregister(c) \/ LoseCall(c)
    \/ \E a \in answers : \/ RegisterAnswered(a) \/ RefreshAnswered(a)
                          \/ UnregisterAnswered(a) \/ LoseAnswer(a)
    \/ Lookup
    \/ \E h \in Hosts, id \in Ids : BeginRound(h, id)
    \/ \E h \in Hosts : EndRound(h) \/ CodeNotTaken(h) \/ Die(h) \/ RefreshTick(h)
    \/ Restart
    \/ Tick

Spec == Init /\ [][Next]_vars
-----------------------------------------------------------------------------
Leases == INSTANCE Lease WITH
    lease <- [id \in Ids |-> IF entries[id] = None THEN None
                             ELSE [holder |-> owner[entries[id].token],
                                   until |-> entries[id].expires]]

(* An id is leased to one host at a time, whose calls alone renew it: the  *)
(* refreshes of a host that lost its registration, or was told to give it  *)
(* up, do not touch the one that drew the id after it.                     *)
KeepsLease == Leases!Spec

(* A viewer that asks for an id is sent to the host that holds the lease,  *)
(* which the server has heard of within the TTL, or nowhere.               *)
LookupLeadsToHolder == \A id \in Ids : LookedUp(id) = Leases!Holder(id)

(* "exige token e remove o registro": a registration that has not ended    *)
(* goes away only by the hand of its owner, or with all the others.        *)
OnlyOwnerRemoves ==
    [][\A id \in Ids :
          Live(entries[id]) /\ entries'[id] = None =>
              \/ \E c \in calls \ calls' : /\ c.op = "unregister"
                                           /\ c.host = owner[entries[id].token]
              \/ faults' > faults /\ \A i \in Ids : entries'[i] = None]_vars

(* A registration that ended does not come back: a late refresh, or one    *)
(* that overtakes the unregister of its own host, finds nothing.           *)
DeadStaysDead ==
    [][\A id \in Ids :
          \/ entries'[id] = None
          \/ entries[id] # None /\ entries'[id].token = entries[id].token
          \/ entries'[id].token > Len(owner)]_vars

Resolves(h) ==
    LET e == Purged[round[h].id] IN e # None /\ e.token = round[h].token

(* As long as every call is answered in time and none is lost, the code a  *)
(* host shows can be resolved: the refreshes leave no gap.                 *)
TimelyHostIsFound ==
    ~late /\ faults = 0 => \A h \in Hosts : round[h].pc = "serve" => Resolves(h)

(* "o host renova o registro enquanto o código está válido"                *)
(* (docs/protocol.md): the code a host shows can be resolved, provided the *)
(* calls are answered in time, be it with an error.                        *)
CodeIsRenewed ==
    ~late => \A h \in Hosts : round[h].pc = "serve" => Resolves(h)
=============================================================================
