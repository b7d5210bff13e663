-------------------------- MODULE RegistrationProofs --------------------------
(***************************************************************************)
(* Proofs about Registration, for any hosts and ids, any TTL and any       *)
(* number of registrations, delays, losses and restarts: a token is known  *)
(* to nobody but the host it was given to, and therefore the calls of one  *)
(* host never touch the registration of another.                           *)
(***************************************************************************)
EXTENDS Registration, SequenceTheorems, TLAPS

(* Token k was given to host h.                                            *)
Owns(h, k) == k \in 1 .. Len(owner) /\ owner[k] = h

(* Wherever a token is, it is its owner's.                                 *)
EntriesOwned ==
    \A id \in Ids : entries[id] # None => Owns(entries[id].host, entries[id].token)

CallsOwned == \A c \in calls : c.op # "register" => Owns(c.host, c.token)

AnswersOwned ==
    \A a \in answers : a.op = "register" /\ a.token # 0 => Owns(a.host, a.token)

RoundsOwned == \A h \in Hosts : round[h].pc = "serve" => Owns(h, round[h].token)

TasksOwned == \A h \in Hosts : task[h].pc # "none" => Owns(h, task[h].token)

(* The task that waits for the answer to a refresh is there.               *)
TasksAwait == \A a \in answers : a.op = "refresh" => task[a.host].pc # "none"

Owned == /\ EntriesOwned /\ CallsOwned /\ AnswersOwned
         /\ RoundsOwned /\ TasksOwned /\ TasksAwait

RegInv == TypeOK /\ Owned

-----------------------------------------------------------------------------
(* Facts about the pieces the actions are made of.                         *)

(* Purging forgets entries and changes none.                               *)
LEMMA PurgedEntries ==
    ASSUME TypeOK
    PROVE  /\ Purged \in [Ids -> Entry \cup {None}]
           /\ \A id \in Ids : /\ Purged[id] \in {None, entries[id]}
                              /\ Purged[id] # None <=> Live(entries[id])
BY RegistrationAssumption DEF TypeOK, Purged, Live, Entry

LEMMA CallType ==
    ASSUME NEW h \in Hosts, NEW op \in Operation, NEW id \in Ids, NEW k \in Nat,
           now \in Nat, calls \subseteq Call, Send(h, op, id, k)
    PROVE  /\ calls' \subseteq Call
           /\ \A c \in calls' : c \in calls \/ (c.op = op /\ c.host = h /\ c.token = k)
BY DEF Send, Call

(* An answer carries the sender and the operation of its call.             *)
LEMMA ReplyType ==
    ASSUME NEW c \in Call, NEW k \in Nat, answers \subseteq Reply, Replied(c, k)
    PROVE  /\ answers' \subseteq Reply
           /\ \A a \in answers' :
                  a \in answers \/ (a.op = c.op /\ a.host = c.host /\ a.token = k)
BY DEF Replied, Reply, Call

(* Tokens that were given stay given.                                      *)
LEMMA OwnerGrows ==
    ASSUME owner \in Seq(Hosts), NEW g \in Hosts, owner' = Append(owner, g)
    PROVE  /\ owner' \in Seq(Hosts) /\ Len(owner') = Len(owner) + 1
           /\ Len(owner) + 1 \in Nat
           /\ \A k : k = Len(owner) + 1 => Owns(g, k)'
           /\ \A h \in Hosts, k \in Nat : Owns(h, k) => Owns(h, k)'
           /\ \A k \in 1 .. Len(owner) : owner'[k] = owner[k]
<1>1. /\ owner' \in Seq(Hosts) /\ Len(owner') = Len(owner) + 1
      /\ \A k \in 1 .. Len(owner) : owner'[k] = owner[k]
      /\ owner'[Len(owner) + 1] = g
  BY AppendProperties
<1>2. Len(owner) \in Nat
  BY LenProperties
<1>3. \A k : k = Len(owner) + 1 => Owns(g, k)'
  BY <1>1, <1>2 DEF Owns
<1>4. \A h \in Hosts, k \in Nat : Owns(h, k) => Owns(h, k)'
  <2>. SUFFICES ASSUME NEW h \in Hosts, NEW k \in Nat, Owns(h, k) PROVE Owns(h, k)'
    OBVIOUS
  <2>1. k \in 1 .. Len(owner) /\ owner[k] = h
    BY DEF Owns
  <2>2. k \in 1 .. Len(owner') /\ owner'[k] = h
    BY <1>1, <1>2, <2>1
  <2>. QED
    BY <2>2 DEF Owns
<1>. QED
  BY <1>1, <1>2, <1>3, <1>4

LEMMA OwnerStays ==
    ASSUME owner' = owner
    PROVE  \A h, k : Owns(h, k) => Owns(h, k)'
BY DEF Owns

(* What a step may do to the entries: forget some; ...                     *)
Fewer == /\ owner' = owner /\ now' = now
         /\ entries' \in [Ids -> Entry \cup {None}]
         /\ \A id \in Ids : entries'[id] \in {None, entries[id]}

(* ... renew one that has not ended, or ...                                *)
RenewsOne(id) ==
    /\ owner' = owner /\ now' = now
    /\ entries' \in [Ids -> Entry \cup {None}]
    /\ Live(entries[id]) /\ entries'[id] # None
    /\ entries'[id].token = entries[id].token /\ entries'[id].expires = now + Ttl
    /\ Owns(entries'[id].host, entries'[id].token)
    /\ \A i \in Ids \ {id} : entries'[i] \in {None, entries[i]}

(* ... insert a new one where none is.                                     *)
InsertsOne(id, h) ==
    /\ owner' = Append(owner, h) /\ now' = now
    /\ entries' \in [Ids -> Entry \cup {None}]
    /\ ~Live(entries[id]) /\ entries'[id] # None
    /\ entries'[id].token = Len(owner) + 1 /\ entries'[id].expires = now + Ttl
    /\ entries'[id].host = h
    /\ \A i \in Ids \ {id} : entries'[i] \in {None, entries[i]}

LEMMA RegisterEffect ==
    ASSUME TypeOK, NEW c \in calls, Register(c)
    PROVE  Fewer \/ \E id \in Ids, h \in Hosts : InsertsOne(id, h)
<1>. DEFINE e == [token |-> Len(owner) + 1, host |-> c.host, expires |-> now + Ttl]
<1>1. /\ c.id \in Ids /\ c.host \in Hosts /\ now' = now
      /\ now + Ttl \in Nat /\ Len(owner) + 1 \in Nat
  BY RegistrationAssumption DEF TypeOK, Call, Register
<1>2. e \in Entry /\ e # None
  BY <1>1, RegistrationAssumption DEF Entry
<1>3. CASE Purged[c.id] = None
  <2>1. entries' = [Purged EXCEPT ![c.id] = e] /\ owner' = Append(owner, c.host)
    BY <1>3 DEF Register
  <2>2. /\ e.token = Len(owner) + 1 /\ e.host = c.host /\ e.expires = now + Ttl
    OBVIOUS
  <2>. HIDE DEF e
  <2>3. InsertsOne(c.id, c.host)
    BY <1>1, <1>2, <1>3, <2>1, <2>2, PurgedEntries DEF InsertsOne
  <2>. QED
    BY <1>1, <2>3
<1>4. CASE Purged[c.id] # None
  BY <1>1, <1>4, PurgedEntries DEF Register, Fewer
<1>. QED
  BY <1>3, <1>4

LEMMA RefreshEffect ==
    ASSUME RegInv, NEW c \in calls, Refresh(c)
    PROVE  Fewer \/ \E id \in Ids : RenewsOne(id)
<1>. DEFINE e == Purged[c.id]
            r == Renewed(c, e)
<1>1. /\ TypeOK /\ c.id \in Ids /\ c.host \in Hosts /\ now' = now /\ owner' = owner
      /\ now + Ttl \in Nat /\ Owns(c.host, c.token)
  BY RegistrationAssumption DEF RegInv, Owned, CallsOwned, TypeOK, Call, Refresh
<1>2. CASE e # None /\ e.token = c.token
  <2>1. e \in Entry /\ e = entries[c.id] /\ Live(entries[c.id])
    BY <1>1, <1>2, PurgedEntries
  <2>2. /\ r \in Entry /\ r.token = e.token /\ r.host = c.host /\ r.expires = now + Ttl
    BY <1>1, <2>1 DEF Renewed, Entry
  <2>3. r # None
    BY <2>2, RegistrationAssumption DEF Entry
  <2>4. entries' = [Purged EXCEPT ![c.id] = r]
    BY <1>2 DEF Refresh
  <2>. HIDE DEF r
  <2>5. RenewsOne(c.id)
    BY <1>1, <1>2, <2>1, <2>2, <2>3, <2>4, PurgedEntries DEF RenewsOne
  <2>. QED
    BY <1>1, <2>5
<1>3. CASE ~(e # None /\ e.token = c.token)
  BY <1>1, <1>3, PurgedEntries DEF Refresh, Fewer
<1>. QED
  BY <1>2, <1>3

LEMMA UnregisterEffect ==
    ASSUME TypeOK, NEW c \in calls, Unregister(c)
    PROVE  Fewer
<1>1. c.id \in Ids /\ now' = now /\ owner' = owner
  BY DEF TypeOK, Call, Unregister
<1>2. entries' = Purged \/ entries' = [Purged EXCEPT ![c.id] = None]
  BY DEF Unregister
<1>. QED
  BY <1>1, <1>2, PurgedEntries DEF Fewer

(* What a step does to the entries, in all.                                *)
StoreEffect ==
    \/ Fewer
    \/ \E id \in Ids : RenewsOne(id)
    \/ \E id \in Ids, h \in Hosts : InsertsOne(id, h)

OwnersGrow == \A h \in Hosts, k \in Nat : Owns(h, k) => Owns(h, k)'

(* Every step but Tick has one of these effects.                           *)
LEMMA Effects ==
    ASSUME RegInv, [Next]_vars
    PROVE  StoreEffect \/ Tick
<1>. USE DEF RegInv
<1>. DEFINE Quiet == UNCHANGED <<now, entries, owner>>
<1>1. ASSUME now' = now, owner' = owner, entries' \in {entries, Purged}
      PROVE  Fewer
  BY <1>1, PurgedEntries DEF Fewer, TypeOK
<1>2. CASE \E c \in calls : Register(c) \/ Refresh(c) \/ Unregister(c)
  BY <1>2, RegisterEffect, RefreshEffect, UnregisterEffect DEF StoreEffect
<1>3. CASE Lookup
  BY <1>1, <1>3 DEF Lookup, StoreEffect
<1>4. CASE Restart
  BY <1>4 DEF Restart, StoreEffect, Fewer
<1>5. CASE Quiet
  BY <1>1, <1>5 DEF StoreEffect
<1>6. ASSUME \/ \E c \in calls : LoseCall(c)
             \/ \E a \in answers : \/ RegisterAnswered(a) \/ RefreshAnswered(a)
                                   \/ UnregisterAnswered(a) \/ LoseAnswer(a)
             \/ \E h \in Hosts, id \in Ids : BeginRound(h, id)
             \/ \E h \in Hosts : EndRound(h) \/ CodeNotTaken(h) \/ Die(h) \/ RefreshTick(h)
             \/ UNCHANGED vars
      PROVE  Quiet
  BY <1>6 DEF LoseCall, RegisterAnswered, RefreshAnswered, UnregisterAnswered, LoseAnswer,
       BeginRound, EndRound, CodeNotTaken, Die, RefreshTick, serverVars, vars
<1>. QED
  BY <1>2, <1>3, <1>4, <1>5, <1>6 DEF Next

(* The effects keep the entries in order, and the tokens with their owners. *)
LEMMA StoreStep ==
    ASSUME RegInv, StoreEffect
    PROVE  /\ now' \in Nat /\ owner' \in Seq(Hosts)
           /\ entries' \in [Ids -> Entry \cup {None}]
           /\ \A id \in Ids : entries'[id] # None => entries'[id].expires =< now' + Ttl
           /\ EntriesOwned'
           /\ OwnersGrow
<1>. USE DEF RegInv
<1>0. \A id \in Ids : entries[id] # None =>
          entries[id].host \in Hosts /\ entries[id].token \in Nat
  BY DEF TypeOK, Entry
<1>1. CASE Fewer
  <2>1. OwnersGrow
    BY <1>1, OwnerStays DEF Fewer, OwnersGrow
  <2>2. EntriesOwned'
    BY <1>1, OwnerStays DEF Fewer, Owned, EntriesOwned
  <2>. QED
    BY <1>1, <2>1, <2>2 DEF Fewer, TypeOK
<1>2. ASSUME NEW id \in Ids, RenewsOne(id)
      PROVE  /\ OwnersGrow /\ EntriesOwned' /\ owner' = owner /\ now' = now
             /\ entries' \in [Ids -> Entry \cup {None}]
             /\ \A i \in Ids : entries'[i] # None => entries'[i].expires =< now + Ttl
  <2>1. OwnersGrow
    BY <1>2, OwnerStays DEF RenewsOne, OwnersGrow
  <2>2. EntriesOwned'
    BY <1>2, OwnerStays DEF RenewsOne, Owned, EntriesOwned
  <2>3. now + Ttl =< now + Ttl
    BY RegistrationAssumption DEF TypeOK
  <2>. QED
    BY <1>2, <2>1, <2>2, <2>3 DEF RenewsOne, TypeOK
<1>3. ASSUME NEW id \in Ids, NEW h \in Hosts, InsertsOne(id, h)
      PROVE  /\ OwnersGrow /\ EntriesOwned' /\ owner' \in Seq(Hosts) /\ now' = now
             /\ entries' \in [Ids -> Entry \cup {None}]
             /\ \A i \in Ids : entries'[i] # None => entries'[i].expires =< now + Ttl
  <2>1. /\ OwnersGrow /\ owner' \in Seq(Hosts)
        /\ \A k : k = Len(owner) + 1 => Owns(h, k)'
    BY <1>3, OwnerGrows DEF InsertsOne, OwnersGrow, TypeOK
  <2>2. EntriesOwned'
    <3>. SUFFICES ASSUME NEW i \in Ids, entries'[i] # None
                  PROVE  Owns(entries[i].host, entries[i].token)'
      BY DEF EntriesOwned
    <3>1. CASE i = id
      BY <1>3, <2>1, <3>1 DEF InsertsOne
    <3>2. CASE i # id
      <4>1. entries'[i] = entries[i]
        BY <1>3, <3>2 DEF InsertsOne
      <4>. QED
        BY <1>0, <2>1, <4>1 DEF OwnersGrow, Owned, EntriesOwned
    <3>. QED
      BY <3>1, <3>2
  <2>3. now + Ttl =< now + Ttl
    BY RegistrationAssumption DEF TypeOK
  <2>. QED
    BY <1>3, <2>1, <2>2, <2>3 DEF InsertsOne, TypeOK
<1>. QED
  BY <1>1, <1>2, <1>3 DEF StoreEffect, TypeOK

-----------------------------------------------------------------------------
(* The network, the hosts and their tasks. *)

Rest ==
    /\ calls \subseteq Call /\ answers \subseteq Reply
    /\ round \in [Hosts -> Round] /\ task \in [Hosts -> Task]
    /\ faults \in Nat /\ late \in BOOLEAN
    /\ CallsOwned /\ AnswersOwned /\ RoundsOwned /\ TasksOwned /\ TasksAwait

LEMMA RestHolds == ASSUME RegInv PROVE Rest
BY DEF RegInv, TypeOK, Owned, Rest

(* What the hosts hold stays theirs when the server grants a token.        *)
LEMMA HeldTokensKept ==
    ASSUME Rest, OwnersGrow
    PROVE  /\ \A c \in calls : c.op # "register" => Owns(c.host, c.token)'
           /\ \A a \in answers : a.op = "register" /\ a.token # 0 => Owns(a.host, a.token)'
           /\ \A h \in Hosts : round[h].pc = "serve" =>
                  \A k : k = round[h].token => Owns(h, k)'
           /\ \A h \in Hosts : task[h].pc # "none" =>
                  \A k : k = task[h].token => Owns(h, k)'
<1>1. /\ \A c \in calls : c.host \in Hosts /\ c.token \in Nat
      /\ \A a \in answers : a.host \in Hosts /\ a.token \in Nat
      /\ \A h \in Hosts : round[h].token \in Nat /\ task[h].token \in Nat
  BY DEF Rest, Call, Reply, Round, Task
<1>. QED
  BY <1>1 DEF Rest, OwnersGrow, CallsOwned, AnswersOwned, RoundsOwned, TasksOwned

(* The handlers, and the calls that never get to one.                      *)
LEMMA HandledStep ==
    ASSUME RegInv, OwnersGrow, NEW c \in calls, NEW k \in Nat,
           calls' = calls \ {c}, Replied(c, k), UNCHANGED hostVars,
           faults' \in Nat, late' \in BOOLEAN,
           c.op = "register" /\ k # 0 => Owns(c.host, k)'
    PROVE  Rest'
<1>1. Rest
  BY RestHolds
<1>2. /\ c \in Call /\ calls' \subseteq Call /\ round' = round /\ task' = task
      /\ round' \in [Hosts -> Round] /\ task' \in [Hosts -> Task]
  BY <1>1 DEF Rest, hostVars
<1>3. /\ answers' \subseteq Reply
      /\ \A a \in answers' :
             a \in answers \/ (a.op = c.op /\ a.host = c.host /\ a.token = k)
  BY <1>1, <1>2, ReplyType DEF Rest
<1>4. CallsOwned' /\ RoundsOwned' /\ TasksOwned'
  BY <1>1, <1>2, HeldTokensKept DEF CallsOwned, RoundsOwned, TasksOwned
<1>5. AnswersOwned'
  BY <1>1, <1>3, HeldTokensKept DEF AnswersOwned
<1>6. TasksAwait'
  BY <1>1, <1>2 DEF Rest, TasksAwait, Replied, Awaited
<1>. QED
  BY <1>2, <1>3, <1>4, <1>5, <1>6 DEF Rest

LEMMA ServerStep ==
    ASSUME RegInv, OwnersGrow, NEW c \in calls,
           Register(c) \/ Refresh(c) \/ Unregister(c) \/ LoseCall(c)
    PROVE  Rest'
<1>. USE DEF RegInv
<1>1. CASE Register(c)
  <2>1. /\ c.host \in Hosts /\ Len(owner) + 1 \in Nat /\ UNCHANGED hostVars
        /\ faults' \in Nat /\ late' \in BOOLEAN /\ calls' = calls \ {c}
    BY <1>1 DEF TypeOK, Call, Register
  <2>2. CASE owner' = Append(owner, c.host) /\ Replied(c, Len(owner) + 1)
    <3>1. \A k : k = Len(owner) + 1 => Owns(c.host, k)'
      BY <2>1, <2>2, OwnerGrows DEF TypeOK
    <3>2. PICK k \in Nat : k = Len(owner) + 1
      BY <2>1
    <3>3. Replied(c, k) /\ Owns(c.host, k)'
      BY <2>2, <3>1, <3>2
    <3>. QED
      BY <2>1, <3>3, HandledStep
  <2>3. CASE Replied(c, 0)
    BY <2>1, <2>3, HandledStep
  <2>. QED
    BY <1>1, <2>2, <2>3 DEF Register
<1>2. CASE Refresh(c) \/ Unregister(c) \/ LoseCall(c)
  <2>1. /\ UNCHANGED hostVars /\ Replied(c, 0) /\ calls' = calls \ {c}
        /\ faults' \in Nat /\ late' \in BOOLEAN
    BY <1>2 DEF Refresh, Unregister, LoseCall, TypeOK
  <2>. QED
    BY <2>1, HandledStep
<1>. QED
  BY <1>1, <1>2

(* A step that leaves the store alone and the tokens where they are.       *)
LEMMA AnswerStep ==
    ASSUME RegInv, NEW a \in answers, owner' = owner,
           \/ RegisterAnswered(a) \/ RefreshAnswered(a)
           \/ UnregisterAnswered(a) \/ LoseAnswer(a)
    PROVE  Rest'
<1>1. Rest /\ a \in Reply /\ a.host \in Hosts /\ a.token \in Nat /\ now \in Nat
  BY RestHolds DEF Rest, Reply, RegInv, TypeOK
<1>2. CASE RegisterAnswered(a)
  <2>. DEFINE h == a.host
  <2>1. h \in Hosts /\ round[h] \in Round /\ task[h] \in Task
    BY <1>1 DEF Rest
  <2>2. CASE a.token = 0
    BY <1>1, <1>2, <2>1, <2>2, OwnerStays DEF RegisterAnswered, Rest, Round, CallsOwned,
         AnswersOwned, RoundsOwned, TasksOwned, TasksAwait, serverVars
  <2>3. CASE a.token # 0
    <3>. DEFINE r == [round[h] EXCEPT !.pc = "serve", !.token = a.token]
                t == [pc |-> "wait", id |-> round[h].id, token |-> a.token, due |-> now]
    <3>0. round[h].id \in Ids
      BY <2>1 DEF Round
    <3>1. /\ r \in Round /\ r.pc = "serve" /\ r.token = a.token
          /\ t \in Task /\ t.pc = "wait" /\ t.token = a.token
      BY <1>1, <2>1, <3>0 DEF Round, Task
    <3>2. /\ round' = [round EXCEPT ![h] = r] /\ task' = [task EXCEPT ![h] = t]
          /\ calls' = calls /\ answers' = answers \ {a}
          /\ faults' = faults /\ late' = late
      BY <1>2, <2>1, <2>3 DEF RegisterAnswered
    <3>3. Owns(h, a.token) /\ (\A g, k : Owns(g, k) => Owns(g, k)')
      BY <1>1, <1>2, <2>3, OwnerStays DEF RegisterAnswered, Rest, AnswersOwned
    <3>. HIDE DEF r, t
    <3>. QED
      BY <1>1, <2>1, <3>1, <3>2, <3>3 DEF Rest, CallsOwned, AnswersOwned, RoundsOwned,
           TasksOwned, TasksAwait
  <2>. QED
    BY <2>2, <2>3
<1>3. CASE RefreshAnswered(a)
  <2>1. task[a.host] \in Task /\ task[a.host].pc # "none"
    BY <1>1, <1>3 DEF Rest, TasksAwait, RefreshAnswered
  <2>. QED
    BY <1>1, <1>3, <2>1, OwnerStays DEF RefreshAnswered, Rest, Task, CallsOwned,
         AnswersOwned, RoundsOwned, TasksOwned, TasksAwait, serverVars
<1>4. CASE UnregisterAnswered(a)
  <2>1. round[a.host] \in Round
    BY <1>1 DEF Rest
  <2>. QED
    BY <1>1, <1>4, <2>1, OwnerStays DEF UnregisterAnswered, Rest, Round, CallsOwned,
         AnswersOwned, RoundsOwned, TasksOwned, TasksAwait, serverVars
<1>5. CASE LoseAnswer(a)
  <2>1. [a EXCEPT !.token = 0] \in Reply /\ [a EXCEPT !.token = 0].token = 0
    BY <1>1 DEF Reply
  <2>2. [a EXCEPT !.token = 0].op = "register"
    BY <1>1, <1>5 DEF Reply, LoseAnswer
  <2>3. faults + 1 \in Nat
    BY <1>1 DEF Rest
  <2>. QED
    BY <1>1, <1>5, <2>1, <2>2, <2>3, OwnerStays DEF LoseAnswer, Rest, CallsOwned,
         AnswersOwned, RoundsOwned, TasksOwned, TasksAwait, serverVars, hostVars
<1>. QED
  BY <1>2, <1>3, <1>4, <1>5

LEMMA HostStep ==
    ASSUME RegInv, NEW h \in Hosts, owner' = owner,
           \/ \E id \in Ids : BeginRound(h, id)
           \/ EndRound(h) \/ CodeNotTaken(h) \/ Die(h) \/ RefreshTick(h)
    PROVE  Rest'
<1>1. /\ Rest /\ round[h] \in Round /\ task[h] \in Task /\ now \in Nat
      /\ round[h].id \in Ids /\ round[h].token \in Nat
      /\ task[h].id \in Ids /\ task[h].token \in Nat /\ task[h].due \in Nat
  BY RestHolds DEF Rest, RegInv, TypeOK, Round, Task
<1>2. \A g, k : Owns(g, k) => Owns(g, k)'
  BY OwnerStays
<1>3. ASSUME NEW id \in Ids, BeginRound(h, id)
      PROVE  Rest'
  <2>1. /\ calls' \subseteq Call
        /\ \A c \in calls' : c \in calls \/ c.op = "register"
    BY <1>1, <1>3, CallType DEF BeginRound, Rest, Operation
  <2>2. CallsOwned'
    BY <1>1, <1>2, <2>1 DEF Rest, CallsOwned
  <2>. QED
    BY <1>1, <1>2, <1>3, <2>1, <2>2 DEF BeginRound, Rest, Round, AnswersOwned,
         RoundsOwned, TasksOwned, TasksAwait
<1>4. CASE EndRound(h)
  <2>1. Owns(h, round[h].token)
    BY <1>1, <1>4 DEF EndRound, Rest, RoundsOwned
  <2>2. /\ calls' \subseteq Call
        /\ \A c \in calls' : c \in calls \/ (c.host = h /\ c.token = round[h].token)
    BY <1>1, <1>4, CallType DEF EndRound, Rest, Operation
  <2>3. CallsOwned'
    BY <1>1, <1>2, <2>1, <2>2 DEF Rest, CallsOwned
  <2>4. TasksAwait'
    BY <1>1, <1>4 DEF EndRound, Drop, Rest, TasksAwait, Reply
  <2>. QED
    BY <1>1, <1>2, <1>4, <2>2, <2>3, <2>4 DEF EndRound, Drop, Rest, Round, Task,
         AnswersOwned, RoundsOwned, TasksOwned
<1>5. CASE CodeNotTaken(h)
  BY <1>1, <1>2, <1>5 DEF CodeNotTaken, Rest, Round, CallsOwned, AnswersOwned, RoundsOwned,
       TasksOwned, TasksAwait, networkVars
<1>6. CASE Die(h)
  <2>1. TasksAwait'
    BY <1>1, <1>6 DEF Die, Drop, Rest, TasksAwait, Reply
  <2>. QED
    BY <1>1, <1>2, <1>6, <2>1 DEF Die, Drop, Rest, Round, Task, CallsOwned, AnswersOwned,
         RoundsOwned, TasksOwned
<1>7. CASE RefreshTick(h)
  <2>1. Owns(h, task[h].token)
    BY <1>1, <1>7 DEF RefreshTick, Rest, TasksOwned
  <2>2. /\ calls' \subseteq Call
        /\ \A c \in calls' : c \in calls \/ (c.host = h /\ c.token = task[h].token)
    BY <1>1, <1>7, CallType DEF RefreshTick, Rest, Operation
  <2>3. CallsOwned'
    BY <1>1, <1>2, <2>1, <2>2 DEF Rest, CallsOwned
  <2>. DEFINE due == task[h].due + Period
              t == [task[h] EXCEPT !.pc = "call", !.due = due]
  <2>8. due \in Nat
    BY <1>1, RegistrationAssumption DEF Period
  <2>. HIDE DEF due
  <2>4. t \in Task /\ t.pc = "call" /\ t.token = task[h].token
    BY <1>1, <2>8 DEF Task
  <2>5. task' = [task EXCEPT ![h] = t]
    BY <1>1, <1>7 DEF RefreshTick, Rest, due
  <2>. HIDE DEF t
  <2>6. TasksOwned' /\ TasksAwait' /\ task' \in [Hosts -> Task]
    <3>1. task' \in [Hosts -> Task] /\ task'[h] = t /\ \A g \in Hosts \ {h} : task'[g] = task[g]
      BY <1>1, <2>4, <2>5 DEF Rest
    <3>2. TasksOwned'
      BY <1>1, <1>2, <2>1, <2>4, <3>1 DEF Rest, TasksOwned
    <3>3. answers' = answers
      BY <1>7 DEF RefreshTick
    <3>4. \A g \in Hosts : task[g].pc # "none" => task'[g].pc # "none"
      BY <2>4, <3>1
    <3>5. \A a \in answers : a.host \in Hosts
      BY <1>1 DEF Rest, Reply
    <3>. QED
      BY <1>1, <3>1, <3>2, <3>3, <3>4, <3>5 DEF Rest, TasksAwait
  <2>. QED
    BY <1>1, <1>2, <1>7, <2>2, <2>3, <2>6 DEF RefreshTick, Rest, AnswersOwned, RoundsOwned
<1>. QED
  BY <1>3, <1>4, <1>5, <1>6, <1>7

LEMMA QuietStep ==
    ASSUME RegInv, OwnersGrow, UNCHANGED <<networkVars, hostVars>>,
           faults' \in Nat, late' \in BOOLEAN
    PROVE  Rest'
<1>1. Rest
  BY RestHolds
<1>. QED
  BY <1>1, HeldTokensKept DEF Rest, CallsOwned, AnswersOwned, RoundsOwned, TasksOwned,
       TasksAwait, networkVars, hostVars

-----------------------------------------------------------------------------
(* RegInv is inductive. *)

LEMMA RegInvInit == Init => RegInv
<1>. SUFFICES ASSUME Init PROVE RegInv
  OBVIOUS
<1>1. owner \in Seq(Hosts) /\ 0 \in Nat
  BY EmptySeq DEF Init
<1>2. round \in [Hosts -> Round] /\ task \in [Hosts -> Task]
  <2>1. PICK id \in Ids :
           /\ round = [h \in Hosts |-> [pc |-> "idle", id |-> id, token |-> 0]]
           /\ task = [h \in Hosts |-> [pc |-> "none", id |-> id, token |-> 0, due |-> 0]]
    BY DEF Init
  <2>. QED
    BY <1>1, <2>1 DEF Round, Task
<1>3. TypeOK
  BY <1>1, <1>2 DEF Init, TypeOK
<1>. QED
  BY <1>3 DEF Init, RegInv, Owned, EntriesOwned, CallsOwned, AnswersOwned, RoundsOwned,
       TasksOwned, TasksAwait

LEMMA RestStep ==
    ASSUME RegInv, [Next]_vars, OwnersGrow
    PROVE  Rest'
<1>1. faults \in Nat /\ late \in BOOLEAN
  BY DEF RegInv, TypeOK
<1>2. CASE \E c \in calls : Register(c) \/ Refresh(c) \/ Unregister(c) \/ LoseCall(c)
  BY <1>2, ServerStep
<1>3. CASE \E a \in answers : \/ RegisterAnswered(a) \/ RefreshAnswered(a)
                             \/ UnregisterAnswered(a) \/ LoseAnswer(a)
  <2>1. PICK a \in answers : \/ RegisterAnswered(a) \/ RefreshAnswered(a)
                             \/ UnregisterAnswered(a) \/ LoseAnswer(a)
    BY <1>3
  <2>2. owner' = owner
    BY <2>1 DEF RegisterAnswered, RefreshAnswered, UnregisterAnswered, LoseAnswer, serverVars
  <2>. QED
    BY <2>1, <2>2, AnswerStep
<1>4. CASE \/ \E h \in Hosts, id \in Ids : BeginRound(h, id)
           \/ \E h \in Hosts : EndRound(h) \/ CodeNotTaken(h) \/ Die(h) \/ RefreshTick(h)
  <2>1. owner' = owner
    BY <1>4 DEF BeginRound, EndRound, CodeNotTaken, Die, RefreshTick, serverVars
  <2>. QED
    BY <1>4, <2>1, HostStep
<1>5. CASE Lookup \/ Restart \/ Tick \/ UNCHANGED vars
  <2>1. UNCHANGED <<networkVars, hostVars>> /\ faults' \in Nat
    BY <1>1, <1>5 DEF Lookup, Restart, Tick, vars
  <2>2. late' = late \/ late' = (late \/ Overdue)
    BY <1>5 DEF Lookup, Restart, Tick, vars
  <2>3. late' \in BOOLEAN
    BY <1>1, <2>2
  <2>. QED
    BY <2>1, <2>3, QuietStep
<1>. QED
  BY <1>2, <1>3, <1>4, <1>5 DEF Next

LEMMA RegInvStep == RegInv /\ [Next]_vars => RegInv'
<1>. SUFFICES ASSUME RegInv, [Next]_vars PROVE RegInv'
  OBVIOUS
<1>1. CASE StoreEffect
  BY <1>1, StoreStep, RestStep DEF RegInv, TypeOK, Owned, Rest
<1>2. CASE Tick
  <2>1. OwnersGrow /\ entries' = entries /\ owner' = owner /\ now' = now + 1
    BY <1>2, OwnerStays DEF OwnersGrow, Tick, serverVars
  <2>2. Rest'
    BY <2>1, RestStep
  <2>3. EntriesOwned'
    BY <2>1, OwnerStays DEF RegInv, Owned, EntriesOwned
  <2>4. \A id \in Ids : entries[id] # None =>
            entries[id].expires \in Nat /\ entries[id].expires =< now + Ttl
    BY DEF RegInv, TypeOK, Entry
  <2>5. \A id \in Ids : entries'[id] # None => entries'[id].expires =< now' + Ttl
    BY <2>1, <2>4, RegistrationAssumption DEF RegInv, TypeOK
  <2>. QED
    BY <2>1, <2>2, <2>3, <2>5 DEF RegInv, TypeOK, Owned, Rest
<1>. QED
  BY <1>1, <1>2, Effects

(* A token is known to its owner alone, whatever is lost or late.          *)
THEOREM RegistrationInvariant == Spec => []RegInv
<1>. QED
  BY RegInvInit, RegInvStep, PTL DEF Spec

(* The type invariant, with the bound on the life of an entry.             *)
THEOREM RegistrationTypes == Spec => []TypeOK
<1>1. RegInv => TypeOK
  BY DEF RegInv
<1>. QED
  BY <1>1, RegistrationInvariant, PTL

-----------------------------------------------------------------------------
(* The leases. *)

LeaseOf == [id \in Ids |-> IF entries[id] = None THEN None
                           ELSE [holder |-> owner[entries[id].token],
                                 until |-> entries[id].expires]]

(* An entry and the lease it stands for end together.                      *)
LEMMA LeaseOfEntry ==
    ASSUME RegInv, NEW id \in Ids
    PROVE  /\ LeaseOf[id] # None <=> entries[id] # None
           /\ entries[id] # None => /\ LeaseOf[id].until = entries[id].expires
                                    /\ LeaseOf[id].holder = entries[id].host
           /\ Leases!Held(id) <=> Live(entries[id])
<1>1. /\ entries[id] # None => /\ entries[id].host \in Hosts /\ entries[id].expires \in Nat
                               /\ owner[entries[id].token] = entries[id].host
  BY DEF RegInv, Owned, EntriesOwned, Owns, TypeOK, Entry
<1>2. LeaseOf[id] # None <=> entries[id] # None
  BY <1>1, RegistrationAssumption DEF LeaseOf
<1>3. entries[id] # None => /\ LeaseOf[id].until = entries[id].expires
                            /\ LeaseOf[id].holder = entries[id].host
  BY <1>1 DEF LeaseOf
<1>4. Leases!Held(id) <=> LeaseOf[id] # None /\ LeaseOf[id].until > now
  BY DEF Leases!Held, LeaseOf
<1>. QED
  BY <1>2, <1>3, <1>4 DEF Live

(* The viewer is sent to the holder of the lease, or nowhere.              *)
THEOREM LookupsLeadToHolders == Spec => []LookupLeadsToHolder
<1>1. ASSUME RegInv PROVE LookupLeadsToHolder
  <2>. SUFFICES ASSUME NEW id \in Ids PROVE LookedUp(id) = Leases!Holder(id)
    BY DEF LookupLeadsToHolder
  <2>1. Leases!Holder(id) = IF Leases!Held(id) THEN LeaseOf[id].holder ELSE None
    BY DEF Leases!Holder, LeaseOf
  <2>2. LookedUp(id) = IF Live(entries[id]) THEN entries[id].host ELSE None
    BY <1>1 DEF LookedUp, Purged, Live
  <2>. QED
    BY <1>1, <2>1, <2>2, LeaseOfEntry DEF Live
<1>. QED
  BY <1>1, RegistrationInvariant, PTL

LEMMA FewerForgets ==
    ASSUME RegInv, Fewer
    PROVE  Leases!Forget
<1>. DEFINE kept == {id \in Ids : entries'[id] # None}
<1>1. kept \in SUBSET Ids
  OBVIOUS
<1>2. LeaseOf' = [id \in Ids |-> IF id \in kept THEN LeaseOf[id] ELSE None]
  BY DEF LeaseOf, Fewer
<1>. HIDE DEF kept
<1>3. LeaseOf' = Leases!After(kept)
  BY <1>2 DEF Leases!After, LeaseOf
<1>. QED
  BY <1>1, <1>3 DEF Leases!Forget, LeaseOf, Fewer

LEMMA RenewsOneRenews ==
    ASSUME RegInv, NEW id \in Ids, RenewsOne(id)
    PROVE  Leases!Renew(id)
<1>. DEFINE kept == {i \in Ids : entries'[i] # None}
            new == [holder |-> LeaseOf[id].holder, until |-> now + Ttl]
<1>1. kept \in SUBSET Ids
  OBVIOUS
<1>2. /\ Live(entries[id]) /\ entries[id] # None /\ Leases!Held(id)
  BY LeaseOfEntry DEF RenewsOne, Live
<1>3. LeaseOf'[id] = new
  BY <1>2 DEF LeaseOf, RenewsOne
<1>4. \A i \in Ids \ {id} : LeaseOf'[i] = IF i \in kept THEN LeaseOf[i] ELSE None
  BY DEF LeaseOf, RenewsOne
<1>. HIDE DEF kept, new
<1>5. LeaseOf' = [[i \in Ids |-> IF i \in kept THEN LeaseOf[i] ELSE None] EXCEPT ![id] = new]
  BY <1>3, <1>4 DEF LeaseOf
<1>6. LeaseOf' = [Leases!After(kept) EXCEPT ![id] = new]
  BY <1>5 DEF Leases!After, LeaseOf
<1>. QED
  BY <1>1, <1>2, <1>6 DEF Leases!Renew, LeaseOf, RenewsOne, new

LEMMA InsertsOneGrants ==
    ASSUME RegInv, NEW id \in Ids, NEW h \in Hosts, InsertsOne(id, h)
    PROVE  Leases!Grant(id, h)
<1>. DEFINE kept == {i \in Ids : entries'[i] # None}
            new == [holder |-> h, until |-> now + Ttl]
<1>1. kept \in SUBSET Ids
  OBVIOUS
<1>2. ~Leases!Held(id)
  BY LeaseOfEntry DEF InsertsOne
<1>3. owner'[Len(owner) + 1] = h /\ \A k \in 1 .. Len(owner) : owner'[k] = owner[k]
  BY AppendProperties DEF InsertsOne, RegInv, TypeOK
<1>4. LeaseOf'[id] = new
  BY <1>3 DEF LeaseOf, InsertsOne
<1>5. \A i \in Ids : entries[i] # None => entries[i].token \in 1 .. Len(owner)
  BY DEF RegInv, Owned, EntriesOwned, Owns
<1>6. \A i \in Ids \ {id} : LeaseOf'[i] = IF i \in kept THEN LeaseOf[i] ELSE None
  BY <1>3, <1>5 DEF LeaseOf, InsertsOne
<1>. HIDE DEF kept, new
<1>7. LeaseOf' = [[i \in Ids |-> IF i \in kept THEN LeaseOf[i] ELSE None] EXCEPT ![id] = new]
  BY <1>4, <1>6 DEF LeaseOf
<1>8. LeaseOf' = [Leases!After(kept) EXCEPT ![id] = new]
  BY <1>7 DEF Leases!After, LeaseOf
<1>. QED
  BY <1>1, <1>2, <1>8 DEF Leases!Grant, LeaseOf, InsertsOne, new

(* The server with its hosts implements a table of leases: an id has one   *)
(* holder at a time, and only its holder's calls prolong it.               *)
THEOREM RegistrationKeepsLease == Spec => KeepsLease
<1>1. Init => Leases!Init
  BY DEF Init, Leases!Init
<1>2. ASSUME RegInv, [Next]_vars
      PROVE  [Leases!Next]_(Leases!vars)
  <2>1. CASE StoreEffect
    BY <1>2, <2>1, FewerForgets, RenewsOneRenews, InsertsOneGrants
       DEF StoreEffect, Leases!Next
  <2>2. CASE Tick
    BY <1>2, <2>2 DEF Tick, serverVars, RegInv, TypeOK, Leases!Next, Leases!Tick
  <2>. QED
    BY <1>2, <2>1, <2>2, Effects
<1>. QED
  BY <1>1, <1>2, RegistrationInvariant, PTL DEF Spec, KeepsLease, Leases!Spec

-----------------------------------------------------------------------------
(* What never happens to a registration. *)

(* No refresh, however late, brings a registration back.                   *)
THEOREM TheDeadStayDead == Spec => DeadStaysDead
<1>. DEFINE Dead(id) == \/ entries'[id] = None
                        \/ entries[id] # None /\ entries'[id].token = entries[id].token
                        \/ entries'[id].token > Len(owner)
<1>1. ASSUME RegInv, [Next]_vars PROVE [\A id \in Ids : Dead(id)]_vars
  <2>. SUFFICES ASSUME NEW id \in Ids PROVE Dead(id)
    OBVIOUS
  <2>1. Len(owner) \in Nat
    BY <1>1, LenProperties DEF RegInv, TypeOK
  <2>2. CASE Fewer
    BY <2>2 DEF Fewer
  <2>3. CASE \E i \in Ids : RenewsOne(i)
    BY <2>3 DEF RenewsOne, Live
  <2>4. CASE \E i \in Ids, h \in Hosts : InsertsOne(i, h)
    BY <2>1, <2>4 DEF InsertsOne
  <2>5. CASE Tick
    BY <2>5 DEF Tick, serverVars
  <2>. QED
    BY <1>1, <2>2, <2>3, <2>4, <2>5, Effects DEF StoreEffect
<1>. QED
  BY <1>1, RegistrationInvariant, PTL DEF Spec, DeadStaysDead

(* A registration that has not ended is removed by its owner, or by a      *)
(* restart that removes them all.                                          *)
THEOREM OnlyOwnersRemove == Spec => OnlyOwnerRemoves
<1>. DEFINE
       Owner(id) == \E c \in calls \ calls' : /\ c.op = "unregister"
                                             /\ c.host = owner[entries[id].token]
       Wiped == faults' > faults /\ \A i \in Ids : entries'[i] = None
       Gone(id) == Live(entries[id]) /\ entries'[id] = None
<1>1. ASSUME RegInv, [Next]_vars
      PROVE  [\A id \in Ids :
                 Live(entries[id]) /\ entries'[id] = None =>
                     \/ \E c \in calls \ calls' : /\ c.op = "unregister"
                                                  /\ c.host = owner[entries[id].token]
                     \/ faults' > faults /\ \A i \in Ids : entries'[i] = None]_vars
  <2>. SUFFICES ASSUME NEW id \in Ids, Gone(id) PROVE Owner(id) \/ Wiped
    OBVIOUS
  <2>1. TypeOK /\ entries[id] # None /\ Purged[id] = entries[id]
    BY <1>1, PurgedEntries DEF RegInv, Live
  <2>2. entries' # entries /\ entries' # Purged
    BY <2>1
  <2>3. CASE Restart
    <3>1. Wiped
      BY <2>1, <2>3 DEF Restart, TypeOK
    <3>. QED
      BY <3>1
  <2>4. ASSUME NEW c \in calls, Unregister(c) PROVE Owner(id)
    <3>1. c.id \in Ids /\ c.op = "unregister" /\ Owns(c.host, c.token) /\ c \notin calls'
      BY <1>1, <2>4 DEF RegInv, TypeOK, Owned, CallsOwned, Call, Unregister
    <3>2. /\ Purged[c.id] # None /\ Purged[c.id].token = c.token
          /\ entries' = [Purged EXCEPT ![c.id] = None]
      BY <2>2, <2>4 DEF Unregister
    <3>3. c.id = id
      BY <2>1, <3>1, <3>2, PurgedEntries
    <3>. QED
      BY <2>1, <3>1, <3>2, <3>3 DEF Owns
  <2>5. ASSUME NEW c \in calls, Register(c) \/ Refresh(c) PROVE FALSE
    <3>1. c.id \in Ids /\ c.host \in Hosts /\ now + Ttl \in Nat
      BY <1>1, RegistrationAssumption DEF RegInv, TypeOK, Call
    <3>. DEFINE e == [token |-> Len(owner) + 1, host |-> c.host, expires |-> now + Ttl]
                r == Renewed(c, Purged[c.id])
    <3>2. \/ Register(c) /\ Purged[c.id] = None /\ entries' = [Purged EXCEPT ![c.id] = e]
          \/ Refresh(c) /\ entries' = [Purged EXCEPT ![c.id] = r]
      BY <2>2, <2>5 DEF Register, Refresh
    <3>. HIDE DEF e, r
    <3>3. id = c.id /\ entries'[id] = r
      BY <2>1, <3>1, <3>2, PurgedEntries
    <3>4. r \in Entry
      BY <2>1, <3>1, <3>3, ZenonT(30) DEF r, Renewed, TypeOK, Entry
    <3>. QED
      BY <3>3, <3>4, RegistrationAssumption DEF Entry
  <2>6. ASSUME ~Restart, ~\E c \in calls : Register(c) \/ Refresh(c) \/ Unregister(c)
        PROVE  FALSE
    <3>1. entries' = entries \/ entries' = Purged
      BY <1>1, <2>6 DEF Next, vars, serverVars, LoseCall, RegisterAnswered, RefreshAnswered,
           UnregisterAnswered, LoseAnswer, Lookup, BeginRound, EndRound, CodeNotTaken, Die,
           RefreshTick, Tick
    <3>. QED
      BY <2>2, <3>1
  <2>. QED
    BY <2>3, <2>4, <2>5, <2>6
<1>. QED
  BY <1>1, RegistrationInvariant, PTL DEF Spec, OnlyOwnerRemoves
=============================================================================
