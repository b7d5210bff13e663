---------------------- MODULE RegistrationTimelyProofs ----------------------
(***************************************************************************)
(* Proofs about Registration when nothing is lost and everything is in     *)
(* time: the code a host shows can be resolved, because a refresh is       *)
(* handled before the entry that the refresh before it left has expired.   *)
(* This takes more than the margin: that a host has one call under way at  *)
(* a time, and no unregister of its own that could still arrive.           *)
(***************************************************************************)
EXTENDS RegistrationProofs

(* Delay is timely for the TTL: a refresh that is sent in time and handled *)
(* as late as Delay allows still finds the entry of the refresh before it. *)
Timely == Period + Delay < Ttl

InTime == ~late /\ faults = 0

(* Every message in flight is younger than Delay, and no task overslept.   *)
Prompt ==
    /\ \A m \in calls \cup answers : m.sent =< now /\ now =< m.sent + Delay
    /\ \A h \in Hosts : task[h].pc = "wait" => now =< task[h].due

(* What `run` of host h has under way: one call or answer at most, about   *)
(* what it is doing.                                                       *)
Errands(h) == {m \in calls \cup answers : m.op # "refresh" /\ m.host = h}

Orderly(h) ==
    /\ \A m \in Errands(h) :
          /\ m \in calls => round[h].pc \in {m.op, "gone"}
          /\ m \in answers => round[h].pc = m.op
          /\ m \in calls /\ round[h].pc = "register" => m.id = round[h].id
    /\ \A m, n \in Errands(h) : m = n

OneAtATime == \A h \in Hosts : Orderly(h)

(* The refresh calls that carry the token of the task of h, and the        *)
(* answers it waits for.                                                   *)
Refreshes(h) ==
    {c \in calls : c.op = "refresh" /\ c.host = h /\ c.token = task[h].token}
        \cup {a \in answers : a.op = "refresh" /\ a.host = h}

(* A task has a refresh under way exactly when it waits for its answer, and *)
(* the refresh went out when it was due.                                   *)
InStep(h) ==
    /\ round[h].pc \in {"idle", "register", "unregister"} => task[h].pc = "none"
    /\ task[h].pc = "wait" => Refreshes(h) = {}
    /\ task[h].pc = "call" =>
           /\ Refreshes(h) # {}
           /\ \A m, n \in Refreshes(h) : m = n
           /\ \A m \in Refreshes(h) : /\ m.sent + Period = task[h].due
                                      /\ m \in calls => m.id = task[h].id

TaskInStep == \A h \in Hosts : InStep(h)

(* The registration k of id is there, until t at least.                    *)
Stands(id, k, t) ==
    entries[id] # None /\ entries[id].token = k /\ entries[id].expires >= t

(* What a host was granted stands when it hears of it, and no refresh of   *)
(* it is on its way yet.                                                   *)
Granted ==
    \A a \in answers : a.op = "register" /\ a.token # 0 =>
        /\ Stands(round[a.host].id, a.token, a.sent + Ttl)
        /\ \A c \in calls : c.op = "refresh" => c.token # a.token

(* The registration of a host that shows its code stands until the next    *)
(* refresh is handled, however late that is within Delay.                  *)
ServedHost(h) ==
    round[h].pc = "serve" =>
        /\ task[h].pc # "none" /\ task[h].id = round[h].id /\ task[h].token = round[h].token
        /\ task[h].pc = "wait" =>
               Stands(round[h].id, round[h].token, task[h].due + Delay + 1)
        /\ \A m \in Refreshes(h) :
               /\ m \in calls => Stands(round[h].id, round[h].token, m.sent + Delay + 1)
               /\ m \in answers => Stands(round[h].id, round[h].token, m.sent + Ttl)

Served == \A h \in Hosts : ServedHost(h)

TimelyInv == InTime => Prompt /\ OneAtATime /\ TaskInStep /\ Granted /\ Served

-----------------------------------------------------------------------------
(* A refresh and its answer, or a registration and the first refresh, fit  *)
(* in the TTL.                                                             *)
LEMMA Margins ==
    ASSUME Timely
    PROVE  /\ Period \in Nat /\ Delay \in Nat /\ Ttl \in Nat
           /\ Delay =< Period /\ Delay + Delay < Ttl
<1>1. /\ Ttl \in Nat /\ Delay \in Nat /\ Period \in Nat
      /\ Period + Period =< Ttl /\ Ttl =< Period + Period + 1
  BY RegistrationAssumption DEF Period
<1>. QED
  BY <1>1 DEF Timely

(* What a step can be while nothing is lost and everything is in time.     *)
Handled(c, k) ==
    /\ calls' = calls \ {c} /\ Replied(c, k)
    /\ now' = now /\ round' = round /\ task' = task

InTimeStep ==
    \/ \E c \in calls : Register(c) \/ Refresh(c) \/ Unregister(c)
    \/ \E a \in answers : RegisterAnswered(a) \/ RefreshAnswered(a) \/ UnregisterAnswered(a)
    \/ \E h \in Hosts, id \in Ids : BeginRound(h, id)
    \/ \E h \in Hosts : EndRound(h) \/ CodeNotTaken(h) \/ Die(h) \/ RefreshTick(h)
    \/ Tick /\ ~Overdue
    \/ UNCHANGED <<now, calls, answers, round, task>> /\ entries' \in {entries, Purged}

(* Where nothing was lost or late after a step, nothing was before it, and *)
(* the step is one of these.                                               *)
LEMMA InTimeCases ==
    ASSUME RegInv, [Next]_vars, InTime'
    PROVE  InTime /\ InTimeStep
<1>1. faults \in Nat /\ late \in BOOLEAN
  BY DEF RegInv, TypeOK
<1>2. CASE \E c \in calls : Register(c) \/ Refresh(c) \/ Unregister(c) \/ LoseCall(c)
  BY <1>1, <1>2 DEF Register, Refresh, Unregister, LoseCall, InTime, InTimeStep
<1>3. CASE \E a \in answers : \/ RegisterAnswered(a) \/ RefreshAnswered(a)
                             \/ UnregisterAnswered(a) \/ LoseAnswer(a)
  <2>1. PICK a \in answers : \/ RegisterAnswered(a) \/ RefreshAnswered(a)
                             \/ UnregisterAnswered(a) \/ LoseAnswer(a)
    BY <1>3
  <2>2. ~LoseAnswer(a)
    BY <1>1 DEF LoseAnswer, InTime
  <2>3. InTime
    BY <2>1, <2>2 DEF RegisterAnswered, RefreshAnswered, UnregisterAnswered, InTime
  <2>. QED
    BY <2>1, <2>2, <2>3 DEF InTimeStep
<1>4. CASE \/ \E h \in Hosts, id \in Ids : BeginRound(h, id)
           \/ \E h \in Hosts : EndRound(h) \/ CodeNotTaken(h) \/ Die(h) \/ RefreshTick(h)
  <2>1. faults' = faults /\ late' = late
    BY <1>4 DEF BeginRound, EndRound, CodeNotTaken, Die, RefreshTick
  <2>2. InTime
    BY <2>1 DEF InTime
  <2>. QED
    BY <1>4, <2>2 DEF InTimeStep
<1>5. CASE Lookup \/ UNCHANGED vars
  BY <1>5 DEF Lookup, vars, serverVars, networkVars, hostVars, InTime, InTimeStep
<1>6. CASE Restart
  BY <1>1, <1>6 DEF Restart, InTime
<1>7. CASE Tick
  <2>1. ~late /\ ~Overdue /\ faults = 0
    BY <1>1, <1>7 DEF Tick, InTime
  <2>. QED
    BY <1>7, <2>1 DEF InTime, InTimeStep
<1>. QED
  BY <1>2, <1>3, <1>4, <1>5, <1>6, <1>7 DEF Next

-----------------------------------------------------------------------------
(* What the steps do to the messages, the rounds and the tasks.            *)
LEMMA HandledCall ==
    ASSUME RegInv, NEW c \in calls, Register(c) \/ Refresh(c) \/ Unregister(c)
    PROVE  \E k \in Nat : Handled(c, k) /\ (c.op = "register" /\ k # 0 => k = Len(owner) + 1)
<1>1. Len(owner) + 1 \in Nat /\ 0 \in Nat
  BY LenProperties DEF RegInv, TypeOK
<1>2. \E k \in {0, Len(owner) + 1} : Handled(c, k)
  BY DEF Register, Refresh, Unregister, Handled, hostVars
<1>. QED
  BY <1>1, <1>2

(* The answer to c, when somebody waits for it.                            *)
LEMMA HandledAnswers ==
    ASSUME RegInv, NEW c \in calls, NEW k \in Nat, Handled(c, k)
    PROVE  \/ answers' = answers /\ ~Awaited(c)
           \/ /\ Awaited(c)
              /\ \E r \in Reply : /\ r.op = c.op /\ r.host = c.host /\ r.token = k
                                  /\ r.sent = c.sent
                                  /\ answers' = answers \cup {r}
<1>1. c \in Call
  BY DEF RegInv, TypeOK
<1>. QED
  BY <1>1 DEF Handled, Replied, Call, Reply

(* What Send puts on its way.                                              *)
LEMMA SentCall ==
    ASSUME NEW h \in Hosts, NEW op \in Operation, NEW id \in Ids, NEW k \in Nat,
           RegInv, Send(h, op, id, k)
    PROVE  \E n \in Call : /\ n.op = op /\ n.host = h /\ n.id = id /\ n.token = k /\ n.sent = now
                           /\ calls' = calls \cup {n}
BY DEF Send, Call, RegInv, TypeOK

(* register_internet returns: to the next round, or with a registration and*)
(* a task that renews it at once.                                          *)
LEMMA RegisterAnsweredEffect ==
    ASSUME RegInv, NEW a \in answers, RegisterAnswered(a)
    PROVE  /\ a.op = "register" /\ answers' = answers \ {a} /\ calls' = calls /\ now' = now
           /\ \A g \in Hosts \ {a.host} : round'[g] = round[g] /\ task'[g] = task[g]
           /\ round'[a.host].id = round[a.host].id
           /\ a.token = 0 => round'[a.host].pc = "idle" /\ task' = task
           /\ a.token # 0 =>
                  /\ round'[a.host].pc = "serve" /\ round'[a.host].token = a.token
                  /\ task'[a.host] = [pc |-> "wait", id |-> round[a.host].id,
                                      token |-> a.token, due |-> now]
BY DEF RegInv, TypeOK, RegisterAnswered, Reply, Round

(* The task waits for the next tick, which is as due as it was.            *)
LEMMA RefreshAnsweredEffect ==
    ASSUME RegInv, NEW a \in answers, RefreshAnswered(a)
    PROVE  /\ a.op = "refresh" /\ answers' = answers \ {a} /\ calls' = calls /\ now' = now
           /\ round' = round
           /\ \A g \in Hosts \ {a.host} : task'[g] = task[g]
           /\ task'[a.host].pc = "wait" /\ task'[a.host].id = task[a.host].id
           /\ task'[a.host].token = task[a.host].token /\ task'[a.host].due = task[a.host].due
BY DEF RegInv, TypeOK, RefreshAnswered, Reply, Task

(* The round of the sender is over.                                        *)
LEMMA UnregisterAnsweredEffect ==
    ASSUME RegInv, NEW a \in answers, UnregisterAnswered(a)
    PROVE  /\ a.op = "unregister" /\ answers' = answers \ {a} /\ calls' = calls /\ now' = now
           /\ task' = task
           /\ \A g \in Hosts \ {a.host} : round'[g] = round[g]
           /\ round'[a.host].pc = "idle" /\ round'[a.host].id = round[a.host].id
BY DEF RegInv, TypeOK, UnregisterAnswered, Reply, Round

(* A host with nothing to do asks for an id.                               *)
LEMMA BeginRoundEffect ==
    ASSUME RegInv, NEW h \in Hosts, NEW id \in Ids, BeginRound(h, id)
    PROVE  /\ answers' = answers /\ now' = now /\ task' = task
           /\ \A g \in Hosts \ {h} : round'[g] = round[g]
           /\ round[h].pc = "idle" /\ round'[h].pc = "register" /\ round'[h].id = id
           /\ \E n \in Call : /\ n.op = "register" /\ n.host = h /\ n.id = id /\ n.sent = now
                              /\ calls' = calls \cup {n}
<1>1. Send(h, "register", id, 0) /\ "register" \in Operation /\ 0 \in Nat
  BY DEF BeginRound, Operation
<1>2. \E n \in Call : /\ n.op = "register" /\ n.host = h /\ n.id = id /\ n.sent = now
                      /\ calls' = calls \cup {n}
  BY <1>1, SentCall
<1>. QED
  BY <1>2 DEF RegInv, TypeOK, BeginRound

(* The task of a host that gives its registration back waits for nothing.  *)
LEMMA EndRoundEffect ==
    ASSUME RegInv, NEW h \in Hosts, EndRound(h)
    PROVE  /\ now' = now
           /\ answers' = {a \in answers : a.host # h \/ a.op # "refresh"}
           /\ \A g \in Hosts \ {h} : round'[g] = round[g] /\ task'[g] = task[g]
           /\ round[h].pc = "serve" /\ round'[h].pc = "unregister" /\ task'[h].pc = "none"
           /\ task'[h].token = task[h].token
           /\ \E n \in Call : /\ n.op = "unregister" /\ n.host = h /\ n.sent = now
                              /\ calls' = calls \cup {n}
<1>1. /\ Send(h, "unregister", round[h].id, round[h].token) /\ "unregister" \in Operation
      /\ round[h].id \in Ids /\ round[h].token \in Nat
  BY DEF EndRound, Operation, RegInv, TypeOK, Round
<1>2. \E n \in Call : /\ n.op = "unregister" /\ n.host = h /\ n.sent = now
                      /\ calls' = calls \cup {n}
  BY <1>1, SentCall
<1>3. answers' = {a \in answers : a.host # h \/ a.op # "refresh"}
  BY DEF EndRound, Drop
<1>. QED
  BY <1>2, <1>3 DEF RegInv, TypeOK, EndRound, Round, Task

(* run returns; the task does not.                                         *)
LEMMA CodeNotTakenEffect ==
    ASSUME RegInv, NEW h \in Hosts, CodeNotTaken(h)
    PROVE  /\ now' = now /\ calls' = calls /\ answers' = answers /\ task' = task
           /\ \A g \in Hosts \ {h} : round'[g] = round[g]
           /\ round[h].pc = "serve" /\ round'[h].pc = "gone"
BY DEF RegInv, TypeOK, CodeNotTaken, Round, networkVars

(* Nobody waits for the answers to the calls of a host that died.          *)
LEMMA DieEffect ==
    ASSUME RegInv, NEW h \in Hosts, Die(h)
    PROVE  /\ now' = now /\ calls' = calls
           /\ answers' = {a \in answers : a.host # h}
           /\ \A g \in Hosts \ {h} : round'[g] = round[g] /\ task'[g] = task[g]
           /\ round'[h].pc = "gone" /\ task'[h].pc = "none" /\ task'[h].token = task[h].token
<1>1. answers' = {a \in answers : a.host # h}
  <2>1. \A a \in answers : a.op \in Operation
    BY DEF RegInv, TypeOK, Reply
  <2>. QED
    BY <2>1 DEF Die, Drop
<1>. QED
  BY <1>1 DEF RegInv, TypeOK, Die, Round, Task

(* The task sends a refresh when one is due, and the next is due a period  *)
(* after that.                                                             *)
LEMMA RefreshTickEffect ==
    ASSUME RegInv, NEW h \in Hosts, RefreshTick(h)
    PROVE  /\ now' = now /\ answers' = answers /\ round' = round
           /\ \A g \in Hosts \ {h} : task'[g] = task[g]
           /\ task[h].pc = "wait" /\ task[h].due =< now
           /\ task'[h].pc = "call" /\ task'[h].id = task[h].id
           /\ task'[h].token = task[h].token /\ task'[h].due = task[h].due + Period
           /\ \E n \in Call : /\ n.op = "refresh" /\ n.host = h /\ n.id = task[h].id
                              /\ n.token = task[h].token /\ n.sent = now
                              /\ calls' = calls \cup {n}
<1>1. /\ Send(h, "refresh", task[h].id, task[h].token) /\ "refresh" \in Operation
      /\ task[h].id \in Ids /\ task[h].token \in Nat
  BY DEF RefreshTick, Operation, RegInv, TypeOK, Task
<1>2. \E n \in Call : /\ n.op = "refresh" /\ n.host = h /\ n.id = task[h].id
                      /\ n.token = task[h].token /\ n.sent = now
                      /\ calls' = calls \cup {n}
  BY <1>1, SentCall
<1>. DEFINE t == [task[h] EXCEPT !.pc = "call", !.due = task[h].due + Period]
<1>3. task' = [task EXCEPT ![h] = t]
  BY DEF RefreshTick, RegInv, TypeOK
<1>4. /\ t.pc = "call" /\ t.id = task[h].id /\ t.token = task[h].token
      /\ t.due = task[h].due + Period
  BY DEF RegInv, TypeOK, Task
<1>. HIDE DEF t
<1>. QED
  BY <1>2, <1>3, <1>4 DEF RegInv, TypeOK, RefreshTick

-----------------------------------------------------------------------------
(* Every message is young: it was just sent, it answers a call of the same *)
(* age, or it was there before.                                            *)
LEMMA MessagesOfStep ==
    ASSUME RegInv, InTimeStep, NEW m \in calls' \cup answers'
    PROVE  \/ m.sent = now /\ now' = now
           \/ \E n \in calls \cup answers : m.sent = n.sent /\ (now' = now \/ (Tick /\ m = n))
<1>. DEFINE Aged == \/ m.sent = now /\ now' = now
                    \/ \E n \in calls \cup answers :
                           m.sent = n.sent /\ (now' = now \/ (Tick /\ m = n))
<1>. SUFFICES Aged
  OBVIOUS
<1>0. ASSUME (m \in calls \cup answers \/ m.sent = now) /\ now' = now PROVE Aged
  BY <1>0
<1>1. ASSUME NEW c \in calls, Register(c) \/ Refresh(c) \/ Unregister(c) PROVE Aged
  <2>1. PICK k \in Nat : Handled(c, k)
    BY <1>1, HandledCall
  <2>2. PICK n \in calls \cup answers : m.sent = n.sent /\ now' = now
    BY <2>1, HandledAnswers DEF Handled
  <2>. QED
    BY <2>2
<1>2. ASSUME NEW a \in answers,
             RegisterAnswered(a) \/ RefreshAnswered(a) \/ UnregisterAnswered(a)
      PROVE  Aged
  <2>1. m \in calls \cup answers /\ now' = now
    BY <1>2, RegisterAnsweredEffect, RefreshAnsweredEffect, UnregisterAnsweredEffect
  <2>. QED
    BY <1>0, <2>1
<1>3. ASSUME NEW h \in Hosts, NEW id \in Ids, BeginRound(h, id) PROVE Aged
  <2>1. (m \in calls \cup answers \/ m.sent = now) /\ now' = now
    BY <1>3, BeginRoundEffect
  <2>. QED
    BY <1>0, <2>1
<1>4. ASSUME NEW h \in Hosts, EndRound(h) \/ CodeNotTaken(h) \/ Die(h) \/ RefreshTick(h)
      PROVE  Aged
  <2>1. (m \in calls \cup answers \/ m.sent = now) /\ now' = now
    BY <1>4, EndRoundEffect, CodeNotTakenEffect, DieEffect, RefreshTickEffect
  <2>. QED
    BY <1>0, <2>1
<1>5. CASE Tick
  BY <1>5 DEF Tick, networkVars
<1>6. CASE UNCHANGED <<now, calls, answers, round, task>>
  BY <1>0, <1>6
<1>. HIDE DEF Aged
<1>7. CASE \/ \E c \in calls : Register(c) \/ Refresh(c) \/ Unregister(c)
           \/ \E a \in answers : RegisterAnswered(a) \/ RefreshAnswered(a) \/ UnregisterAnswered(a)
  BY <1>1, <1>2, <1>7
<1>8. CASE \/ \E h \in Hosts, id \in Ids : BeginRound(h, id)
           \/ \E h \in Hosts : EndRound(h) \/ CodeNotTaken(h) \/ Die(h) \/ RefreshTick(h)
  BY <1>3, <1>4, <1>8
<1>. QED
  BY <1>5, <1>6, <1>7, <1>8 DEF InTimeStep

(* The clock does not tick past what is overdue, and a task that goes back *)
(* to waiting sent its last refresh when that was due.                     *)
LEMMA PromptStep ==
    ASSUME Timely, RegInv, Prompt, TaskInStep, InTimeStep
    PROVE  Prompt'
<1>0. /\ now \in Nat /\ Period \in Nat /\ Delay \in Nat /\ Delay =< Period
      /\ \A m \in calls \cup answers : m.sent \in Nat /\ m.host \in Hosts
      /\ \A h \in Hosts : task[h].due \in Nat
  BY Margins DEF RegInv, TypeOK, Call, Reply, Task
<1>1. CASE Tick /\ ~Overdue
  <2>1. /\ now' = now + 1 /\ calls' = calls /\ answers' = answers /\ task' = task
    BY <1>1 DEF Tick, networkVars, hostVars
  <2>2. /\ \A m \in calls \cup answers : ~(m.sent + Delay =< now)
        /\ \A h \in Hosts : task[h].pc = "wait" => ~(task[h].due =< now)
    BY <1>1 DEF Overdue
  <2>. QED
    BY <1>0, <2>1, <2>2 DEF Prompt
<1>2. CASE ~(Tick /\ ~Overdue)
  <2>1. now' = now
    BY <1>2, HandledCall, RegisterAnsweredEffect, RefreshAnsweredEffect,
       UnregisterAnsweredEffect, BeginRoundEffect, EndRoundEffect, CodeNotTakenEffect,
       DieEffect, RefreshTickEffect DEF InTimeStep, Handled
  <2>2. \A m \in calls' \cup answers' : m.sent =< now /\ now =< m.sent + Delay
    BY <1>0, MessagesOfStep DEF Prompt
  <2>3. ASSUME NEW h \in Hosts, task'[h].pc = "wait" PROVE now =< task'[h].due
    <3>1. CASE task'[h] = task[h]
      BY <2>3, <3>1 DEF Prompt
    <3>2. ASSUME NEW a \in answers, RegisterAnswered(a) PROVE now =< task'[h].due
      <4>1. CASE h = a.host /\ a.token # 0
        <5>1. task'[h] = [pc |-> "wait", id |-> round[h].id, token |-> a.token, due |-> now]
          BY <3>2, <4>1, RegisterAnsweredEffect
        <5>2. task'[h].due = now
          BY <5>1
        <5>. QED
          BY <1>0, <5>2
      <4>2. CASE h # a.host \/ a.token = 0
        <5>1. task'[h] = task[h]
          BY <3>2, <4>2, RegisterAnsweredEffect
        <5>. QED
          BY <2>3, <5>1 DEF Prompt
      <4>. QED
        BY <4>1, <4>2
    <3>3. ASSUME NEW a \in answers, RefreshAnswered(a) PROVE now =< task'[h].due
      <4>1. CASE h = a.host
        <5>1. a \in Refreshes(h) /\ task'[h].due = task[h].due
          BY <3>3, <4>1, RefreshAnsweredEffect DEF Refreshes
        <5>2. task[h].pc # "none" /\ task[h].pc \in {"none", "wait", "call"}
          BY <3>3, <4>1 DEF RefreshAnswered, RegInv, Owned, TasksAwait, TypeOK, Task
        <5>3. a.sent + Period = task[h].due
          BY <5>1, <5>2 DEF TaskInStep, InStep
        <5>. QED
          BY <1>0, <5>1, <5>3 DEF Prompt
      <4>2. CASE h # a.host
        BY <2>3, <3>3, <4>2, RefreshAnsweredEffect DEF Prompt
      <4>. QED
        BY <4>1, <4>2
    <3>4. ASSUME NEW c \in calls, Register(c) \/ Refresh(c) \/ Unregister(c)
          PROVE  task'[h] = task[h]
      BY <3>4, HandledCall DEF Handled
    <3>5. ASSUME NEW g \in Hosts, EndRound(g) \/ CodeNotTaken(g) \/ Die(g) \/ RefreshTick(g)
          PROVE  task'[h] = task[h]
      BY <2>3, <3>5, EndRoundEffect, CodeNotTakenEffect, DieEffect, RefreshTickEffect
    <3>6. ASSUME NEW g \in Hosts, NEW id \in Ids, BeginRound(g, id)
          PROVE  task'[h] = task[h]
      BY <3>6, BeginRoundEffect
    <3>7. ASSUME NEW a \in answers, UnregisterAnswered(a) PROVE task'[h] = task[h]
      BY <3>7, UnregisterAnsweredEffect
    <3>. QED
      BY <1>2, <3>1, <3>2, <3>3, <3>4, <3>5, <3>6, <3>7 DEF InTimeStep
  <2>. QED
    BY <2>1, <2>2, <2>3 DEF Prompt
<1>. QED
  BY <1>1, <1>2

-----------------------------------------------------------------------------
(* One errand at a time. *)
LEMMA CallsAreNoReplies == \A c \in Call : c \notin Reply
<1>. SUFFICES ASSUME NEW c \in Call, c \in Reply PROVE FALSE
  OBVIOUS
<1>1. DOMAIN c = {"op", "host", "id", "token", "sent"}
  BY DEF Call
<1>2. DOMAIN c = {"op", "host", "token", "sent"}
  BY DEF Reply
<1>. QED
  BY <1>1, <1>2

(* A host begins an errand when it has none, and ends it with its answer.  *)
LEMMA OneAtATimeStep ==
    ASSUME RegInv, OneAtATime, InTimeStep
    PROVE  OneAtATime'
<1>0. /\ \A m \in calls \cup answers : m.host \in Hosts
      /\ \A c \in Call : c \notin Reply
  BY CallsAreNoReplies DEF RegInv, TypeOK, Call, Reply
<1>. USE DEF Orderly
<1>1. SUFFICES ASSUME NEW h \in Hosts PROVE Orderly(h)'
  BY DEF OneAtATime
<1>2. Orderly(h)
  BY DEF OneAtATime
<1>3. ASSUME round'[h] = round[h], Errands(h)' \subseteq Errands(h),
             \A m \in Errands(h)' : /\ m \in calls' => m \in calls
                                    /\ m \in answers' => m \in answers
      PROVE  Orderly(h)'
  BY <1>2, <1>3
<1>4. ASSUME NEW c \in calls, Register(c) \/ Refresh(c) \/ Unregister(c)
      PROVE  Orderly(h)'
  <2>1. PICK k \in Nat : Handled(c, k)
    BY <1>4, HandledCall
  <2>2. CASE answers' = answers
    BY <1>3, <2>1, <2>2 DEF Handled, Errands
  <2>3. ASSUME Awaited(c),
               NEW r \in Reply, r.op = c.op, r.host = c.host, answers' = answers \cup {r}
        PROVE  Orderly(h)'
    <3>1. CASE c.op = "refresh" \/ c.host # h
      BY <1>3, <2>1, <2>3, <3>1 DEF Handled, Errands
    <3>2. CASE c.op # "refresh" /\ c.host = h
      <4>0. c \in Errands(h)
        BY <3>2 DEF Errands
      <4>1. Errands(h) = {c} /\ round[h].pc = c.op
        BY <1>2, <2>3, <3>2, <4>0 DEF Awaited
      <4>2. Errands(h)' = {r}
        <5>1. c \notin answers
          BY <1>0 DEF RegInv, TypeOK
        <5>2. \A m \in calls \cup answers : m.op # "refresh" /\ m.host = h => m = c
          BY <4>1 DEF Errands
        <5>. QED
          BY <2>1, <2>3, <3>2, <5>1, <5>2 DEF Handled, Errands
      <4>3. r \notin calls'
        BY <1>0, <2>1, <2>3 DEF Handled, RegInv, TypeOK
      <4>. QED
        BY <2>1, <2>3, <3>2, <4>1, <4>2, <4>3 DEF Handled
    <3>. QED
      BY <3>1, <3>2
  <2>. QED
    BY <2>1, <2>2, <2>3, HandledAnswers
<1>5. ASSUME NEW a \in answers, RegisterAnswered(a) \/ UnregisterAnswered(a)
      PROVE  Orderly(h)'
  <2>1. /\ a.op # "refresh" /\ calls' = calls /\ answers' = answers \ {a}
        /\ \A g \in Hosts \ {a.host} : round'[g] = round[g]
    BY <1>5, RegisterAnsweredEffect, UnregisterAnsweredEffect
  <2>2. CASE h = a.host
    <3>1. Errands(h)' = {}
      BY <1>0, <1>2, <2>1, <2>2 DEF Errands, RegInv, TypeOK
    <3>. QED
      BY <3>1
  <2>3. CASE h # a.host
    BY <1>3, <2>1, <2>3 DEF Errands
  <2>. QED
    BY <2>2, <2>3
<1>6. ASSUME NEW a \in answers, RefreshAnswered(a) PROVE Orderly(h)'
  BY <1>3, <1>6, RefreshAnsweredEffect DEF Errands
<1>7. ASSUME NEW g \in Hosts, NEW id \in Ids, BeginRound(g, id) PROVE Orderly(h)'
  <2>1. PICK n \in Call : /\ n.op = "register" /\ n.host = g /\ n.id = id
                          /\ calls' = calls \cup {n}
    BY <1>7, BeginRoundEffect
  <2>2. /\ answers' = answers /\ round[g].pc = "idle" /\ round'[g].pc = "register"
        /\ round'[g].id = id /\ \A f \in Hosts \ {g} : round'[f] = round[f]
    BY <1>7, BeginRoundEffect
  <2>3. CASE h = g
    <3>1. \A m \in calls \cup answers : m.op \in Operation
      BY DEF RegInv, TypeOK, Call, Reply
    <3>2. Errands(h) = {}
      BY <1>2, <2>2, <2>3, <3>1 DEF Errands, Operation
    <3>3. Errands(h)' = {n} /\ n \notin answers'
      BY <1>0, <2>1, <2>2, <2>3, <3>2 DEF Errands, RegInv, TypeOK
    <3>. QED
      BY <2>1, <2>2, <2>3, <3>3
  <2>4. CASE h # g
    BY <1>3, <2>1, <2>2, <2>4 DEF Errands
  <2>. QED
    BY <2>3, <2>4
<1>8. ASSUME NEW g \in Hosts, EndRound(g) PROVE Orderly(h)'
  <2>1. PICK n \in Call : n.op = "unregister" /\ n.host = g /\ calls' = calls \cup {n}
    BY <1>8, EndRoundEffect
  <2>2. /\ round[g].pc = "serve" /\ round'[g].pc = "unregister"
        /\ answers' \subseteq answers /\ \A f \in Hosts \ {g} : round'[f] = round[f]
    BY <1>8, EndRoundEffect
  <2>3. CASE h = g
    <3>1. \A m \in calls \cup answers : m.op \in Operation
      BY DEF RegInv, TypeOK, Call, Reply
    <3>2. Errands(h) = {}
      BY <1>2, <2>2, <2>3, <3>1 DEF Errands, Operation
    <3>3. Errands(h)' = {n} /\ n \notin answers'
      BY <1>0, <2>1, <2>2, <2>3, <3>2 DEF Errands, RegInv, TypeOK
    <3>. QED
      BY <2>1, <2>2, <2>3, <3>3
  <2>4. CASE h # g
    BY <1>3, <2>1, <2>2, <2>4 DEF Errands
  <2>. QED
    BY <2>3, <2>4
<1>9. ASSUME NEW g \in Hosts, CodeNotTaken(g) PROVE Orderly(h)'
  <2>1. /\ calls' = calls /\ answers' = answers
        /\ round[g].pc = "serve" /\ \A f \in Hosts \ {g} : round'[f] = round[f]
    BY <1>9, CodeNotTakenEffect
  <2>2. CASE h = g
    <3>1. \A m \in calls \cup answers : m.op \in Operation
      BY DEF RegInv, TypeOK, Call, Reply
    <3>2. Errands(h) = {} /\ Errands(h)' = {}
      BY <1>2, <2>1, <2>2, <3>1 DEF Errands, Operation
    <3>. QED
      BY <3>2
  <2>3. CASE h # g
    BY <1>3, <2>1, <2>3 DEF Errands
  <2>. QED
    BY <2>2, <2>3
<1>10. ASSUME NEW g \in Hosts, Die(g) PROVE Orderly(h)'
  <2>1. /\ calls' = calls /\ answers' = {a \in answers : a.host # g}
        /\ round'[g].pc = "gone" /\ \A f \in Hosts \ {g} : round'[f] = round[f]
    BY <1>10, DieEffect
  <2>2. CASE h = g
    BY <1>2, <2>1, <2>2 DEF Errands
  <2>3. CASE h # g
    BY <1>3, <2>1, <2>3 DEF Errands
  <2>. QED
    BY <2>2, <2>3
<1>11. ASSUME NEW g \in Hosts, RefreshTick(g) PROVE Orderly(h)'
  BY <1>3, <1>11, RefreshTickEffect DEF Errands
<1>12. CASE UNCHANGED <<calls, answers, round>>
  BY <1>3, <1>12 DEF Errands
<1>. QED
  BY <1>4, <1>5, <1>6, <1>7, <1>8, <1>9, <1>10, <1>11, <1>12
     DEF InTimeStep, Tick, networkVars, hostVars

-----------------------------------------------------------------------------
(* One refresh at a time. *)

(* The refreshes of h are those of before when nothing is sent or answered. *)
LEMMA TaskInStepStep ==
    ASSUME Timely, RegInv, Prompt, OneAtATime, TaskInStep, Granted, InTimeStep
    PROVE  TaskInStep'
<1>0. /\ \A m \in calls \cup answers : m.host \in Hosts
      /\ \A c \in Call : c \notin Reply
      /\ calls \subseteq Call /\ answers \subseteq Reply
      /\ \A h \in Hosts : task[h].pc \in {"none", "wait", "call"}
  BY CallsAreNoReplies DEF RegInv, TypeOK, Call, Reply, Task
<1>. USE DEF InStep
<1>1. SUFFICES ASSUME NEW h \in Hosts PROVE InStep(h)'
  BY DEF TaskInStep
<1>2. InStep(h)
  BY DEF TaskInStep
<1>3. ASSUME round'[h] = round[h], task'[h] = task[h], Refreshes(h)' = Refreshes(h),
             \A m \in Refreshes(h)' : m \in calls' => m \in calls
      PROVE  InStep(h)'
  BY <1>2, <1>3
<1>4. ASSUME NEW c \in calls, Register(c) \/ Refresh(c) \/ Unregister(c)
      PROVE  InStep(h)'
  <2>1. PICK k \in Nat : Handled(c, k)
    BY <1>4, HandledCall
  <2>2. /\ calls' = calls \ {c} /\ round' = round /\ task' = task
    BY <2>1 DEF Handled
  <2>3. CASE c \in Refreshes(h)
    <3>1. c.op = "refresh" /\ c.host = h /\ c.token = task[h].token
      BY <1>0, <2>3 DEF Refreshes
    <3>2. CASE task[h].pc = "none"
      BY <2>2, <3>2
    <3>3. CASE task[h].pc = "call"
      <4>1. PICK r \in Reply : /\ r.op = c.op /\ r.host = c.host /\ r.sent = c.sent
                               /\ answers' = answers \cup {r}
        BY <2>1, <3>1, <3>3, HandledAnswers DEF Awaited
      <4>2. Refreshes(h) = {c}
        BY <1>2, <2>3, <3>3
      <4>3. Refreshes(h)' = {r} /\ r \notin calls'
        <5>1. \A a \in answers : ~(a.op = "refresh" /\ a.host = h)
          BY <1>0, <4>2 DEF Refreshes
        <5>2. \A d \in calls : d.op = "refresh" /\ d.host = h /\ d.token = task[h].token
                               => d = c
          BY <4>2 DEF Refreshes
        <5>. QED
          BY <1>0, <2>2, <3>1, <4>1, <5>1, <5>2 DEF Refreshes
      <4>. QED
        BY <1>2, <2>2, <2>3, <3>3, <4>1, <4>3
    <3>. QED
      BY <1>0, <1>2, <2>3, <3>2, <3>3
  <2>4. CASE c \notin Refreshes(h)
    <3>1. Refreshes(h)' = Refreshes(h)
      <4>1. CASE answers' = answers
        BY <2>2, <2>4, <4>1 DEF Refreshes
      <4>2. ASSUME Awaited(c), NEW r \in Reply, r.op = c.op, r.host = c.host,
                   answers' = answers \cup {r}
            PROVE  Refreshes(h)' = Refreshes(h)
        <5>1. ~(r.op = "refresh" /\ r.host = h)
          BY <2>4, <4>2 DEF Refreshes, Awaited
        <5>. QED
          BY <2>2, <2>4, <4>2, <5>1 DEF Refreshes
      <4>. QED
        BY <2>1, <4>1, <4>2, HandledAnswers
    <3>2. \A m \in Refreshes(h)' : m \in calls' => m \in calls
      BY <2>2
    <3>. QED
      BY <1>3, <2>2, <3>1, <3>2
  <2>. QED
    BY <2>3, <2>4
<1>5. ASSUME NEW a \in answers, RegisterAnswered(a) PROVE InStep(h)'
  <2>1. a.op = "register" /\ answers' = answers \ {a} /\ calls' = calls
    BY <1>5, RegisterAnsweredEffect
  <2>2. CASE h # a.host
    <3>1. Refreshes(h)' = Refreshes(h)
      BY <1>5, <2>1, <2>2, RegisterAnsweredEffect DEF Refreshes
    <3>. QED
      BY <1>3, <1>5, <2>1, <2>2, <3>1, RegisterAnsweredEffect
  <2>3. CASE h = a.host
    <3>1. round[h].pc = "register"
      BY <2>1, <2>3 DEF OneAtATime, Orderly, Errands
    <3>2. task[h].pc = "none"
      BY <1>2, <3>1
    <3>3. CASE a.token = 0
      BY <1>5, <2>3, <3>2, <3>3, RegisterAnsweredEffect
    <3>4. CASE a.token # 0
      <4>1. /\ round'[h].pc = "serve"
            /\ task'[h] = [pc |-> "wait", id |-> round[h].id, token |-> a.token, due |-> now]
        BY <1>5, <2>3, <3>4, RegisterAnsweredEffect
      <4>2. task'[h].pc = "wait" /\ task'[h].token = a.token
        BY <4>1
      <4>3. \A c \in calls : c.op = "refresh" => c.token # a.token
        BY <2>1, <3>4 DEF Granted
      <4>4. \A b \in answers : ~(b.op = "refresh" /\ b.host = h)
        BY <3>2 DEF RegInv, Owned, TasksAwait
      <4>5. Refreshes(h)' = {}
        BY <2>1, <4>2, <4>3, <4>4 DEF Refreshes
      <4>. QED
        BY <4>1, <4>2, <4>5
    <3>. QED
      BY <3>3, <3>4
  <2>. QED
    BY <2>2, <2>3
<1>6. ASSUME NEW a \in answers, RefreshAnswered(a) PROVE InStep(h)'
  <2>1. a.op = "refresh" /\ answers' = answers \ {a} /\ calls' = calls /\ round' = round
    BY <1>6, RefreshAnsweredEffect
  <2>2. CASE h # a.host
    BY <1>0, <1>3, <1>6, <2>1, <2>2, RefreshAnsweredEffect DEF Refreshes
  <2>3. CASE h = a.host
    <3>1. a \in Refreshes(h) /\ task[h].pc # "none"
      BY <2>1, <2>3 DEF Refreshes, RegInv, Owned, TasksAwait
    <3>2. task[h].pc = "call" /\ Refreshes(h) = {a}
      BY <1>0, <1>2, <3>1
    <3>3. task'[h].pc = "wait" /\ task'[h].token = task[h].token
      BY <1>6, <2>3, RefreshAnsweredEffect
    <3>4. Refreshes(h)' = {}
      <4>1. a \notin calls
        BY <1>0
      <4>. QED
        BY <2>1, <3>2, <3>3, <4>1 DEF Refreshes
    <3>. QED
      BY <1>2, <2>1, <3>2, <3>3, <3>4
  <2>. QED
    BY <2>2, <2>3
<1>7. ASSUME NEW a \in answers, UnregisterAnswered(a) PROVE InStep(h)'
  <2>1. /\ a.op = "unregister" /\ answers' = answers \ {a} /\ calls' = calls /\ task' = task
    BY <1>7, UnregisterAnsweredEffect
  <2>2. Refreshes(h)' = Refreshes(h)
    BY <2>1 DEF Refreshes
  <2>3. CASE h # a.host
    BY <1>3, <1>7, <2>1, <2>2, <2>3, UnregisterAnsweredEffect
  <2>4. CASE h = a.host
    <3>1. round[h].pc = "unregister"
      BY <2>1, <2>4 DEF OneAtATime, Orderly, Errands
    <3>. QED
      BY <1>2, <2>1, <3>1
  <2>. QED
    BY <2>3, <2>4
<1>8. ASSUME NEW g \in Hosts, NEW id \in Ids, BeginRound(g, id) PROVE InStep(h)'
  <2>1. PICK n \in Call : n.op = "register" /\ calls' = calls \cup {n}
    BY <1>8, BeginRoundEffect
  <2>2. /\ answers' = answers /\ task' = task /\ round[g].pc = "idle"
        /\ \A f \in Hosts \ {g} : round'[f] = round[f]
    BY <1>8, BeginRoundEffect
  <2>3. CASE h = g
    BY <1>2, <2>2, <2>3
  <2>4. CASE h # g
    BY <1>3, <2>1, <2>2, <2>4 DEF Refreshes
  <2>. QED
    BY <2>3, <2>4
<1>9. ASSUME NEW g \in Hosts, EndRound(g) \/ Die(g) PROVE InStep(h)'
  <2>1. CASE h = g
    BY <1>9, <2>1, EndRoundEffect, DieEffect
  <2>2. CASE h # g
    <3>1. /\ \A a : a \in answers /\ a.host = h <=> a \in answers' /\ a.host = h
          /\ round'[h] = round[h] /\ task'[h] = task[h]
      BY <1>9, <2>2, EndRoundEffect, DieEffect
    <3>2. \A c : c.op = "refresh" => (c \in calls' <=> c \in calls)
      BY <1>9, EndRoundEffect, DieEffect
    <3>3. Refreshes(h)' = Refreshes(h)
      BY <3>1, <3>2 DEF Refreshes
    <3>4. \A m \in Refreshes(h)' : m.op = "refresh"
      BY DEF Refreshes
    <3>. QED
      BY <1>3, <3>1, <3>2, <3>3, <3>4
  <2>. QED
    BY <2>1, <2>2
<1>10. ASSUME NEW g \in Hosts, CodeNotTaken(g) PROVE InStep(h)'
  <2>1. calls' = calls /\ answers' = answers /\ task' = task
    BY <1>10, CodeNotTakenEffect
  <2>2. Refreshes(h)' = Refreshes(h)
    BY <2>1 DEF Refreshes
  <2>3. round'[h] = round[h] \/ round'[h].pc = "gone"
    BY <1>10, CodeNotTakenEffect
  <2>. QED
    BY <1>2, <2>1, <2>2, <2>3
<1>11. ASSUME NEW g \in Hosts, RefreshTick(g) PROVE InStep(h)'
  <2>1. PICK n \in Call : /\ n.op = "refresh" /\ n.host = g /\ n.id = task[g].id
                          /\ n.token = task[g].token /\ n.sent = now
                          /\ calls' = calls \cup {n}
    BY <1>11, RefreshTickEffect
  <2>2. /\ answers' = answers /\ round' = round
        /\ \A f \in Hosts \ {g} : task'[f] = task[f]
        /\ task[g].pc = "wait" /\ task[g].due =< now
        /\ task'[g].pc = "call" /\ task'[g].id = task[g].id
        /\ task'[g].token = task[g].token /\ task'[g].due = task[g].due + Period
    BY <1>11, RefreshTickEffect
  <2>3. CASE h = g
    <3>1. task[h].due = now
      <4>1. now \in Nat /\ task[h].due \in Nat /\ now =< task[h].due
        BY <2>2, <2>3 DEF RegInv, TypeOK, Task, Prompt
      <4>. QED
        BY <2>2, <2>3, <4>1
    <3>2. Refreshes(h) = {}
      BY <1>2, <2>2, <2>3
    <3>3. Refreshes(h)' = {n}
      BY <2>1, <2>2, <2>3, <3>2 DEF Refreshes
    <3>. QED
      BY <1>2, <2>1, <2>2, <2>3, <3>1, <3>3
  <2>4. CASE h # g
    BY <1>3, <2>1, <2>2, <2>4 DEF Refreshes
  <2>. QED
    BY <2>3, <2>4
<1>12. CASE UNCHANGED <<calls, answers, round, task>>
  BY <1>3, <1>12 DEF Refreshes
<1>. HIDE DEF InStep
<1>. QED
  BY <1>4, <1>5, <1>6, <1>7, <1>8, <1>9, <1>10, <1>11, <1>12
     DEF InTimeStep, Tick, networkVars, hostVars

-----------------------------------------------------------------------------
(* What is registered stands. *)

(* No step but its own unregister ends a registration that is live.        *)
LEMMA StandsKept ==
    ASSUME RegInv, InTimeStep, NEW id \in Ids, NEW k \in Nat, NEW t \in Nat,
           Stands(id, k, t), t > now,
           \A c \in calls : c.op = "unregister" => c.token # k
    PROVE  Stands(id, k, t)'
<1>1. /\ entries[id] \in Entry /\ entries[id] # None /\ entries[id].token = k
      /\ entries[id].expires \in Nat /\ entries[id].expires >= t
      /\ entries[id].expires =< now + Ttl /\ now \in Nat /\ Ttl \in Nat
      /\ calls \subseteq Call
  BY RegistrationAssumption DEF RegInv, TypeOK, Stands, Entry
<1>2. /\ Purged \in [Ids -> Entry \cup {None}] /\ Purged[id] = entries[id]
  <2>1. Live(entries[id])
    BY <1>1 DEF Live
  <2>. QED
    BY <2>1, PurgedEntries DEF RegInv
<1>3. ASSUME entries' = entries \/ entries' = Purged
      PROVE  Stands(id, k, t)'
  BY <1>1, <1>2, <1>3 DEF Stands
<1>4. ASSUME NEW c \in calls, Register(c) PROVE Stands(id, k, t)'
  <2>. DEFINE e == [token |-> Len(owner) + 1, host |-> c.host, expires |-> now + Ttl]
  <2>1. entries' = Purged \/ (Purged[c.id] = None /\ entries' = [Purged EXCEPT ![c.id] = e])
    BY <1>4 DEF Register
  <2>. HIDE DEF e
  <2>2. CASE Purged[c.id] = None /\ entries' = [Purged EXCEPT ![c.id] = e]
    <3>1. entries'[id] = entries[id]
      BY <1>1, <1>2, <2>2
    <3>. QED
      BY <1>1, <3>1 DEF Stands
  <2>. QED
    BY <1>3, <2>1, <2>2
<1>5. ASSUME NEW c \in calls, Refresh(c) PROVE Stands(id, k, t)'
  <2>. DEFINE e == Purged[c.id]
              r == Renewed(c, e)
  <2>1. \/ entries' = Purged
        \/ e # None /\ e.token = c.token /\ entries' = [Purged EXCEPT ![c.id] = r]
    BY <1>5 DEF Refresh
  <2>2. CASE e # None /\ e.token = c.token /\ entries' = [Purged EXCEPT ![c.id] = r]
    <3>1. c.id \in Ids /\ c.host \in Hosts /\ now + Ttl \in Nat
      BY <1>1 DEF Call
    <3>2. e \in Entry
      BY <1>2, <2>2, <3>1
    <3>3. r \in Entry /\ r.token = e.token /\ r.expires = now + Ttl
      BY <3>1, <3>2 DEF Renewed, Entry
    <3>4. r # None
      BY <3>3, RegistrationAssumption DEF Entry
    <3>. HIDE DEF r
    <3>5. CASE c.id = id
      <4>1. entries'[id] = r /\ r.token = k
        BY <1>1, <1>2, <2>2, <3>3, <3>5
      <4>2. now + Ttl >= t
        BY <1>1
      <4>. QED
        BY <3>3, <3>4, <4>1, <4>2 DEF Stands
    <3>6. CASE c.id # id
      <4>1. entries'[id] = entries[id]
        BY <1>2, <2>2, <3>6
      <4>. QED
        BY <1>1, <4>1 DEF Stands
    <3>. QED
      BY <3>5, <3>6
  <2>. QED
    BY <1>3, <2>1, <2>2
<1>6. ASSUME NEW c \in calls, Unregister(c) PROVE Stands(id, k, t)'
  <2>1. c.op = "unregister" /\ c.id \in Ids /\ c.token # k
    BY <1>1, <1>6 DEF Unregister, Call
  <2>2. \/ entries' = Purged
        \/ Purged[c.id].token = c.token /\ entries' = [Purged EXCEPT ![c.id] = None]
    BY <1>6 DEF Unregister
  <2>3. CASE Purged[c.id].token = c.token /\ entries' = [Purged EXCEPT ![c.id] = None]
    <3>1. c.id # id
      BY <1>1, <1>2, <2>1, <2>3
    <3>2. entries'[id] = entries[id]
      BY <1>2, <2>3, <3>1
    <3>. QED
      BY <1>1, <3>2 DEF Stands
  <2>. QED
    BY <1>3, <2>2, <2>3
<1>7. CASE \/ \E a \in answers : RegisterAnswered(a) \/ RefreshAnswered(a) \/ UnregisterAnswered(a)
           \/ \E h \in Hosts, i \in Ids : BeginRound(h, i)
           \/ \E h \in Hosts : EndRound(h) \/ CodeNotTaken(h) \/ Die(h) \/ RefreshTick(h)
           \/ Tick
  <2>1. entries' = entries
    BY <1>7 DEF RegisterAnswered, RefreshAnswered, UnregisterAnswered, BeginRound, EndRound,
         CodeNotTaken, Die, RefreshTick, Tick, serverVars
  <2>. QED
    BY <1>3, <2>1
<1>8. CASE entries' \in {entries, Purged}
  BY <1>3, <1>8
<1>9. CASE \E c \in calls : Register(c) \/ Refresh(c) \/ Unregister(c)
  BY <1>4, <1>5, <1>6, <1>9
<1>. QED
  BY <1>7, <1>8, <1>9 DEF InTimeStep

(* An answer that grants a token comes from a register call that got an    *)
(* entry for the TTL.                                                      *)
LEMMA GrantStands ==
    ASSUME RegInv, NEW c \in calls, Register(c), NEW a \in answers' \ answers, a.token # 0
    PROVE  /\ c.op = "register" /\ Awaited(c) /\ a.op = c.op /\ a.host = c.host
           /\ a.sent = c.sent /\ a.token = Len(owner) + 1
           /\ Stands(c.id, a.token, now + Ttl)'
<1>. DEFINE k == Len(owner) + 1
            e == [token |-> k, host |-> c.host, expires |-> now + Ttl]
            r == [op |-> c.op, host |-> c.host, token |-> k, sent |-> c.sent]
<1>1. c.op = "register" /\ c.id \in Ids /\ c.host \in Hosts /\ now + Ttl \in Nat /\ k \in Nat
  BY RegistrationAssumption, LenProperties DEF RegInv, TypeOK, Call, Register
<1>2. e \in Entry /\ e # None /\ e.token = k /\ e.expires = now + Ttl
  BY <1>1, RegistrationAssumption DEF Entry
<1>3. CASE Purged[c.id] = None
  <2>1. entries' = [Purged EXCEPT ![c.id] = e] /\ Replied(c, k)
    BY <1>3 DEF Register
  <2>2. Awaited(c) /\ a = r
    BY <2>1 DEF Replied
  <2>3. a.op = c.op /\ a.host = c.host /\ a.sent = c.sent /\ a.token = k
    BY <2>2
  <2>. HIDE DEF e, r
  <2>4. entries'[c.id] = e
    BY <1>1, <2>1, PurgedEntries DEF RegInv
  <2>5. now + Ttl >= now + Ttl
    BY <1>1
  <2>6. Stands(c.id, a.token, now + Ttl)'
    <3>1. now' = now
      BY DEF Register
    <3>. QED
      BY <1>2, <2>3, <2>4, <2>5, <3>1 DEF Stands
  <2>. QED
    BY <1>1, <2>2, <2>3, <2>6
<1>4. CASE Purged[c.id] # None
  <2>1. Replied(c, 0)
    BY <1>4 DEF Register
  <2>2. a = [op |-> c.op, host |-> c.host, token |-> 0, sent |-> c.sent]
    BY <2>1 DEF Replied
  <2>. QED
    BY <2>2
<1>. QED
  BY <1>3, <1>4

(* A refresh that finds its registration renews it for the TTL.            *)
LEMMA RenewalStands ==
    ASSUME RegInv, NEW c \in calls, Refresh(c), NEW t \in Nat, t > now,
           Stands(c.id, c.token, t)
    PROVE  Stands(c.id, c.token, now + Ttl)'
<1>. DEFINE e == Purged[c.id]
            r == Renewed(c, e)
<1>1. /\ c.id \in Ids /\ c.host \in Hosts /\ now + Ttl \in Nat /\ now \in Nat
      /\ entries[c.id] # None /\ entries[c.id].token = c.token
      /\ entries[c.id].expires \in Nat /\ entries[c.id].expires >= t
  BY RegistrationAssumption DEF RegInv, TypeOK, Call, Stands, Entry
<1>2. Live(entries[c.id])
  BY <1>1 DEF Live
<1>3. e = entries[c.id] /\ e \in Entry /\ e.token = c.token /\ e # None
  BY <1>1, <1>2, PurgedEntries DEF RegInv, TypeOK
<1>4. r \in Entry /\ r.token = c.token /\ r.expires = now + Ttl
  BY <1>1, <1>3 DEF Renewed, Entry
<1>5. r # None
  BY <1>4, RegistrationAssumption DEF Entry
<1>6. entries' = [Purged EXCEPT ![c.id] = r] /\ now' = now
  BY <1>3 DEF Refresh
<1>. HIDE DEF e, r
<1>7. entries'[c.id] = r
  BY <1>1, <1>6, PurgedEntries DEF RegInv
<1>8. now + Ttl >= now + Ttl
  BY <1>1
<1>. QED
  BY <1>4, <1>5, <1>6, <1>7, <1>8 DEF Stands

(* A host that waits for the answer to its register call does nothing else. *)
LEMMA RegisteringWaits ==
    ASSUME RegInv, OneAtATime, InTimeStep,
           NEW a \in answers, a \in answers', a.op = "register"
    PROVE  round'[a.host] = round[a.host]
<1>1. a.host \in Hosts /\ a \in Errands(a.host) /\ round[a.host].pc = "register"
  BY DEF RegInv, TypeOK, Reply, OneAtATime, Orderly, Errands
<1>2. \A b \in answers : b.op # "refresh" /\ b.host = a.host => b = a
  BY <1>1 DEF OneAtATime, Orderly, Errands
<1>3. ASSUME NEW b \in answers, RegisterAnswered(b) \/ UnregisterAnswered(b)
      PROVE  round'[a.host] = round[a.host]
  <2>1. b.op # "refresh" /\ b \notin answers'
        /\ \A g \in Hosts \ {b.host} : round'[g] = round[g]
    BY <1>3, RegisterAnsweredEffect, UnregisterAnsweredEffect
  <2>2. b.host # a.host
    BY <1>2, <2>1
  <2>. QED
    BY <1>1, <2>1, <2>2
<1>4. ASSUME NEW b \in answers, RefreshAnswered(b) PROVE round'[a.host] = round[a.host]
  BY <1>4, RefreshAnsweredEffect
<1>5. ASSUME NEW c \in calls, Register(c) \/ Refresh(c) \/ Unregister(c)
      PROVE  round'[a.host] = round[a.host]
  BY <1>5, HandledCall DEF Handled
<1>6. ASSUME NEW h \in Hosts, NEW id \in Ids, BeginRound(h, id)
      PROVE  round'[a.host] = round[a.host]
  BY <1>1, <1>6, BeginRoundEffect
<1>7. ASSUME NEW h \in Hosts, EndRound(h) \/ CodeNotTaken(h) \/ Die(h) \/ RefreshTick(h)
      PROVE  round'[a.host] = round[a.host]
  BY <1>1, <1>7, EndRoundEffect, CodeNotTakenEffect, DieEffect, RefreshTickEffect
<1>8. CASE UNCHANGED round
  BY <1>8
<1>. QED
  BY <1>3, <1>4, <1>5, <1>6, <1>7, <1>8 DEF InTimeStep, Tick, hostVars

(* Where a new register answer and a new refresh call come from.           *)
LEMMA NewMessages ==
    ASSUME RegInv, InTimeStep
    PROVE  /\ \A a \in answers' \ answers :
                  \E c \in calls : /\ Register(c) \/ Refresh(c) \/ Unregister(c)
                                  /\ a.op = c.op
           /\ \A n \in calls' \ calls : n.op = "refresh" =>
                  \E h \in Hosts : task[h].pc = "wait" /\ n.token = task[h].token
<1>1. ASSUME NEW c \in calls, Register(c) \/ Refresh(c) \/ Unregister(c)
      PROVE  calls' \subseteq calls /\ \A a \in answers' \ answers : a.op = c.op
  <2>1. PICK k \in Nat : Handled(c, k)
    BY <1>1, HandledCall
  <2>. QED
    BY <2>1, HandledAnswers DEF Handled
<1>2. ASSUME NEW a \in answers,
             RegisterAnswered(a) \/ RefreshAnswered(a) \/ UnregisterAnswered(a)
      PROVE  calls' \subseteq calls /\ answers' \subseteq answers
  BY <1>2, RegisterAnsweredEffect, RefreshAnsweredEffect, UnregisterAnsweredEffect
<1>3. ASSUME NEW h \in Hosts, NEW id \in Ids, BeginRound(h, id)
      PROVE  answers' \subseteq answers /\ \A n \in calls' \ calls : n.op # "refresh"
  BY <1>3, BeginRoundEffect
<1>4. ASSUME NEW h \in Hosts, EndRound(h) \/ CodeNotTaken(h) \/ Die(h) \/ RefreshTick(h)
      PROVE  /\ answers' \subseteq answers
             /\ \A n \in calls' \ calls : n.op = "refresh" =>
                    task[h].pc = "wait" /\ n.token = task[h].token
  BY <1>4, EndRoundEffect, CodeNotTakenEffect, DieEffect, RefreshTickEffect
<1>5. CASE UNCHANGED <<calls, answers>>
  BY <1>5
<1>6. CASE \E c \in calls : Register(c) \/ Refresh(c) \/ Unregister(c)
  BY <1>1, <1>6
<1>7. CASE \/ \E a \in answers : RegisterAnswered(a) \/ RefreshAnswered(a) \/ UnregisterAnswered(a)
           \/ \E h \in Hosts, id \in Ids : BeginRound(h, id)
           \/ \E h \in Hosts : EndRound(h) \/ CodeNotTaken(h) \/ Die(h) \/ RefreshTick(h)
  BY <1>2, <1>3, <1>4, <1>7
<1>. QED
  BY <1>5, <1>6, <1>7 DEF InTimeStep, Tick, networkVars

(* An answer on its way grants what stands: a registration for the TTL from*)
(* a call that was sent a Delay ago at most, to a host that waits, and     *)
(* therefore gives nothing back.                                           *)
LEMMA GrantedStep ==
    ASSUME Timely, RegInv, Prompt, OneAtATime, TaskInStep, Granted, InTimeStep
    PROVE  Granted'
<1>. SUFFICES ASSUME NEW a \in answers', a.op = "register", a.token # 0
              PROVE  /\ Stands(round[a.host].id, a.token, a.sent + Ttl)'
                     /\ \A c \in calls' : c.op = "refresh" => c.token # a.token
  BY DEF Granted
<1>0. /\ now \in Nat /\ Period \in Nat /\ Delay \in Nat /\ Ttl \in Nat
      /\ Period + Delay < Ttl /\ Delay < Ttl
      /\ \A c \in calls : c.op # "register" => Owns(c.host, c.token)
      /\ \A c \in Call : c \notin Reply
  BY Margins, CallsAreNoReplies DEF Timely, RegInv, Owned, CallsOwned, TypeOK
<1>1. CASE a \in answers
  <2>1. /\ a.host \in Hosts /\ a.token \in Nat /\ a.sent \in Nat /\ Owns(a.host, a.token)
        /\ round[a.host].id \in Ids /\ a \in Errands(a.host) /\ a \in Reply
    BY <1>1 DEF RegInv, TypeOK, Reply, Round, Owned, AnswersOwned, Errands
  <2>2. /\ Stands(round[a.host].id, a.token, a.sent + Ttl)
        /\ \A c \in calls : c.op = "refresh" => c.token # a.token
    BY <1>1 DEF Granted
  <2>3. a.sent + Ttl \in Nat /\ a.sent + Ttl > now
    <3>1. now =< a.sent + Delay
      BY <1>1 DEF Prompt
    <3>. QED
      BY <1>0, <2>1, <3>1
  <2>4. \A c \in calls : c.op = "unregister" => c.token # a.token
    <3>. SUFFICES ASSUME NEW c \in calls, c.op = "unregister", c.token = a.token PROVE FALSE
      OBVIOUS
    <3>1. c.host = a.host
      BY <1>0, <2>1 DEF Owns
    <3>2. c \in Errands(a.host)
      BY <3>1 DEF Errands
    <3>3. c = a
      BY <2>1, <3>2 DEF OneAtATime, Orderly
    <3>. QED
      BY <3>3
  <2>5. PICK id \in Ids : id = round[a.host].id
    BY <2>1
  <2>6. PICK t \in Nat : t = a.sent + Ttl
    BY <2>3
  <2>7. Stands(id, a.token, t)'
    <3>1. Stands(id, a.token, t) /\ t > now
      BY <2>2, <2>3, <2>5, <2>6
    <3>. QED
      BY <2>1, <2>4, <3>1, StandsKept
  <2>8. round'[a.host] = round[a.host]
    BY <1>1, RegisteringWaits
  <2>9. Stands(round[a.host].id, a.token, a.sent + Ttl)'
    BY <2>5, <2>6, <2>7, <2>8 DEF Stands
  <2>10. ASSUME NEW c \in calls', c.op = "refresh" PROVE c.token # a.token
    <3>1. CASE c \in calls
      BY <2>2, <2>10, <3>1
    <3>2. CASE c \notin calls
      <4>1. PICK h \in Hosts : task[h].pc = "wait" /\ c.token = task[h].token
        BY <2>10, <3>2, NewMessages
      <4>2. Owns(h, task[h].token)
        BY <4>1 DEF RegInv, Owned, TasksOwned
      <4>3. h # a.host
        BY <1>1, <2>1, <4>1 DEF OneAtATime, Orderly, TaskInStep, InStep
      <4>. QED
        BY <2>1, <4>1, <4>2, <4>3 DEF Owns
    <3>. QED
      BY <3>1, <3>2
  <2>. QED
    BY <2>9, <2>10
<1>2. CASE a \notin answers
  <2>1. PICK c \in calls : (Register(c) \/ Refresh(c) \/ Unregister(c)) /\ a.op = c.op
    BY <1>2, NewMessages
  <2>2. Register(c)
    BY <2>1 DEF Refresh, Unregister
  <2>3. /\ c.op = "register" /\ Awaited(c) /\ a.host = c.host /\ a.sent = c.sent
        /\ a.token = Len(owner) + 1 /\ Stands(c.id, a.token, now + Ttl)'
    BY <1>2, <2>2, GrantStands
  <2>4. /\ c.host \in Hosts /\ c.id \in Ids /\ c.sent \in Nat /\ now' = now /\ round' = round
        /\ calls' \subseteq calls /\ c.sent =< now
    BY <2>2 DEF Register, RegInv, TypeOK, Call, hostVars, Prompt
  <2>5. c.id = round[c.host].id
    <3>1. round[c.host].pc = "register" /\ c \in Errands(c.host)
      BY <2>3 DEF Awaited, Errands
    <3>. QED
      BY <2>4, <3>1 DEF OneAtATime, Orderly
  <2>6. Stands(round[a.host].id, a.token, a.sent + Ttl)'
    <3>1. entries'[c.id] # None => entries'[c.id].expires \in Nat
      <4>1. RegInv'
        BY <2>2, RegInvStep DEF Next
      <4>. QED
        BY <2>4, <4>1 DEF RegInv, TypeOK, Entry
    <3>2. /\ entries'[c.id] # None /\ entries'[c.id].token = a.token
          /\ entries'[c.id].expires >= now + Ttl
      BY <2>3, <2>4 DEF Stands
    <3>3. entries'[c.id].expires >= a.sent + Ttl
      BY <1>0, <2>3, <2>4, <3>1, <3>2
    <3>. QED
      BY <2>3, <2>4, <2>5, <3>2, <3>3 DEF Stands
  <2>7. ASSUME NEW d \in calls', d.op = "refresh" PROVE d.token # a.token
    <3>1. d.token \in 1 .. Len(owner) /\ Len(owner) \in Nat
      BY <1>0, <2>4, <2>7, LenProperties DEF Owns, RegInv, TypeOK
    <3>. QED
      BY <2>3, <3>1
  <2>. QED
    BY <2>6, <2>7
<1>. QED
  BY <1>1, <1>2

(* The registration of a host that serves is not about to be given back.   *)
LEMMA ServedKept ==
    ASSUME RegInv, OneAtATime, InTimeStep, NEW h \in Hosts, round[h].pc = "serve",
           NEW t \in Nat, t > now, Stands(round[h].id, round[h].token, t),
           round'[h].id = round[h].id, round'[h].token = round[h].token
    PROVE  Stands(round[h].id, round[h].token, t)'
<1>1. /\ Owns(h, round[h].token) /\ round[h].id \in Ids /\ round[h].token \in Nat
      /\ \A c \in calls : c.op # "register" => Owns(c.host, c.token)
  BY DEF RegInv, Owned, RoundsOwned, CallsOwned, TypeOK, Round
<1>2. \A c \in calls : c.op = "unregister" => c.token # round[h].token
  <2>. SUFFICES ASSUME NEW c \in calls, c.op = "unregister", c.token = round[h].token
                PROVE  FALSE
    OBVIOUS
  <2>1. c.host = h
    BY <1>1 DEF Owns
  <2>2. c \in Errands(h)
    BY <2>1 DEF Errands
  <2>. QED
    BY <2>2 DEF OneAtATime, Orderly
<1>3. PICK id \in Ids, k \in Nat : id = round[h].id /\ k = round[h].token
  BY <1>1
<1>4. Stands(id, k, t)'
  BY <1>2, <1>3, StandsKept
<1>. QED
  BY <1>3, <1>4 DEF Stands

(* Standing until t is standing until any moment before.                   *)
LEMMA StandsLess ==
    ASSUME NEW id \in Ids, NEW k \in Nat, NEW t \in Nat, NEW u \in Nat, u =< t,
           RegInv, Stands(id, k, t)
    PROVE  Stands(id, k, u)
<1>1. entries[id].expires \in Nat
  BY DEF RegInv, TypeOK, Stands, Entry
<1>. QED
  BY <1>1 DEF Stands

(* A step in which h takes no part, and no call of its task is handled.    *)
LEMMA ServedElsewhere ==
    ASSUME Timely, RegInv, Prompt, OneAtATime, InTimeStep, NEW h \in Hosts, ServedHost(h),
           round'[h] = round[h], task'[h] = task[h],
           \A m \in Refreshes(h)' : /\ m \in Refreshes(h)
                                    /\ m \in calls' => m \in calls
                                    /\ m \in answers' => m \in answers
    PROVE  ServedHost(h)'
<1>. SUFFICES ASSUME round[h].pc = "serve" PROVE ServedHost(h)'
  BY DEF ServedHost
<1>0. /\ now \in Nat /\ Delay \in Nat /\ Ttl \in Nat /\ Delay < Ttl /\ task[h].due \in Nat
      /\ \A m \in calls \cup answers : m.sent \in Nat
  BY Margins DEF Timely, RegInv, TypeOK, Call, Reply, Task
<1>1. ASSUME NEW t \in Nat, t > now, Stands(round[h].id, round[h].token, t)
      PROVE  Stands(round[h].id, round[h].token, t)'
  BY <1>1, ServedKept
<1>2. ASSUME task[h].pc = "wait"
      PROVE  Stands(round[h].id, round[h].token, task[h].due + Delay + 1)'
  <2>1. now =< task[h].due
    BY <1>2 DEF Prompt
  <2>2. PICK t \in Nat : t = task[h].due + Delay + 1
    BY <1>0
  <2>3. t > now
    BY <1>0, <2>1, <2>2
  <2>4. Stands(round[h].id, round[h].token, t)
    BY <1>2, <2>2 DEF ServedHost
  <2>5. Stands(round[h].id, round[h].token, t)'
    BY <1>1, <2>3, <2>4
  <2>. QED
    BY <2>2, <2>5 DEF Stands
<1>3. ASSUME NEW m \in Refreshes(h)', m \in calls'
      PROVE  Stands(round[h].id, round[h].token, m.sent + Delay + 1)'
  <2>1. m \in calls /\ m \in Refreshes(h) /\ now =< m.sent + Delay
    BY <1>3 DEF Prompt
  <2>2. PICK t \in Nat : t = m.sent + Delay + 1
    BY <1>0, <2>1
  <2>3. t > now
    BY <1>0, <2>1, <2>2
  <2>4. Stands(round[h].id, round[h].token, t)
    BY <2>1, <2>2 DEF ServedHost
  <2>5. Stands(round[h].id, round[h].token, t)'
    BY <1>1, <2>3, <2>4
  <2>. QED
    BY <2>2, <2>5 DEF Stands
<1>4. ASSUME NEW m \in Refreshes(h)', m \in answers'
      PROVE  Stands(round[h].id, round[h].token, m.sent + Ttl)'
  <2>1. m \in answers /\ m \in Refreshes(h) /\ now =< m.sent + Delay
    BY <1>4 DEF Prompt
  <2>2. PICK t \in Nat : t = m.sent + Ttl
    BY <1>0, <2>1
  <2>3. t > now
    BY <1>0, <2>1, <2>2
  <2>4. Stands(round[h].id, round[h].token, t)
    BY <2>1, <2>2 DEF ServedHost
  <2>5. Stands(round[h].id, round[h].token, t)'
    BY <1>1, <2>3, <2>4
  <2>. QED
    BY <2>2, <2>5 DEF Stands
<1>. QED
  BY <1>2, <1>3, <1>4 DEF ServedHost

(* A host hears of its registration, sends a refresh, has it handled and   *)
(* hears of that: after each of these steps the entry lasts until the next *)
(* of them.                                                                *)
LEMMA ServedStep ==
    ASSUME Timely, RegInv, Prompt, OneAtATime, TaskInStep, Granted, Served, InTimeStep,
           [Next]_vars, TaskInStep'
    PROVE  Served'
<1>0. /\ now \in Nat /\ Delay \in Nat /\ Ttl \in Nat /\ Period \in Nat
      /\ Period + Delay < Ttl /\ Delay + Delay < Ttl
      /\ \A m \in calls \cup answers : m.sent \in Nat /\ m.host \in Hosts
      /\ \A c \in Call : c \notin Reply
      /\ calls \subseteq Call /\ answers \subseteq Reply
      /\ \A g \in Hosts : /\ round[g].id \in Ids /\ round[g].token \in Nat
                          /\ task[g].pc \in {"none", "wait", "call"} /\ task[g].due \in Nat
  BY Margins, CallsAreNoReplies DEF Timely, RegInv, TypeOK, Call, Reply, Task, Round
<1>1. SUFFICES ASSUME NEW h \in Hosts PROVE ServedHost(h)'
  BY DEF Served, ServedHost
<1>2. ServedHost(h)
  BY DEF Served, ServedHost
<1>3. ASSUME round'[h].pc # "serve" PROVE ServedHost(h)'
  BY <1>3 DEF ServedHost
<1>4. ASSUME NEW c \in calls, Register(c) \/ Refresh(c) \/ Unregister(c)
      PROVE  ServedHost(h)'
  <2>. SUFFICES ASSUME round'[h].pc = "serve" PROVE ServedHost(h)'
    BY <1>3
  <2>1. PICK k \in Nat : Handled(c, k)
    BY <1>4, HandledCall
  <2>2. /\ calls' = calls \ {c} /\ round' = round /\ task' = task
    BY <2>1 DEF Handled
  <2>3. CASE c.op = "refresh" /\ c.host = h /\ c.token = task[h].token
    <3>1. c \in Refreshes(h)
      BY <2>3 DEF Refreshes
    <3>2. /\ task[h].pc = "call" /\ Refreshes(h) = {c} /\ c.id = task[h].id
      BY <1>0, <1>2, <2>2, <3>1 DEF ServedHost, TaskInStep, InStep
    <3>3. PICK r \in Reply : /\ r.op = c.op /\ r.host = c.host /\ r.sent = c.sent
                             /\ answers' = answers \cup {r}
      BY <2>1, <2>3, <3>2, HandledAnswers DEF Awaited
    <3>4. Refreshes(h)' = {r} /\ r \notin calls'
      <4>1. task'[h].pc = "call" /\ r \in Refreshes(h)'
        BY <2>2, <2>3, <3>2, <3>3 DEF Refreshes
      <4>2. \A m, n \in Refreshes(h)' : m = n
        BY <4>1 DEF TaskInStep, InStep
      <4>. QED
        BY <1>0, <2>2, <3>3, <4>1, <4>2
    <3>5. Refresh(c)
      BY <1>4, <2>3 DEF Register, Unregister
    <3>6. PICK t \in Nat : t = c.sent + Delay + 1
      BY <1>0
    <3>7. c.id = round[h].id /\ c.token = round[h].token /\ Stands(c.id, c.token, t)
      BY <1>2, <2>2, <2>3, <3>1, <3>2, <3>6 DEF ServedHost
    <3>8. c.sent =< now /\ now =< c.sent + Delay /\ t > now
      BY <1>0, <3>6 DEF Prompt
    <3>9. Stands(c.id, c.token, now + Ttl)'
      BY <3>5, <3>7, <3>8, RenewalStands
    <3>10. Stands(c.id, c.token, c.sent + Ttl)'
      <4>1. RegInv' /\ now' = now
        BY <3>5, RegInvStep DEF Refresh
      <4>2. c.id \in Ids
        BY <1>0 DEF Call
      <4>3. /\ entries'[c.id] # None /\ entries'[c.id].token = c.token
            /\ entries'[c.id].expires >= now + Ttl
        BY <3>9, <4>1 DEF Stands
      <4>4. entries'[c.id].expires \in Nat
        BY <4>1, <4>2, <4>3 DEF RegInv, TypeOK, Entry
      <4>5. entries'[c.id].expires >= c.sent + Ttl
        BY <1>0, <3>8, <4>3, <4>4
      <4>. QED
        BY <4>3, <4>5 DEF Stands
    <3>11. Stands(round[h].id, round[h].token, r.sent + Ttl)'
      BY <2>2, <3>3, <3>7, <3>10 DEF Stands
    <3>. QED
      BY <1>2, <2>2, <3>2, <3>4, <3>11 DEF ServedHost
  <2>4. CASE ~(c.op = "refresh" /\ c.host = h /\ c.token = task[h].token)
    <3>1. \A m \in Refreshes(h)' : /\ m \in Refreshes(h)
                                   /\ m \in calls' => m \in calls
                                   /\ m \in answers' => m \in answers
      <4>1. CASE answers' = answers
        BY <2>2, <4>1 DEF Refreshes
      <4>2. ASSUME Awaited(c), NEW r \in Reply, r.op = c.op, r.host = c.host,
                   answers' = answers \cup {r}
            PROVE  \A m \in Refreshes(h)' : /\ m \in Refreshes(h)
                                            /\ m \in calls' => m \in calls
                                            /\ m \in answers' => m \in answers
        <5>1. ~(r.op = "refresh" /\ r.host = h)
          BY <2>4, <4>2 DEF Awaited
        <5>2. r \notin calls'
          BY <1>0, <2>2, <4>2
        <5>. QED
          BY <2>2, <4>2, <5>1, <5>2 DEF Refreshes
      <4>. QED
        BY <2>1, <4>1, <4>2, HandledAnswers
    <3>. QED
      BY <1>2, <2>2, <3>1, ServedElsewhere
  <2>. QED
    BY <2>3, <2>4
<1>5. ASSUME NEW a \in answers, RegisterAnswered(a) PROVE ServedHost(h)'
  <2>1. a.op = "register" /\ answers' = answers \ {a} /\ calls' = calls
    BY <1>5, RegisterAnsweredEffect
  <2>2. CASE h # a.host
    BY <1>2, <1>5, <2>1, <2>2, RegisterAnsweredEffect, ServedElsewhere DEF Refreshes
  <2>3. CASE h = a.host /\ a.token = 0
    BY <1>3, <1>5, <2>3, RegisterAnsweredEffect
  <2>4. CASE h = a.host /\ a.token # 0
    <3>1. /\ round'[h].pc = "serve" /\ round'[h].token = a.token /\ round'[h].id = round[h].id
          /\ task'[h] = [pc |-> "wait", id |-> round[h].id, token |-> a.token, due |-> now]
          /\ entries' = entries
      BY <1>5, <2>4, RegisterAnsweredEffect DEF RegisterAnswered, serverVars
    <3>2. /\ task'[h].pc = "wait" /\ task'[h].id = round[h].id /\ task'[h].token = a.token
          /\ task'[h].due = now
      BY <3>1
    <3>3. Refreshes(h)' = {}
      BY <3>2 DEF TaskInStep, InStep
    <3>4. Stands(round[h].id, a.token, a.sent + Ttl) /\ now =< a.sent + Delay
      BY <2>1, <2>4 DEF Granted, Prompt
    <3>5. a.token \in Nat /\ now + Delay + 1 \in Nat /\ a.sent + Ttl \in Nat
      BY <1>0 DEF Reply
    <3>6. now + Delay + 1 =< a.sent + Ttl
      BY <1>0, <3>4
    <3>7. Stands(round[h].id, a.token, now + Delay + 1)
      BY <1>0, <3>4, <3>5, <3>6, StandsLess
    <3>8. Stands(round[h].id, round[h].token, task[h].due + Delay + 1)'
      BY <3>1, <3>2, <3>7 DEF Stands
    <3>. QED
      BY <3>1, <3>2, <3>3, <3>8 DEF ServedHost
  <2>. QED
    BY <2>2, <2>3, <2>4
<1>6. ASSUME NEW a \in answers, RefreshAnswered(a) PROVE ServedHost(h)'
  <2>1. a.op = "refresh" /\ answers' = answers \ {a} /\ calls' = calls /\ round' = round
    BY <1>6, RefreshAnsweredEffect
  <2>2. CASE h # a.host
    BY <1>2, <1>6, <2>1, <2>2, RefreshAnsweredEffect, ServedElsewhere DEF Refreshes
  <2>3. CASE h = a.host
    <3>. SUFFICES ASSUME round'[h].pc = "serve" PROVE ServedHost(h)'
      BY <1>3
    <3>1. a \in Refreshes(h) /\ task[h].pc # "none"
      BY <2>1, <2>3 DEF Refreshes, RegInv, Owned, TasksAwait
    <3>2. task[h].pc = "call"
      BY <1>0, <3>1 DEF TaskInStep, InStep
    <3>3. a.sent + Period = task[h].due
      BY <3>1, <3>2 DEF TaskInStep, InStep
    <3>4. /\ task'[h].pc = "wait" /\ task'[h].token = task[h].token
          /\ task'[h].id = task[h].id /\ task'[h].due = task[h].due /\ entries' = entries
      BY <1>6, <2>3, RefreshAnsweredEffect DEF RefreshAnswered, serverVars
    <3>5. Refreshes(h)' = {}
      BY <3>4 DEF TaskInStep, InStep
    <3>6. Stands(round[h].id, round[h].token, a.sent + Ttl)
      BY <1>2, <2>1, <3>1 DEF ServedHost
    <3>7. a.sent + Ttl \in Nat /\ task[h].due + Delay + 1 \in Nat
      BY <1>0
    <3>8. task[h].due + Delay + 1 =< a.sent + Ttl
      BY <1>0, <3>3
    <3>9. Stands(round[h].id, round[h].token, task[h].due + Delay + 1)
      BY <1>0, <3>6, <3>7, <3>8, StandsLess
    <3>10. Stands(round[h].id, round[h].token, task[h].due + Delay + 1)'
      BY <2>1, <3>4, <3>9 DEF Stands
    <3>. QED
      BY <1>2, <2>1, <3>4, <3>5, <3>10 DEF ServedHost
  <2>. QED
    BY <2>2, <2>3
<1>7. ASSUME NEW a \in answers, UnregisterAnswered(a) PROVE ServedHost(h)'
  <2>1. /\ a.op = "unregister" /\ answers' = answers \ {a} /\ calls' = calls /\ task' = task
    BY <1>7, UnregisterAnsweredEffect
  <2>2. CASE h # a.host
    BY <1>2, <1>7, <2>1, <2>2, UnregisterAnsweredEffect, ServedElsewhere DEF Refreshes
  <2>3. CASE h = a.host
    BY <1>3, <1>7, <2>3, UnregisterAnsweredEffect
  <2>. QED
    BY <2>2, <2>3
<1>8. ASSUME NEW g \in Hosts, NEW id \in Ids, BeginRound(g, id) PROVE ServedHost(h)'
  <2>1. PICK n \in Call : n.op = "register" /\ calls' = calls \cup {n}
    BY <1>8, BeginRoundEffect
  <2>2. /\ answers' = answers /\ task' = task /\ round'[g].pc = "register"
        /\ \A f \in Hosts \ {g} : round'[f] = round[f]
    BY <1>8, BeginRoundEffect
  <2>3. CASE h = g
    BY <1>3, <2>2, <2>3
  <2>4. CASE h # g
    BY <1>2, <2>1, <2>2, <2>4, ServedElsewhere DEF Refreshes
  <2>. QED
    BY <2>3, <2>4
<1>9. ASSUME NEW g \in Hosts, EndRound(g) \/ Die(g) \/ CodeNotTaken(g) PROVE ServedHost(h)'
  <2>1. CASE h = g
    <3>1. round'[h].pc # "serve"
      BY <1>9, <2>1, EndRoundEffect, DieEffect, CodeNotTakenEffect
    <3>. QED
      BY <1>3, <3>1
  <2>2. CASE h # g
    <3>1. /\ answers' \subseteq answers /\ round'[h] = round[h] /\ task'[h] = task[h]
      BY <1>9, <2>2, EndRoundEffect, DieEffect, CodeNotTakenEffect
    <3>2. \A c \in calls' : c.op = "refresh" => c \in calls
      BY <1>9, EndRoundEffect, DieEffect, CodeNotTakenEffect
    <3>3. \A m \in Refreshes(h)' : /\ m \in Refreshes(h)
                                   /\ m \in calls' => m \in calls
                                   /\ m \in answers' => m \in answers
      BY <3>1, <3>2 DEF Refreshes
    <3>. QED
      BY <1>2, <3>1, <3>3, ServedElsewhere
  <2>. QED
    BY <2>1, <2>2
<1>10. ASSUME NEW g \in Hosts, RefreshTick(g) PROVE ServedHost(h)'
  <2>1. PICK n \in Call : /\ n.op = "refresh" /\ n.host = g /\ n.token = task[g].token
                          /\ n.sent = now /\ calls' = calls \cup {n}
    BY <1>10, RefreshTickEffect
  <2>2. /\ answers' = answers /\ round' = round /\ entries' = entries
        /\ \A f \in Hosts \ {g} : task'[f] = task[f]
        /\ task[g].pc = "wait" /\ task[g].due =< now
        /\ task'[g].pc = "call" /\ task'[g].id = task[g].id /\ task'[g].token = task[g].token
    BY <1>10, RefreshTickEffect DEF RefreshTick, serverVars
  <2>3. CASE h = g
    <3>. SUFFICES ASSUME round'[h].pc = "serve" PROVE ServedHost(h)'
      BY <1>3
    <3>1. task[h].due = now
      <4>1. now =< task[h].due
        BY <2>2, <2>3 DEF Prompt
      <4>. QED
        BY <1>0, <2>2, <2>3, <4>1
    <3>2. n \in Refreshes(h)' /\ \A l, m \in Refreshes(h)' : l = m
      BY <2>1, <2>2, <2>3 DEF Refreshes, TaskInStep, InStep
    <3>3. Refreshes(h)' = {n}
      BY <3>2
    <3>4. Stands(round[h].id, round[h].token, n.sent + Delay + 1)
      BY <1>2, <2>1, <2>2, <2>3, <3>1 DEF ServedHost
    <3>5. Stands(round[h].id, round[h].token, n.sent + Delay + 1)'
      BY <2>2, <3>4 DEF Stands
    <3>6. n \notin answers'
      BY <1>0, <2>1, <2>2
    <3>. QED
      BY <1>2, <2>2, <2>3, <3>3, <3>5, <3>6 DEF ServedHost
  <2>4. CASE h # g
    BY <1>2, <2>1, <2>2, <2>4, ServedElsewhere DEF Refreshes
  <2>. QED
    BY <2>3, <2>4
<1>11. CASE UNCHANGED <<calls, answers, round, task>>
  BY <1>2, <1>11, ServedElsewhere DEF Refreshes
<1>12. CASE \E c \in calls : Register(c) \/ Refresh(c) \/ Unregister(c)
  BY <1>4, <1>12
<1>. QED
  BY <1>5, <1>6, <1>7, <1>8, <1>9, <1>10, <1>11, <1>12
     DEF InTimeStep, Tick, networkVars, hostVars

-----------------------------------------------------------------------------
(* TimelyInv is inductive. *)

(* Nothing is under way at first.                                          *)
LEMMA TimelyInit == ASSUME Init PROVE TimelyInv
<1>1. PICK id \in Ids :
         /\ round = [h \in Hosts |-> [pc |-> "idle", id |-> id, token |-> 0]]
         /\ task = [h \in Hosts |-> [pc |-> "none", id |-> id, token |-> 0, due |-> 0]]
  BY DEF Init
<1>2. \A h \in Hosts : round[h].pc = "idle" /\ task[h].pc = "none"
  BY <1>1
<1>3. calls = {} /\ answers = {}
  BY DEF Init
<1>. QED
  BY <1>2, <1>3 DEF TimelyInv, Prompt, OneAtATime, Orderly, Errands, TaskInStep, InStep,
       Granted, Served, ServedHost, Refreshes

(* The five parts carry each other.                                        *)
LEMMA TimelyStep ==
    ASSUME Timely, RegInv, TimelyInv, [Next]_vars
    PROVE  TimelyInv'
<1>. SUFFICES ASSUME InTime' PROVE (Prompt /\ OneAtATime /\ TaskInStep /\ Granted /\ Served)'
  BY DEF TimelyInv
<1>1. InTime /\ InTimeStep
  BY InTimeCases
<1>2. Prompt /\ OneAtATime /\ TaskInStep /\ Granted /\ Served
  BY <1>1 DEF TimelyInv
<1>3. TaskInStep'
  BY <1>1, <1>2, TaskInStepStep
<1>. QED
  BY <1>1, <1>2, <1>3, PromptStep, OneAtATimeStep, GrantedStep, ServedStep

(* An entry that stands until after now is one a viewer finds.             *)
LEMMA TimelyFinds ==
    ASSUME Timely, RegInv, TimelyInv
    PROVE  TimelyHostIsFound
<1>. SUFFICES ASSUME InTime, NEW h \in Hosts, round[h].pc = "serve" PROVE Resolves(h)
  BY DEF TimelyHostIsFound, InTime
<1>1. Prompt /\ TaskInStep /\ Served
  BY DEF TimelyInv
<1>2. /\ now \in Nat /\ Delay \in Nat /\ Ttl \in Nat /\ Delay < Ttl
      /\ \A m \in calls \cup answers : m.sent \in Nat
      /\ task[h].pc \in {"none", "wait", "call"} /\ task[h].due \in Nat
      /\ round[h].id \in Ids /\ round[h].token \in Nat
  BY Margins DEF Timely, RegInv, TypeOK, Call, Reply, Task, Round
<1>3. ASSUME NEW t \in Nat, t > now, Stands(round[h].id, round[h].token, t)
      PROVE  Resolves(h)
  <2>1. entries[round[h].id].expires \in Nat
    BY <1>2, <1>3 DEF Stands, RegInv, TypeOK, Entry
  <2>2. Live(entries[round[h].id])
    BY <1>2, <1>3, <2>1 DEF Stands, Live
  <2>3. Purged[round[h].id] = entries[round[h].id]
    BY <1>2, <2>2 DEF Purged
  <2>. QED
    BY <1>3, <2>3 DEF Stands, Resolves
<1>4. CASE task[h].pc = "wait"
  <2>1. /\ Stands(round[h].id, round[h].token, task[h].due + Delay + 1)
        /\ now =< task[h].due
    BY <1>1, <1>4 DEF Served, ServedHost, Prompt
  <2>2. task[h].due + Delay + 1 \in Nat /\ task[h].due + Delay + 1 > now
    BY <1>2, <2>1
  <2>. QED
    BY <1>3, <2>1, <2>2
<1>5. CASE task[h].pc = "call"
  <2>1. PICK m \in Refreshes(h) : TRUE
    BY <1>1, <1>5 DEF TaskInStep, InStep
  <2>2. m \in calls \cup answers
    BY DEF Refreshes
  <2>3. m.sent \in Nat /\ now =< m.sent + Delay
    BY <1>1, <1>2, <2>2 DEF Prompt
  <2>4. CASE m \in calls
    <3>1. Stands(round[h].id, round[h].token, m.sent + Delay + 1)
      BY <1>1, <2>4 DEF Served, ServedHost
    <3>2. m.sent + Delay + 1 \in Nat /\ m.sent + Delay + 1 > now
      BY <1>2, <2>3
    <3>. QED
      BY <1>3, <3>1, <3>2
  <2>5. CASE m \in answers
    <3>1. Stands(round[h].id, round[h].token, m.sent + Ttl)
      BY <1>1, <2>5 DEF Served, ServedHost
    <3>2. m.sent + Ttl \in Nat /\ m.sent + Ttl > now
      BY <1>2, <2>3
    <3>. QED
      BY <1>3, <3>1, <3>2
  <2>. QED
    BY <2>2, <2>4, <2>5
<1>. QED
  BY <1>1, <1>2, <1>4, <1>5 DEF Served, ServedHost

(* As long as nothing is lost and every call is answered within Delay, the *)
(* code a host shows can be resolved, whatever hosts, ids and TTL, if the  *)
(* refresh that comes a period after the last one is handled before the    *)
(* TTL of that one is over.                                                *)
THEOREM TimelyHostsAreFound == ASSUME Timely PROVE Spec => []TimelyHostIsFound
<1>1. Init => TimelyInv
  BY TimelyInit
<1>2. RegInv /\ TimelyInv /\ [Next]_vars => TimelyInv'
  BY TimelyStep
<1>3. RegInv /\ TimelyInv => TimelyHostIsFound
  BY TimelyFinds
<1>. QED
  BY <1>1, <1>2, <1>3, RegistrationInvariant, PTL DEF Spec
=============================================================================
