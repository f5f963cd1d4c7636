------------------------- MODULE NodeServicesProofs -------------------------
(***************************************************************************)
(* Proofs about two services of a node.  The gateway client neither loses, *)
(* doubles nor reorders the results of a connection, for every capacity of *)
(* its channel and every order in which frames, heartbeats and failures    *)
(* come.  A deployment keeps its replicas when new ones cannot be started, *)
(* and its records are true, for every number of deployments, of replicas  *)
(* and of faults.                                                          *)
(***************************************************************************)
EXTENDS GatewayClient, Deployments, Integers, SequenceTheorems, TLAPS

(***************************************************************************)
(* Lemmas about sequences of which one is what remains of the other.       *)
(***************************************************************************)

\* Nothing remains of nothing.
LEMMA NothingRemains == remains(<<>>, <<>>)
<1> DEFINE place == [i \in DOMAIN <<>> |-> i]
<1>1. DOMAIN <<>> = {}
  OBVIOUS
<1>2. place \in [DOMAIN <<>> -> DOMAIN <<>>]
  OBVIOUS
<1> QED BY <1>1, <1>2, Zenon DEF remains

\* handle_invoke: an invoke that is added to both remains.
LEMMA InvokeAdded ==
    ASSUME NEW r \in Seq(Invokes), NEW s \in Seq(Outgoing), NEW x \in Invokes, remains(r, s)
    PROVE  remains(Append(r, x), Append(s, x))
<1> DEFINE r1 == Append(r, x)
           s1 == Append(s, x)
<1>1. PICK place \in [DOMAIN r -> DOMAIN s] :
        /\ \A i \in DOMAIN r : s[place[i]] = r[i]
        /\ \A i, j \in DOMAIN r : i < j => place[i] < place[j]
        /\ \A p \in DOMAIN s : s[p] \in Invokes => \E i \in DOMAIN r : place[i] = p
  BY DEF remains
<1>2. /\ Len(r) \in Nat /\ DOMAIN r = 1 .. Len(r) /\ DOMAIN r1 = 1 .. (Len(r) + 1)
      /\ Len(s) \in Nat /\ DOMAIN s = 1 .. Len(s) /\ DOMAIN s1 = 1 .. (Len(s) + 1)
  BY DEF Outgoing
<1>3. /\ \A i \in 1 .. Len(r) : r1[i] = r[i]
      /\ \A p \in 1 .. Len(s) : s1[p] = s[p]
      /\ r1[Len(r) + 1] = x /\ s1[Len(s) + 1] = x
  BY DEF Outgoing
<1> DEFINE there == [i \in 1 .. (Len(r) + 1) |-> IF i = Len(r) + 1 THEN Len(s) + 1 ELSE place[i]]
<1> HIDE DEF r1, s1
<1>4. \A i \in 1 .. Len(r) : there[i] = place[i] /\ there[i] \in 1 .. Len(s)
  BY <1>1, <1>2
<1>5. there[Len(r) + 1] = Len(s) + 1
  BY <1>2
<1>6. there \in [DOMAIN r1 -> DOMAIN s1]
  BY <1>2, <1>4
<1> HIDE DEF there
<1>7. \A i \in DOMAIN r1 : s1[there[i]] = r1[i]
  BY <1>1, <1>2, <1>3, <1>4, <1>5
<1>8. \A i, j \in DOMAIN r1 : i < j => there[i] < there[j]
  BY <1>1, <1>2, <1>4, <1>5
<1>9. \A p \in DOMAIN s1 : s1[p] \in Invokes => \E i \in DOMAIN r1 : there[i] = p
  <2> SUFFICES ASSUME NEW p \in DOMAIN s1, s1[p] \in Invokes PROVE \E i \in DOMAIN r1 : there[i] = p
    OBVIOUS
  <2>1. CASE p = Len(s) + 1
    BY <1>2, <1>5, <2>1
  <2>2. CASE p \in 1 .. Len(s)
    <3>1. PICK i \in DOMAIN r : place[i] = p
      BY <1>1, <1>2, <1>3, <2>2
    <3> QED BY <1>2, <1>4, <3>1
  <2> QED BY <1>2, <2>1, <2>2
<1>10. remains(r1, s1)
  BY <1>6, <1>7, <1>8, <1>9 DEF remains
<1> QED BY <1>10 DEF r1, s1

\* heartbeat: what is no invoke does not remain.
LEMMA OtherAdded ==
    ASSUME NEW r \in Seq(Invokes), NEW s \in Seq(Outgoing), NEW x \in Outgoing, x \notin Invokes,
           remains(r, s)
    PROVE  remains(r, Append(s, x))
<1> DEFINE s1 == Append(s, x)
<1>1. PICK place \in [DOMAIN r -> DOMAIN s] :
        /\ \A i \in DOMAIN r : s[place[i]] = r[i]
        /\ \A i, j \in DOMAIN r : i < j => place[i] < place[j]
        /\ \A p \in DOMAIN s : s[p] \in Invokes => \E i \in DOMAIN r : place[i] = p
  BY DEF remains
<1>2. Len(s) \in Nat /\ DOMAIN s = 1 .. Len(s) /\ DOMAIN s1 = 1 .. (Len(s) + 1)
  OBVIOUS
<1>3. (\A p \in 1 .. Len(s) : s1[p] = s[p]) /\ s1[Len(s) + 1] = x
  OBVIOUS
<1> HIDE DEF s1
<1>4. place \in [DOMAIN r -> DOMAIN s1]
  BY <1>2
<1>5. \A i \in DOMAIN r : s1[place[i]] = r[i]
  BY <1>1, <1>2, <1>3
<1>6. \A p \in DOMAIN s1 : s1[p] \in Invokes => \E i \in DOMAIN r : place[i] = p
  BY <1>1, <1>2, <1>3
<1>7. remains(r, s1)
  BY <1>1, <1>4, <1>5, <1>6, Zenon DEF remains
<1> QED BY <1>7 DEF s1

\* write_one with a heartbeat: s without its k-th, which is no invoke.
LEMMA OtherTaken ==
    ASSUME NEW r \in Seq(Invokes), NEW s \in Seq(Outgoing), NEW k \in 1 .. Len(s),
           s[k] \notin Invokes, remains(r, s), NEW t \in Seq(Outgoing), Len(t) = Len(s) - 1,
           \A p \in 1 .. Len(t) : t[p] = IF p < k THEN s[p] ELSE s[p + 1]
    PROVE  remains(r, t)
<1>1. PICK place \in [DOMAIN r -> DOMAIN s] :
        /\ \A i \in DOMAIN r : s[place[i]] = r[i]
        /\ \A i, j \in DOMAIN r : i < j => place[i] < place[j]
        /\ \A p \in DOMAIN s : s[p] \in Invokes => \E i \in DOMAIN r : place[i] = p
  BY DEF remains
<1>2. /\ Len(s) \in Nat /\ DOMAIN s = 1 .. Len(s)
      /\ Len(t) \in Nat /\ DOMAIN t = 1 .. (Len(s) - 1)
  OBVIOUS
<1>3. \A i \in DOMAIN r : r[i] \in Invokes /\ place[i] \in 1 .. Len(s) /\ place[i] # k
  BY <1>1, <1>2
<1> DEFINE there == [i \in DOMAIN r |-> IF place[i] < k THEN place[i] ELSE place[i] - 1]
<1>4. \A i \in DOMAIN r : there[i] \in 1 .. (Len(s) - 1)
  BY <1>2, <1>3
<1>5. there \in [DOMAIN r -> DOMAIN t]
  BY <1>2, <1>4
<1>6. \A i \in DOMAIN r : t[there[i]] = r[i]
  BY <1>1, <1>2, <1>3, <1>4
<1>7. \A i, j \in DOMAIN r : i < j => there[i] < there[j]
  BY <1>1, <1>3
<1>8. \A i \in DOMAIN r : there[i] = IF place[i] < k THEN place[i] ELSE place[i] - 1
  OBVIOUS
<1> HIDE DEF there
<1>9. \A p \in DOMAIN t : t[p] \in Invokes => \E i \in DOMAIN r : there[i] = p
  <2> SUFFICES ASSUME NEW p \in DOMAIN t, t[p] \in Invokes PROVE \E i \in DOMAIN r : there[i] = p
    OBVIOUS
  <2>1. CASE p < k
    <3>1. p \in DOMAIN s /\ s[p] = t[p]
      BY <1>2, <2>1
    <3>2. PICK i \in DOMAIN r : place[i] = p
      BY <1>1, <3>1
    <3> QED BY <1>8, <2>1, <3>2
  <2>2. CASE p >= k
    <3>1. p + 1 \in DOMAIN s /\ s[p + 1] = t[p] /\ ~(p + 1 < k) /\ (p + 1) - 1 = p
      BY <1>2, <2>2
    <3>2. PICK i \in DOMAIN r : place[i] = p + 1
      BY <1>1, <3>1
    <3> QED BY <1>8, <3>1, <3>2
  <2> QED BY <1>2, <2>1, <2>2
<1> QED BY <1>5, <1>6, <1>7, <1>9, Zenon DEF remains

-----------------------------------------------------------------------------
(***************************************************************************)
(* The gateway client.  The strengthening: outside of the event loop       *)
(* nothing was executed and nothing is on its way.                         *)
(***************************************************************************)
ClientTypes == /\ queue \in Seq(Outgoing) /\ blocked \in Seq(Outgoing)
               /\ ran \in Seq(Invokes) /\ replied \in Seq(Invokes)

OnlyInLoop == phase # "loop" =>
                 ran = <<>> /\ replied = <<>> /\ queue = <<>> /\ blocked = <<>>

ClientInv == ClientTypes /\ OnlyInLoop /\ remains(ran, flow)

\* While nothing waits, what is on its way is what was written and what is queued.
LEMMA NothingBlocked ==
    ASSUME NEW a \in Seq(Invokes), NEW b \in Seq(Outgoing)
    PROVE  a \in Seq(Outgoing) /\ a \o b \in Seq(Outgoing) /\ a \o b \o <<>> = a \o b
<1>1. a \in Seq(Outgoing)
  BY SeqMonotonic DEF Outgoing
<1>2. a \o b \in Seq(Outgoing)
  BY <1>1, ConcatProperties
<1> QED BY <1>1, <1>2, ConcatEmptySeq

\* outgoing_tx.send: in the channel or waiting for it, a frame is the last on its way.
LEMMA Sent ==
    ASSUME ClientTypes, blocked = <<>>, NEW f \in Outgoing, outgoing_send(f), replied' = replied
    PROVE  queue' \in Seq(Outgoing) /\ blocked' \in Seq(Outgoing) /\ flow' = Append(flow, f)
<1>1. /\ replied \in Seq(Outgoing) /\ queue \in Seq(Outgoing) /\ <<f>> \in Seq(Outgoing)
      /\ replied \o queue \in Seq(Outgoing) /\ flow = replied \o queue
  BY NothingBlocked DEF ClientTypes, flow
<1>2. Append(flow, f) = (replied \o queue) \o <<f>>
  BY <1>1, AppendIsConcat
<1>3. CASE Len(queue) < Capacity
  <2>1. queue' = Append(queue, f) /\ blocked' = <<>>
    BY <1>3 DEF outgoing_send
  <2>2. Append(queue, f) \in Seq(Outgoing)
    BY <1>1, AppendProperties
  <2>3. replied \o Append(queue, f) \o <<>> = replied \o Append(queue, f)
    BY <2>2, NothingBlocked DEF ClientTypes
  <2>4. replied \o Append(queue, f) = (replied \o queue) \o <<f>>
    BY <1>1, AppendIsConcat, ConcatAssociative
  <2> QED BY <1>2, <2>1, <2>2, <2>3, <2>4 DEF flow
<1>4. CASE ~(Len(queue) < Capacity)
  BY <1>1, <1>2, <1>4, Zenon DEF outgoing_send, flow
<1> QED BY <1>3, <1>4

\* read_one and heartbeat: what was sent last is the result of what was executed last, or
\* a heartbeat.
LEMMA SendingInv ==
    ASSUME ClientInv, blocked = <<>>, phase' = phase, phase = "loop", replied' = replied,
           NEW f \in Outgoing, outgoing_send(f),
           ran' = IF f \in Invokes THEN Append(ran, f) ELSE ran
    PROVE  ClientInv'
<1>1. /\ queue' \in Seq(Outgoing) /\ blocked' \in Seq(Outgoing) /\ flow' = Append(flow, f)
      /\ flow \in Seq(Outgoing)
  BY Sent, NothingBlocked DEF ClientInv, ClientTypes, flow
<1>2. ClientTypes' /\ OnlyInLoop'
  BY <1>1 DEF ClientInv, ClientTypes, OnlyInLoop
<1>3. remains(ran', Append(flow, f))
  BY <1>1, InvokeAdded, OtherAdded DEF ClientInv, ClientTypes
<1>4. remains(ran', flow')
  BY <1>1, <1>3
<1>5. remains(ran, flow)'
  BY <1>4 DEF remains
<1> QED BY <1>2, <1>5 DEF ClientInv

\* A sequence is its head and its tail.
LEMMA HeadAndTail ==
    ASSUME NEW S, NEW s \in Seq(S), s # <<>>
    PROVE  Head(s) \in S /\ <<Head(s)>> \in Seq(S) /\ Tail(s) \in Seq(S) /\ s = <<Head(s)>> \o Tail(s)
<1>1. Len(s) \in Nat \ {0} /\ 1 \in 1 .. Len(s) /\ Len(s) \in 1 .. Len(s) /\ Head(s) = s[1]
  BY EmptySeq
<1>2. s = SubSeq(s, 1, Len(s)) /\ Tail(s) = SubSeq(s, 2, Len(s))
  BY SubSeqFull, TailIsSubSeq
<1>3. SubSeq(s, 1, Len(s)) = <<s[1]>> \o SubSeq(s, 1 + 1, Len(s))
  BY <1>1, SubSeqRecursiveFirst
<1> QED BY <1>1, <1>2, <1>3, HeadTailProperties

\* write_one: a result moves on, a heartbeat leaves.
LEMMA WriteInv == ASSUME ClientInv, write_one PROVE ClientInv'
<1> DEFINE h == Head(queue)
           t == Tail(queue)
<1>1. /\ blocked = <<>> /\ blocked' = <<>> /\ queue # <<>> /\ queue' = t /\ phase' = phase /\ ran' = ran
      /\ phase = "loop" /\ replied' = IF h \in Invokes THEN Append(replied, h) ELSE replied
  BY DEF write_one, free
<1>2. h \in Outgoing /\ <<h>> \in Seq(Outgoing) /\ t \in Seq(Outgoing) /\ queue = <<h>> \o t
  BY <1>1, HeadAndTail DEF ClientInv, ClientTypes
<1> HIDE DEF h, t
<1>3. ClientTypes' /\ OnlyInLoop'
  BY <1>1, <1>2 DEF ClientInv, ClientTypes, OnlyInLoop
<1>4. replied \in Seq(Outgoing) /\ flow = replied \o queue /\ flow' = replied' \o t
      /\ flow \in Seq(Outgoing)
  BY <1>1, <1>2, <1>3, NothingBlocked DEF ClientInv, ClientTypes, flow
<1>5. CASE h \in Invokes
  <2>1. Append(replied, h) = replied \o <<h>>
    BY <1>2, <1>4, AppendIsConcat
  <2>2. flow' = flow
    BY <1>1, <1>2, <1>4, <1>5, <2>1, ConcatAssociative
  <2> QED BY <1>1, <1>3, <2>2 DEF ClientInv, remains
<1>6. CASE h \notin Invokes
  <2> DEFINE k == Len(replied) + 1
  <2>1. /\ Len(replied) \in Nat /\ Len(t) \in Nat /\ Len(queue) = Len(t) + 1
        /\ queue[1] = h /\ \A i \in 1 .. Len(t) : queue[i + 1] = t[i]
    BY <1>1, <1>2, HeadTailProperties DEF ClientInv, ClientTypes, h, t
  <2>2. /\ Len(replied \o queue) = Len(replied) + Len(queue)
        /\ \A p \in 1 .. (Len(replied) + Len(queue)) : (replied \o queue)[p] =
              IF p <= Len(replied) THEN replied[p] ELSE queue[p - Len(replied)]
    <3>1. queue \in Seq(Outgoing)
      BY DEF ClientInv, ClientTypes
    <3> QED BY <1>4, <3>1, ConcatProperties
  <2>3. /\ Len(flow) = Len(replied) + Len(t) + 1
        /\ \A p \in 1 .. (Len(replied) + Len(t) + 1) :
              flow[p] = IF p <= Len(replied) THEN replied[p] ELSE queue[p - Len(replied)]
    BY <1>4, <2>1, <2>2
  <2>4. /\ replied \o t \in Seq(Outgoing) /\ Len(replied \o t) = Len(replied) + Len(t)
        /\ \A p \in 1 .. (Len(replied) + Len(t)) :
              (replied \o t)[p] = IF p <= Len(replied) THEN replied[p] ELSE t[p - Len(replied)]
    BY <1>2, <1>4, ConcatProperties
  <2>5. k \in 1 .. Len(flow) /\ flow[k] \notin Invokes
    BY <1>6, <2>1, <2>3
  <2>6. ASSUME NEW p \in 1 .. Len(replied \o t)
        PROVE  (replied \o t)[p] = IF p < k THEN flow[p] ELSE flow[p + 1]
    <3>1. CASE p <= Len(replied)
      BY <2>1, <2>3, <2>4, <3>1
    <3>2. CASE p > Len(replied)
      <4>1. p - Len(replied) \in 1 .. Len(t) /\ (p + 1) - Len(replied) = (p - Len(replied)) + 1
        BY <2>1, <2>4, <3>2
      <4>2. (replied \o t)[p] = t[p - Len(replied)]
        BY <2>4, <3>2
      <4>3. p + 1 \in 1 .. (Len(replied) + Len(t) + 1) /\ ~(p + 1 <= Len(replied)) /\ ~(p < k)
        BY <2>1, <2>4, <3>2
      <4>4. flow[p + 1] = queue[(p + 1) - Len(replied)]
        BY <2>3, <4>3
      <4> QED BY <2>1, <4>1, <4>2, <4>3, <4>4
    <3> QED BY <2>1, <2>4, <3>1, <3>2
  <2>7. remains(ran, replied \o t)
    <3> HIDE DEF k
    <3>1. Len(replied \o t) = Len(flow) - 1
      BY <2>1, <2>3, <2>4
    <3> QED BY <1>4, <2>4, <2>5, <2>6, <3>1, OtherTaken, Zenon DEF ClientInv, ClientTypes
  <2>8. remains(ran', flow')
    BY <1>1, <1>4, <1>6, <2>7
  <2>9. remains(ran, flow)'
    BY <2>8 DEF remains
  <2> QED BY <1>3, <2>9 DEF ClientInv
<1> QED BY <1>5, <1>6

\* connect() has returned: nothing of the connection is left.
LEMMA DisconnectedInv == ASSUME ClientInv, blocked = <<>>, disconnected PROVE ClientInv'
<1>1. ran' = <<>> /\ replied' = <<>> /\ queue' = <<>> /\ blocked' = <<>>
  BY DEF disconnected
<1>2. <<>> \o <<>> \o <<>> = <<>>
  BY ConcatEmptySeq, EmptySeq
<1>3. remains(ran', flow')
  BY <1>1, <1>2, NothingRemains DEF flow
<1>4. remains(ran, flow)'
  BY <1>3 DEF remains
<1> QED BY <1>1, <1>4 DEF ClientInv, ClientTypes, OnlyInLoop

\* A step that executes, sends and writes nothing and does not leave the event loop.
LEMMA QuietInv ==
    ASSUME ClientInv, UNCHANGED <<queue, blocked, ran, replied>>, phase = "loop" => phase' = "loop"
    PROVE  ClientInv'
<1>1. flow' = flow /\ ran' = ran
  BY DEF flow
<1>2. remains(ran', flow')
  BY <1>1 DEF ClientInv
<1>3. remains(ran, flow)'
  BY <1>2 DEF remains
<1> QED BY <1>3 DEF ClientInv, ClientTypes, OnlyInLoop

\* A new client has executed nothing.
LEMMA ClientInit == Init => ClientInv
<1> SUFFICES ASSUME Init PROVE ClientInv
  OBVIOUS
<1>1. <<>> \o <<>> \o <<>> = <<>>
  BY ConcatEmptySeq, EmptySeq
<1> QED BY <1>1, NothingRemains DEF Init, ClientInv, ClientTypes, OnlyInLoop, flow

\* Every step of the client and of the gateway keeps the invariant.
LEMMA ClientNext == ClientInv /\ [Next]_vars => ClientInv'
<1> SUFFICES ASSUME ClientInv, [Next]_vars PROVE ClientInv'
  OBVIOUS
<1>1. CASE UNCHANGED vars
  BY <1>1, QuietInv DEF vars
<1>2. CASE connect
  BY <1>2, QuietInv DEF connect
<1>3. CASE connection_fails
  BY <1>3, DisconnectedInv DEF connection_fails
<1>4. ASSUME phase # "loop", NEW p, goto(p) PROVE ClientInv'
  BY <1>4, QuietInv DEF goto
<1>5. ASSUME phase # "loop", disconnected PROVE ClientInv'
  BY <1>5, DisconnectedInv DEF ClientInv, OnlyInLoop
<1>6. CASE read_challenge
  BY <1>4, <1>5, <1>6 DEF read_challenge
<1>7. CASE read_hello
  BY <1>4, <1>5, <1>7, QuietInv DEF read_hello
<1>8. CASE read_pairing
  BY <1>4, <1>5, <1>8 DEF read_pairing
<1>9. CASE pairing_times_out
  BY <1>9, QuietInv DEF pairing_times_out
<1>10. CASE write_one
  BY <1>10, WriteInv
<1>11. CASE read_one
  <2>1. blocked = <<>> /\ phase = "loop"
    BY <1>11 DEF read_one, free
  <2>2. CASE Head(inbox) \in Invokes /\ handle_invoke(Head(inbox))
    BY <2>1, <2>2, SendingInv DEF handle_invoke, Outgoing
  <2>3. CASE disconnected
    BY <2>1, <2>3, DisconnectedInv
  <2>4. CASE goto("loop")
    BY <2>1, <2>4, QuietInv DEF goto
  <2> QED BY <1>11, <2>2, <2>3, <2>4 DEF read_one
<1>12. CASE heartbeat
  BY <1>12, HeartbeatAssumption, SendingInv DEF heartbeat, free, Outgoing
<1>13. CASE HeartbeatDue
  BY <1>13, QuietInv DEF HeartbeatDue
<1>14. ASSUME NEW f \in Frames, GatewaySends(f) PROVE ClientInv'
  BY <1>14, QuietInv DEF GatewaySends
<1> QED BY <1>1, <1>2, <1>3, <1>6, <1>7, <1>8, <1>9, <1>10, <1>11, <1>12, <1>13, <1>14 DEF Next

\* GatewayClient (client.rs): for every channel capacity and whatever frames, heartbeats and
\* failures come, no result is lost, doubled or overtaken while a connection lasts.
THEOREM ClientKeepsOrder == Spec => []ResultsInOrder
<1>1. ClientInv => ResultsInOrder
  BY DEF ClientInv, ResultsInOrder
<1> QED BY <1>1, ClientInit, ClientNext, PTL DEF Spec

-----------------------------------------------------------------------------
(***************************************************************************)
(* Deployments: the inductive invariant.                                   *)
(***************************************************************************)

\* A record of the store and a command in progress, without the bounds of the model.
Recorded == [image : Images, previous_image : SUBSET Images, replicas : Nat,
             container_ids : SUBSET Nat, state : {"active", "paused"}, revision : Nat,
             history : Seq([image : Images, replicas : Nat])]

Commands == [kind : Kinds \ {"none"}, name : Names, image : Images, replicas : Nat,
             phase : {"start", "undo", "stop", "save"}, old : SUBSET Nat, started : Seq(Nat)]

Replacing == {"create", "update", "rollback"}

\* A record's revision counts its history, whose last entry is what is deployed; a store
\* holds such records, and so does the file.
RecordHolds(r) == /\ r \in Recorded
                  /\ r.history # <<>>
                  /\ r.revision = Len(r.history)
                  /\ newest(r.history) = [image |-> r.image, replicas |-> r.replicas]

StoreHolds(m) == DOMAIN m \subseteq Names /\ \A n \in DOMAIN m : RecordHolds(m[n])

\* The replicas the command's deployment had when it began.
own == IF op.kind = "create" THEN {} ELSE mem[op.name].container_ids

\* What is known of a command in each of its phases.
CommandHolds == op # Idle => /\ op \in Commands
                             /\ op.kind = "create" <=> op.name \notin DOMAIN mem
                             /\ op.phase \in {"start", "undo"} => op.kind \in Replacing
                             /\ op.phase = "stop" => op.kind \notin {"promote", "pause"}
                             /\ op.phase = "start" => op.old = own
                             /\ op.phase = "stop" => op.old \subseteq own
                             /\ op.phase = "undo" => op.old \subseteq Range(op.started)
                             /\ op.phase = "save" => op.old = {}
                             /\ op.kind \notin Replacing => op.started = <<>>

\* What holds whatever has gone wrong.
StoresHold == StoreHolds(mem) /\ StoreHolds(disk) /\ CommandHolds
              /\ ("save" \notin faults => disk = mem)
              /\ next_id \in Nat \ {0}

\* No command has begun to stop the replicas that n's record lists.
Kept(n) == \/ op = Idle \/ n # op.name
           \/ op.phase \in {"start", "undo"} \/ op.kind \in {"promote", "pause"}

\* No container is listed twice or is both listed and newly started, and each that should
\* still run does.
IdsApart ==
    /\ \A n \in DOMAIN mem : mem[n].container_ids \subseteq 1 .. (next_id - 1)
    /\ \A m, n \in DOMAIN mem : m # n => mem[m].container_ids \cap mem[n].container_ids = {}
    /\ \A n \in DOMAIN mem : Kept(n) => mem[n].container_ids \subseteq DOMAIN containers
    /\ op # Idle => /\ Range(op.started) \subseteq 1 .. (next_id - 1)
                    /\ \A n \in DOMAIN mem : mem[n].container_ids \cap Range(op.started) = {}
                    /\ op.phase # "undo" => Range(op.started) \subseteq DOMAIN containers

\* That is so until a record is lost: a save that fails or a crash loses one.
IdsHold == faults \cap {"save", "crash"} = {} => IdsApart

\* The containers that run when none was lost or left behind: those of the records whose
\* replicas are kept, those still to be removed, and those the command has started.
Held == {c \in 1 .. (next_id - 1) :
            \/ \E n \in DOMAIN mem : Kept(n) /\ c \in mem[n].container_ids
            \/ op # Idle /\ c \in op.old
            \/ op # Idle /\ op.phase # "undo" /\ c \in Range(op.started)}

\* What n's record r describes, what the runtime holds under some ids, and that the containers
\* of s, in the order they were started, are the replicas 0, 1, 2, ... of n.
Described(n, r) == {[name |-> n, index |-> i, image |-> r.image] : i \in 0 .. (r.replicas - 1)}

Found(f, ids) == {f[c] : c \in ids}

Numbered(f, s, n, image) ==
    \A i \in DOMAIN s : f[s[i]] = [name |-> n, index |-> i - 1, image |-> image]

\* While the worst that has happened is a replica that could not be started.
ExactlyHeld ==
    faults \subseteq {"start"} =>
        /\ DOMAIN containers = Held
        /\ \A n \in DOMAIN mem :
              Kept(n) => Found(containers, mem[n].container_ids) = Described(n, mem[n])
        /\ op # Idle /\ op.phase # "undo" => Numbered(containers, op.started, op.name, op.image)
        /\ op # Idle /\ op.phase \in {"stop", "save"} /\ op.kind \in Replacing =>
              Len(op.started) = op.replicas

\* Each part needs the one before it: what runs is exact only because ids are never shared,
\* and ids are apart only because a command knows the record it began with.
DeployInv == StoresHold /\ IdsHold /\ ExactlyHeld

\* What a command that begins finds and leaves: its record tells which replicas it replaces.
LEMMA BeginInv ==
    ASSUME DeployInv, op = Idle, unchanged_store,
           NEW kind \in Kinds \ {"none"}, NEW n \in Names, NEW image \in Images,
           NEW replicas \in Nat, NEW at, NEW old,
           begin(kind, n, image, replicas, at, old),
           kind = "create" <=> n \notin DOMAIN mem,
           \/ at = "start" /\ kind \in Replacing
                /\ old = IF kind = "create" THEN {} ELSE mem[n].container_ids
           \/ at = "save" /\ kind \in {"promote", "pause"} /\ old = {}
           \/ at = "stop" /\ kind = "delete" /\ old = mem[n].container_ids
    PROVE  DeployInv'
<1>1. /\ op'.kind = kind /\ op'.name = n /\ op'.image = image /\ op'.replicas = replicas
      /\ op'.phase = at /\ op'.old = old /\ op'.started = <<>>
  BY DEF begin
<1>2. mem' = mem /\ disk' = disk /\ containers' = containers /\ next_id' = next_id /\ faults' = faults
  BY DEF unchanged_store
<1>3. old \in SUBSET Nat
  <2>1. n \in DOMAIN mem => mem[n] \in Recorded
    BY Zenon DEF DeployInv, StoresHold, StoreHolds, RecordHolds
  <2>2. n \in DOMAIN mem => mem[n].container_ids \in SUBSET Nat
    BY <2>1 DEF Recorded
  <2> QED BY <2>2 DEF Replacing
<1>4. <<>> \in Seq(Nat) /\ Range(<<>>) = {} /\ DOMAIN <<>> = {} /\ Len(<<>>) = 0
  BY DEF Range
<1>5. op' \in Commands /\ op' # Idle
  BY <1>3, <1>4 DEF begin, Commands, Idle, Kinds
<1>6. own' = IF kind = "create" THEN {} ELSE mem[n].container_ids
  BY <1>1, <1>2 DEF own
<1>7. StoresHold'
  BY <1>1, <1>2, <1>5, <1>6 DEF DeployInv, StoresHold, StoreHolds, CommandHolds
<1>8. Range(op'.started) = {}
  BY <1>1, <1>4
<1>9. ASSUME NEW m PROVE Kept(m)
  BY DEF Kept
<1>10. IdsHold'
  BY <1>2, <1>8, <1>9 DEF DeployInv, IdsHold, IdsApart
<1>11. DOMAIN op'.started = {} /\ Len(op'.started) = 0
  BY <1>1, <1>4
<1>12. ExactlyHeld'
  <2>1. SUFFICES ASSUME faults \subseteq {"start"} PROVE ExactlyHeld'
    BY <1>2 DEF ExactlyHeld
  <2>2. Held' = Held
    BY <1>1, <1>2, <1>5, <1>8, <1>9 DEF DeployInv, IdsHold, IdsApart, Held, Kept
  <2>3. ASSUME NEW m \in DOMAIN mem
        PROVE  Found(containers, mem[m].container_ids) = Described(m, mem[m])
    BY <1>9, <2>1 DEF DeployInv, ExactlyHeld
  <2>4. op'.phase \in {"stop", "save"} => op'.kind \notin Replacing
    BY <1>1 DEF Replacing
  <2>5. DOMAIN containers' = Held'
    BY <1>2, <2>1, <2>2 DEF DeployInv, ExactlyHeld
  <2>6. ASSUME NEW m \in DOMAIN mem'
        PROVE  Found(containers', mem'[m].container_ids) = Described(m, mem'[m])
    BY <1>2, <2>3
  <2>7. Numbered(containers', op'.started, op'.name, op'.image)
    BY <1>11 DEF Numbered
  <2> QED BY <2>4, <2>5, <2>6, <2>7 DEF ExactlyHeld
<1> QED BY <1>7, <1>10, <1>12 DEF DeployInv

\* A replica more in the list of those started.
LEMMA OneMoreStarted ==
    ASSUME NEW s \in Seq(Nat), NEW c \in Nat
    PROVE  /\ Append(s, c) \in Seq(Nat) /\ Len(Append(s, c)) = Len(s) + 1
           /\ DOMAIN s = 1 .. Len(s) /\ DOMAIN Append(s, c) = 1 .. (Len(s) + 1)
           /\ \A i \in 1 .. Len(s) : Append(s, c)[i] = s[i]
           /\ Append(s, c)[Len(s) + 1] = c
           /\ Range(Append(s, c)) = Range(s) \cup {c}
<1>1. /\ Append(s, c) \in Seq(Nat) /\ Len(Append(s, c)) = Len(s) + 1 /\ Len(s) \in Nat
      /\ DOMAIN s = 1 .. Len(s) /\ DOMAIN Append(s, c) = 1 .. (Len(s) + 1)
      /\ \A i \in 1 .. Len(s) : Append(s, c)[i] = s[i]
      /\ Append(s, c)[Len(s) + 1] = c
  BY AppendProperties
<1>2. Range(Append(s, c)) = {Append(s, c)[i] : i \in 1 .. (Len(s) + 1)}
  BY <1>1 DEF Range
<1>3. 1 .. (Len(s) + 1) = (1 .. Len(s)) \cup {Len(s) + 1}
  BY <1>1
<1>4. Range(s) = {s[i] : i \in 1 .. Len(s)}
  BY <1>1 DEF Range
<1>5. Range(Append(s, c)) = Range(s) \cup {c}
  BY <1>1, <1>2, <1>3, <1>4
<1> QED BY <1>1, <1>5

\* The next replica starts under a new id.
LEMMA StartInv == ASSUME DeployInv, start_replica PROVE DeployInv'
<1> DEFINE new == [name |-> op.name, index |-> Len(op.started), image |-> op.image]
<1>1. op \in Commands /\ op # Idle /\ op.phase = "start" /\ next_id \in Nat \ {0}
  BY DEF start_replica, DeployInv, StoresHold, CommandHolds
<1>2. /\ op'.kind = op.kind /\ op'.name = op.name /\ op'.image = op.image
      /\ op'.replicas = op.replicas /\ op'.phase = "start" /\ op'.old = op.old
      /\ op'.started = Append(op.started, next_id)
  BY <1>1 DEF start_replica, Commands
<1>3. op.started \in Seq(Nat) /\ Append(op.started, next_id) \in Seq(Nat)
  BY <1>1, OneMoreStarted DEF Commands
<1>4. op' \in Commands /\ op' # Idle
  <2>1. op' \in Commands
    BY <1>1, <1>3, Zenon DEF start_replica, Commands
  <2> QED BY <2>1 DEF Commands, Idle, Kinds
<1>5. mem' = mem /\ disk' = disk /\ faults' = faults /\ next_id' = next_id + 1
  BY DEF start_replica, run_container
<1>6. /\ DOMAIN containers' = DOMAIN containers \cup {next_id}
      /\ containers'[next_id] = new
      /\ \A c \in DOMAIN containers : c # next_id => containers'[c] = containers[c]
  BY DEF start_replica, run_container, Put
<1>7. own' = own
  BY <1>2, <1>5 DEF own
<1>8. Range(op'.started) = Range(op.started) \cup {next_id}
  BY <1>1, <1>2, <1>3, OneMoreStarted
<1>9. \A n : Kept(n) /\ Kept(n)'
  BY <1>1, <1>2 DEF Kept
<1>10. StoresHold'
  <2>1. CommandHolds'
    BY <1>1, <1>2, <1>4, <1>5, <1>7 DEF DeployInv, StoresHold, CommandHolds
  <2> QED BY <1>1, <1>5, <2>1 DEF DeployInv, StoresHold, StoreHolds
<1>11. IdsHold'
  <2>1. SUFFICES ASSUME faults \cap {"save", "crash"} = {} PROVE IdsHold'
    BY <1>5 DEF IdsHold, IdsApart
  <2>2. 1 .. (next_id' - 1) = (1 .. (next_id - 1)) \cup {next_id} /\ next_id \notin 1 .. (next_id - 1)
    BY <1>1, <1>5
  <2>3. \A n \in DOMAIN mem : mem[n].container_ids \cap Range(op'.started) = {}
    BY <1>1, <1>8, <2>1, <2>2 DEF DeployInv, IdsHold, IdsApart
  <2> QED BY <1>1, <1>4, <1>5, <1>6, <1>8, <1>9, <2>1, <2>2, <2>3 DEF DeployInv, IdsHold, IdsApart
<1>12. ExactlyHeld'
  <2>1. SUFFICES ASSUME faults \subseteq {"start"} PROVE ExactlyHeld'
    BY <1>5 DEF ExactlyHeld
  <2>2. /\ 1 .. (next_id' - 1) = (1 .. (next_id - 1)) \cup {next_id}
        /\ next_id \notin 1 .. (next_id - 1)
    BY <1>1, <1>5
  <2>3. IdsApart
    BY <2>1 DEF DeployInv, IdsHold
  <2>4. Held' = Held \cup {next_id}
    BY <1>1, <1>2, <1>4, <1>5, <1>8, <1>9, <2>2, <2>3 DEF Held, IdsApart
  <2>5. ASSUME NEW n \in DOMAIN mem
        PROVE  {containers'[c] : c \in mem[n].container_ids} = Described(n, mem[n])
    <3>1. \A c \in mem[n].container_ids : containers'[c] = containers[c]
      BY <1>6, <1>9, <2>2, <2>3 DEF IdsApart
    <3> QED BY <1>9, <2>1, <3>1 DEF DeployInv, ExactlyHeld, Found, Numbered
  <2>6. ASSUME NEW i \in DOMAIN op'.started
        PROVE  containers'[op'.started[i]] = [name |-> op.name, index |-> i - 1, image |-> op.image]
    <3>1. CASE i = Len(op.started) + 1
      <4>1. op'.started[i] = next_id /\ i - 1 = Len(op.started)
        BY <1>1, <1>2, <1>3, <3>1, OneMoreStarted
      <4> QED BY <1>6, <4>1
    <3>2. CASE i # Len(op.started) + 1
      <4>1. i \in DOMAIN op.started /\ op'.started[i] = op.started[i]
        BY <1>1, <1>2, <1>3, <3>2, OneMoreStarted
      <4>2. op.started[i] \in Range(op.started)
        BY <4>1 DEF Range
      <4>3. containers'[op.started[i]] = containers[op.started[i]]
        BY <1>1, <1>6, <2>2, <2>3, <4>2 DEF IdsApart
      <4> QED BY <1>1, <2>1, <4>1, <4>3 DEF DeployInv, ExactlyHeld, Found, Numbered
    <3> QED BY <3>1, <3>2
  <2>7. DOMAIN containers' = Held'
    BY <1>6, <2>1, <2>4 DEF DeployInv, ExactlyHeld
  <2>8. \A n \in DOMAIN mem' : Found(containers', mem'[n].container_ids) = Described(n, mem'[n])
    BY <1>5, <2>5 DEF Found
  <2>9. Numbered(containers', op'.started, op'.name, op'.image)
    BY <1>2, <2>6 DEF Numbered
  <2> QED BY <1>2, <2>7, <2>8, <2>9 DEF ExactlyHeld
<1> QED BY <1>10, <1>11, <1>12 DEF DeployInv

\* Ids that were given out stay given out.
LEMMA MoreIds == ASSUME NEW i \in Nat, NEW j \in Nat, i <= j PROVE 1 .. (i - 1) \subseteq 1 .. (j - 1)
OBVIOUS

\* A replica fails to start: what was started is to be undone, what the records list stays.
LEMMA StartFailsInv == ASSUME DeployInv, start_replica_fails PROVE DeployInv'
<1>1. op \in Commands /\ op # Idle /\ op.phase = "start" /\ next_id \in Nat \ {0}
  BY DEF start_replica_fails, DeployInv, StoresHold, CommandHolds
<1>2. /\ op'.kind = op.kind /\ op'.name = op.name /\ op'.image = op.image
      /\ op'.replicas = op.replicas /\ op'.phase = "undo" /\ op'.old = Range(op.started)
      /\ op'.started = op.started
  BY <1>1 DEF start_replica_fails, after_failure, Commands
<1>3. op.started \in Seq(Nat) /\ Range(op.started) \in SUBSET Nat
  <2>1. op.started \in Seq(Nat)
    BY <1>1 DEF Commands
  <2>2. \A i \in DOMAIN op.started : op.started[i] \in Nat
    BY <2>1
  <2> QED BY <2>1, <2>2 DEF Range
<1>4. op' \in Commands /\ op' # Idle
  <2>1. op' \in Commands
    BY <1>1, <1>3, Zenon DEF start_replica_fails, after_failure, Commands
  <2> QED BY <2>1 DEF Commands, Idle, Kinds
<1>5. mem' = mem /\ disk' = disk /\ faults \subseteq faults'
  BY DEF start_replica_fails, fault
<1>6. /\ next_id' \in Nat \ {0} /\ next_id <= next_id'
      /\ DOMAIN containers \subseteq DOMAIN containers'
      /\ faults' \subseteq {"start"} => containers' = containers /\ next_id' = next_id
      /\ "save" \in faults' => "save" \in faults
      /\ "crash" \in faults' => "crash" \in faults
  <2>1. CASE UNCHANGED <<containers, next_id, faults>>
    BY <1>1, <2>1
  <2>2. CASE fault("start") /\ UNCHANGED <<containers, next_id>>
    BY <1>1, <2>2 DEF fault
  <2>3. CASE fault("created") /\ run_container(Len(op.started))
    BY <1>1, <2>3 DEF fault, run_container, Put
  <2> QED BY <2>1, <2>2, <2>3 DEF start_replica_fails
<1>7. own' = own
  BY <1>2, <1>5 DEF own
<1>8. \A n : Kept(n) /\ Kept(n)'
  BY <1>1, <1>2 DEF Kept
<1>9. StoresHold'
  <2>1. CommandHolds'
    BY <1>1, <1>2, <1>4, <1>5 DEF DeployInv, StoresHold, CommandHolds
  <2> QED BY <1>5, <1>6, <2>1 DEF DeployInv, StoresHold, StoreHolds
<1>10. IdsHold'
  <2>1. SUFFICES ASSUME faults' \cap {"save", "crash"} = {} PROVE IdsApart'
    BY DEF IdsHold
  <2>2. 1 .. (next_id - 1) \subseteq 1 .. (next_id' - 1)
    <3>1. next_id \in Nat /\ next_id' \in Nat /\ next_id <= next_id'
      BY <1>1, <1>6
    <3> QED BY <3>1, MoreIds, Zenon
  <2>3. IdsApart
    BY <1>5, <2>1 DEF DeployInv, IdsHold
  <2> QED BY <1>1, <1>2, <1>5, <1>6, <1>8, <2>2, <2>3 DEF IdsApart
<1>11. ExactlyHeld'
  <2>1. SUFFICES ASSUME faults' \subseteq {"start"} PROVE ExactlyHeld'
    BY DEF ExactlyHeld
  <2>2. faults \subseteq {"start"} /\ containers' = containers /\ next_id' = next_id
    BY <1>5, <1>6, <2>1
  <2>3. op.kind # "create" => op.name \in DOMAIN mem /\ op.old = mem[op.name].container_ids
    BY <1>1 DEF DeployInv, StoresHold, CommandHolds, own
  <2>4. op.kind = "create" => op.old = {}
    BY <1>1 DEF DeployInv, StoresHold, CommandHolds, own
  <2>5. Held' = Held
    BY <1>1, <1>2, <1>4, <1>5, <1>8, <2>2, <2>3, <2>4 DEF Held
  <2>6. ExactlyHeld
    BY DEF DeployInv
  <2>7. \A n : Described(n, mem'[n]) = Described(n, mem[n])
    BY <1>5, Zenon DEF Described
  <2> QED BY <1>2, <1>5, <1>8, <2>2, <2>5, <2>6, <2>7 DEF ExactlyHeld
<1> QED BY <1>9, <1>10, <1>11 DEF DeployInv

\* Every replica has started: the old ones are stopped from here on.
LEMMA AllStartedInv == ASSUME DeployInv, all_started PROVE DeployInv'
<1>1. /\ op \in Commands /\ op # Idle /\ op.phase = "start" /\ op.kind \in Replacing
      /\ Len(op.started) = op.replicas
  BY DEF all_started, DeployInv, StoresHold, CommandHolds
<1>2. /\ op'.kind = op.kind /\ op'.name = op.name /\ op'.image = op.image
      /\ op'.replicas = op.replicas /\ op'.phase = "stop" /\ op'.old = op.old
      /\ op'.started = op.started
  BY <1>1 DEF all_started, Commands
<1>3. op' \in Commands /\ op' # Idle
  <2>1. op' \in Commands
    BY <1>1 DEF all_started, Commands
  <2> QED BY <2>1 DEF Commands, Idle, Kinds
<1>4. mem' = mem /\ disk' = disk /\ containers' = containers /\ next_id' = next_id /\ faults' = faults
  BY DEF all_started, unchanged_store
<1>5. own' = own /\ op.old = own
  BY <1>1, <1>2, <1>4 DEF own, DeployInv, StoresHold, CommandHolds
<1>6. \A n : Kept(n) /\ (Kept(n)' <=> n # op.name)
  BY <1>1, <1>2, <1>3 DEF Kept, Replacing
<1>7. StoresHold'
  <2>1. CommandHolds'
    BY <1>1, <1>2, <1>3, <1>4, <1>5 DEF DeployInv, StoresHold, CommandHolds, Replacing
  <2> QED BY <1>4, <2>1 DEF DeployInv, StoresHold, StoreHolds
<1>8. IdsHold'
  <2>1. SUFFICES ASSUME faults \cap {"save", "crash"} = {} PROVE IdsApart'
    BY <1>4 DEF IdsHold
  <2>2. IdsApart
    BY <2>1 DEF DeployInv, IdsHold
  <2> QED BY <1>1, <1>2, <1>3, <1>4, <1>6, <2>2 DEF IdsApart
<1>9. ExactlyHeld'
  <2>1. SUFFICES ASSUME faults \subseteq {"start"} PROVE ExactlyHeld'
    BY <1>4 DEF ExactlyHeld
  <2>2. op.kind # "create" => op.name \in DOMAIN mem /\ op.old = mem[op.name].container_ids
    BY <1>1 DEF DeployInv, StoresHold, CommandHolds, own
  <2>3. op.kind = "create" => op.name \notin DOMAIN mem /\ op.old = {}
    BY <1>1 DEF DeployInv, StoresHold, CommandHolds, own
  <2>4. Held' = Held
    BY <1>1, <1>2, <1>3, <1>4, <1>6, <2>2, <2>3 DEF Held
  <2>5. DOMAIN containers' = Held'
    BY <1>4, <2>1, <2>4 DEF DeployInv, ExactlyHeld
  <2>6. \A n \in DOMAIN mem' : Found(containers', mem'[n].container_ids) = Described(n, mem'[n])
    BY <1>4, <1>6, <2>1 DEF DeployInv, ExactlyHeld
  <2>7. Numbered(containers', op'.started, op'.name, op'.image)
    BY <1>1, <1>2, <1>4, <2>1 DEF DeployInv, ExactlyHeld
  <2> QED BY <1>1, <1>2, <2>5, <2>6, <2>7 DEF ExactlyHeld
<1> QED BY <1>7, <1>8, <1>9 DEF DeployInv

\* One container of those to go is removed, or stays when the runtime fails.
LEMMA RemoveInv == ASSUME DeployInv, remove_container PROVE DeployInv'
<1>1. /\ op \in Commands /\ op # Idle /\ op.phase \in {"undo", "stop"}
      /\ op.phase = "stop" => op.kind \notin {"promote", "pause"} /\ op.old \subseteq own
      /\ op.phase = "undo" => op.old \subseteq Range(op.started)
  BY DEF remove_container, DeployInv, StoresHold, CommandHolds
<1>2. PICK c \in op.old :
          /\ op' = [op EXCEPT !.old = @ \ {c}]
          /\ \/ containers' = Without(containers, {c}) /\ faults' = faults
             \/ fault("remove") /\ containers' = containers
  BY Zenon DEF remove_container
<1>3. /\ op'.kind = op.kind /\ op'.name = op.name /\ op'.image = op.image
      /\ op'.replicas = op.replicas /\ op'.phase = op.phase /\ op'.old = op.old \ {c}
      /\ op'.started = op.started
  BY <1>1, <1>2 DEF Commands
<1>4. op' \in Commands /\ op' # Idle
  <2>1. op' \in Commands
    BY <1>1, <1>2 DEF Commands
  <2> QED BY <2>1 DEF Commands, Idle, Kinds
<1>5. mem' = mem /\ disk' = disk /\ next_id' = next_id
  BY DEF remove_container
<1>6. /\ faults \subseteq faults' /\ DOMAIN containers \ {c} \subseteq DOMAIN containers'
      /\ "save" \in faults' => "save" \in faults
      /\ faults' \subseteq {"start"} => containers' = Without(containers, {c})
  BY <1>2 DEF fault, Without
<1>7. own' = own
  BY <1>3, <1>5 DEF own
<1>8. \A n : Kept(n)' <=> Kept(n)
  BY <1>1, <1>3, <1>4 DEF Kept
<1>9. StoresHold'
  <2>1. CommandHolds'
    BY <1>1, <1>3, <1>4, <1>5, <1>7 DEF DeployInv, StoresHold, CommandHolds
  <2> QED BY <1>5, <1>6, <2>1 DEF DeployInv, StoresHold, StoreHolds
<1>10. ASSUME IdsApart
       PROVE  /\ \A n \in DOMAIN mem : Kept(n) => c \notin mem[n].container_ids
              /\ op.phase # "undo" => c \notin Range(op.started)
  <2>1. CASE op.phase = "undo"
    BY <1>1, <1>2, <1>10, <2>1 DEF IdsApart
  <2>2. CASE op.phase = "stop"
    <3>1. op.name \in DOMAIN mem /\ c \in mem[op.name].container_ids
      BY <1>1, <1>2, <2>2 DEF own, DeployInv, StoresHold, CommandHolds
    <3>2. \A n : Kept(n) => n # op.name
      BY <1>1, <2>2 DEF Kept
    <3> QED BY <1>1, <1>10, <3>1, <3>2 DEF IdsApart
  <2> QED BY <1>1, <2>1, <2>2
<1>11. IdsHold'
  <2>1. SUFFICES ASSUME faults' \cap {"save", "crash"} = {} PROVE IdsApart'
    BY DEF IdsHold
  <2>2. IdsApart
    BY <1>6, <2>1 DEF DeployInv, IdsHold
  <2> QED BY <1>1, <1>3, <1>5, <1>6, <1>8, <1>10, <2>2 DEF IdsApart
<1>12. ExactlyHeld'
  <2>1. SUFFICES ASSUME faults' \subseteq {"start"} PROVE ExactlyHeld'
    BY DEF ExactlyHeld
  <2>2. faults \subseteq {"start"} /\ containers' = Without(containers, {c})
    BY <1>6, <2>1
  <2>3. IdsApart
    BY <2>2 DEF DeployInv, IdsHold
  <2>4. Held' = Held \ {c}
    BY <1>1, <1>3, <1>4, <1>5, <1>8, <1>10, <2>3 DEF Held
  <2>5. /\ DOMAIN containers' = DOMAIN containers \ {c}
        /\ \A d \in DOMAIN containers : d # c => containers'[d] = containers[d]
    BY <2>2 DEF Without
  <2>6. ASSUME NEW n \in DOMAIN mem, Kept(n)
        PROVE  {containers'[d] : d \in mem[n].container_ids} = Described(n, mem[n])
    <3>1. mem[n].container_ids \subseteq DOMAIN containers
      BY <2>3, <2>6 DEF IdsApart
    <3>2. c \notin mem[n].container_ids
      BY <1>10, <2>3, <2>6
    <3>3. \A d \in mem[n].container_ids : containers'[d] = containers[d]
      BY <2>5, <3>1, <3>2
    <3>4. {containers'[d] : d \in mem[n].container_ids} = {containers[d] : d \in mem[n].container_ids}
      BY <3>3
    <3> QED BY <2>2, <2>6, <3>4, Zenon DEF DeployInv, ExactlyHeld, Found, Numbered
  <2>7. ASSUME op.phase # "undo", NEW i \in DOMAIN op.started
        PROVE  containers'[op.started[i]] = [name |-> op.name, index |-> i - 1, image |-> op.image]
    <3>1. op.started[i] \in Range(op.started)
      BY DEF Range
    <3>2. op.started[i] \in DOMAIN containers
      BY <1>1, <2>3, <2>7, <3>1 DEF IdsApart
    <3>3. op.started[i] # c
      BY <1>10, <2>3, <2>7, <3>1
    <3>4. containers'[op.started[i]] = containers[op.started[i]]
      BY <2>5, <3>2, <3>3
    <3> QED BY <1>1, <2>2, <2>7, <3>4 DEF DeployInv, ExactlyHeld, Found, Numbered
  <2>8. DOMAIN containers' = Held'
    BY <2>2, <2>4, <2>5, Zenon DEF DeployInv, ExactlyHeld, Found, Numbered
  <2>9. op.phase = "stop" /\ op.kind \in Replacing => Len(op.started) = op.replicas
    BY <1>1, <2>2 DEF DeployInv, ExactlyHeld, Found, Numbered
  <2> QED BY <1>1, <1>3, <1>5, <1>8, <2>6, <2>7, <2>8, <2>9 DEF ExactlyHeld, Described, Found, Numbered
<1> QED BY <1>9, <1>11, <1>12 DEF DeployInv

\* Nothing is left to remove: a failed command ends, another goes on to save.
LEMMA AllRemovedInv == ASSUME DeployInv, all_removed PROVE DeployInv'
<1>1. /\ op \in Commands /\ op # Idle /\ op.phase \in {"undo", "stop"} /\ op.old = {}
      /\ op.phase = "stop" => op.kind \notin {"promote", "pause"}
  BY DEF all_removed, DeployInv, StoresHold, CommandHolds
<1>2. mem' = mem /\ disk' = disk /\ containers' = containers /\ next_id' = next_id /\ faults' = faults
  BY DEF all_removed, unchanged_store
<1>3. CASE op.phase = "undo"
  <2>1. op' = Idle
    BY <1>3 DEF all_removed
  <2>2. \A n : Kept(n) /\ Kept(n)'
    BY <1>3, <2>1 DEF Kept
  <2>3. StoresHold'
    BY <1>2, <2>1 DEF DeployInv, StoresHold, StoreHolds, CommandHolds
  <2>4. IdsHold'
    BY <1>2, <2>1, <2>2 DEF DeployInv, IdsHold, IdsApart
  <2>5. Held' = Held
    BY <1>1, <1>2, <1>3, <2>1, <2>2 DEF Held
  <2>6. ExactlyHeld'
    BY <1>2, <2>1, <2>2, <2>5 DEF DeployInv, ExactlyHeld, Described, Found, Numbered
  <2> QED BY <2>3, <2>4, <2>6 DEF DeployInv
<1>4. CASE op.phase = "stop"
  <2>1. op' = [op EXCEPT !.phase = "save"]
    BY <1>4 DEF all_removed
  <2>2. /\ op'.kind = op.kind /\ op'.name = op.name /\ op'.image = op.image
        /\ op'.replicas = op.replicas /\ op'.phase = "save" /\ op'.old = {}
        /\ op'.started = op.started
    BY <1>1, <2>1 DEF Commands
  <2>3. op' \in Commands /\ op' # Idle
    <3>1. op' \in Commands
      BY <1>1, <2>1 DEF Commands
    <3> QED BY <3>1 DEF Commands, Idle, Kinds
  <2>4. \A n : Kept(n)' <=> Kept(n)
    BY <1>1, <1>4, <2>2, <2>3 DEF Kept
  <2>5. StoresHold'
    <3>1. CommandHolds'
      BY <1>1, <1>2, <2>2, <2>3 DEF DeployInv, StoresHold, CommandHolds
    <3> QED BY <1>2, <3>1 DEF DeployInv, StoresHold, StoreHolds
  <2>6. IdsHold'
    BY <1>1, <1>2, <1>4, <2>2, <2>4 DEF DeployInv, IdsHold, IdsApart
  <2>7. Held' = Held
    BY <1>1, <1>2, <1>4, <2>2, <2>3, <2>4 DEF Held
  <2>8. ExactlyHeld'
    BY <1>1, <1>2, <1>4, <2>2, <2>4, <2>7 DEF DeployInv, ExactlyHeld, Described, Found, Numbered
  <2> QED BY <2>5, <2>6, <2>8 DEF DeployInv
<1> QED BY <1>1, <1>3, <1>4

\* A record keeps its type when an update or a rollback fills it in anew.
LEMMA NewRecord ==
    ASSUME NEW r \in Recorded, NEW image \in Images, NEW previous \in SUBSET Images,
           NEW replicas \in Nat, NEW ids \in SUBSET Nat, NEW revision \in Nat,
           NEW history \in Seq([image : Images, replicas : Nat])
    PROVE  [r EXCEPT !.previous_image = previous, !.image = image, !.replicas = replicas,
                     !.container_ids = ids, !.revision = revision, !.state = "active",
                     !.history = history] \in Recorded
BY Zenon DEF Recorded

\* What each command makes of the records (deploy_cmd.rs, claw-deploy/src/lib.rs): it gives
\* the replaced record the replicas it started, and leaves every other record's alone.
LEMMA CommandResult ==
    ASSUME StoreHolds(mem), CommandHolds, op # Idle, op.phase = "save"
    PROVE  /\ StoreHolds(after_command)
           /\ \A n \in DOMAIN mem : Kept(n) => n \in DOMAIN after_command
           /\ op.kind \in Replacing => op.name \in DOMAIN after_command
           /\ \A n \in DOMAIN after_command :
                 \/ /\ n = op.name /\ op.kind \in Replacing
                    /\ after_command[n].container_ids = Range(op.started)
                    /\ after_command[n].image = op.image
                    /\ after_command[n].replicas = op.replicas
                 \/ /\ n \in DOMAIN mem /\ Kept(n) /\ ~ (n = op.name /\ op.kind \in Replacing)
                    /\ after_command[n].container_ids = mem[n].container_ids
                    /\ after_command[n].image = mem[n].image
                    /\ after_command[n].replicas = mem[n].replicas
<1>1. /\ op \in Commands /\ op.kind \in Kinds \ {"none"} /\ op.name \in Names
      /\ op.kind = "create" <=> op.name \notin DOMAIN mem
  BY DEF CommandHolds, Commands
<1>2. Range(op.started) \in SUBSET Nat
  <2>1. op.started \in Seq(Nat)
    BY <1>1 DEF Commands
  <2>2. \A i \in DOMAIN op.started : op.started[i] \in Nat
    BY <2>1
  <2> QED BY <2>2 DEF Range
<1>3. /\ [image |-> op.image, replicas |-> op.replicas] \in [image : Images, replicas : Nat]
      /\ op.image \in Images /\ op.replicas \in Nat
  BY <1>1 DEF Commands
<1>4. CASE op.kind = "create"
  <2>1. after_command = Put(mem, op.name, created)
    BY <1>4 DEF after_command
  <2>2. /\ DOMAIN after_command = DOMAIN mem \cup {op.name}
        /\ after_command[op.name] = created
        /\ \A n \in DOMAIN mem : after_command[n] = mem[n]
    BY <1>1, <1>4, <2>1 DEF Put
  <2>3. RecordHolds(created)
    <3> DEFINE e == [image |-> op.image, replicas |-> op.replicas]
    <3>1. e \in [image : Images, replicas : Nat]
      BY <1>3
    <3>2. /\ created.history = <<e>> /\ created.revision = 1
          /\ created.image = op.image /\ created.replicas = op.replicas
      BY DEF created
    <3> HIDE DEF e
    <3>3. <<e>> \in Seq([image : Images, replicas : Nat]) /\ Len(<<e>>) = 1 /\ <<e>>[1] = e
      BY <3>1
    <3>4. created = [image |-> op.image, previous_image |-> {}, replicas |-> op.replicas,
                     container_ids |-> Range(op.started), state |-> "active", revision |-> 1,
                     history |-> <<e>>]
      BY DEF created, e
    <3>5. created \in Recorded
      BY <1>2, <1>3, <3>3, <3>4 DEF Recorded
    <3>6. newest(<<e>>) = e /\ <<e>> # <<>>
      BY <3>3 DEF newest
    <3> QED BY <3>2, <3>3, <3>5, <3>6 DEF RecordHolds, e
  <2>4. StoreHolds(after_command)
    BY <1>1, <2>2, <2>3 DEF StoreHolds
  <2>5. /\ created.container_ids = Range(op.started) /\ created.image = op.image
        /\ created.replicas = op.replicas
    BY DEF created
  <2> QED BY <1>1, <1>4, <2>2, <2>4, <2>5 DEF Replacing, Kept
<1>5. CASE op.kind \in {"update", "rollback"}
  <2> DEFINE r == mem[op.name]
             h == [image |-> op.image, replicas |-> op.replicas]
  <2>1. after_command = Put(mem, op.name, revised(r))
    BY <1>5 DEF after_command
  <2>2. /\ DOMAIN after_command = DOMAIN mem
        /\ after_command[op.name] = revised(r)
        /\ \A n \in DOMAIN mem \ {op.name} : after_command[n] = mem[n]
    BY <1>1, <1>5, <2>1 DEF Put
  <2>3. r \in Recorded /\ r.history # <<>> /\ r.revision = Len(r.history)
    BY <1>1, <1>5, Zenon DEF StoreHolds, RecordHolds
  <2> HIDE DEF r
  <2>4. /\ r.history \in Seq([image : Images, replicas : Nat])
        /\ {r.image} \in SUBSET Images /\ r.revision + 1 \in Nat
    BY <2>3 DEF Recorded
  <2>5. /\ Append(r.history, h) \in Seq([image : Images, replicas : Nat])
        /\ Len(Append(r.history, h)) = Len(r.history) + 1
        /\ Append(r.history, h)[Len(r.history) + 1] = h
        /\ Append(r.history, h) # <<>>
    BY <1>3, <2>4, AppendProperties
  <2>6. /\ revised(r).image = op.image /\ revised(r).replicas = op.replicas
        /\ revised(r).container_ids = Range(op.started)
        /\ revised(r).revision = r.revision + 1
        /\ revised(r).history = Append(r.history, h)
    BY <2>3 DEF revised, Recorded
  <2>7. revised(r) \in Recorded
    <3> DEFINE s == Append(r.history, h)
    <3>1. revised(r) = [r EXCEPT !.previous_image = {r.image}, !.image = op.image,
                                 !.replicas = op.replicas, !.container_ids = Range(op.started),
                                 !.revision = r.revision + 1, !.state = "active", !.history = s]
      BY <2>3 DEF revised, Recorded
    <3>2. s \in Seq([image : Images, replicas : Nat])
      BY <2>5, Zenon
    <3> HIDE DEF s
    <3>3. [r EXCEPT !.previous_image = {r.image}, !.image = op.image,
                    !.replicas = op.replicas, !.container_ids = Range(op.started),
                    !.revision = r.revision + 1, !.state = "active", !.history = s] \in Recorded
      BY <1>2, <1>3, <2>3, <2>4, <3>2, NewRecord, ZenonT(60)
    <3> QED BY <3>1, <3>3
  <2>8. RecordHolds(revised(r))
    BY <2>3, <2>5, <2>6, <2>7 DEF RecordHolds, newest
  <2>9. StoreHolds(after_command)
    BY <1>1, <2>2, <2>8 DEF StoreHolds
  <2> QED BY <1>1, <1>5, <2>2, <2>6, <2>9 DEF Replacing, Kept
<1>6. CASE op.kind = "promote"
  <2> DEFINE r == [mem[op.name] EXCEPT !.previous_image = {}, !.state = "active"]
  <2>1. after_command = [mem EXCEPT ![op.name] = r]
    BY <1>6, Zenon DEF after_command
  <2>2. /\ DOMAIN after_command = DOMAIN mem /\ after_command[op.name] = r
        /\ \A n \in DOMAIN mem \ {op.name} : after_command[n] = mem[n]
    BY <1>1, <1>6, <2>1
  <2>3. /\ r \in Recorded /\ r.container_ids = mem[op.name].container_ids
        /\ r.image = mem[op.name].image /\ r.replicas = mem[op.name].replicas
        /\ r.revision = mem[op.name].revision /\ r.history = mem[op.name].history
    BY <1>1, <1>6, ZenonT(60) DEF StoreHolds, RecordHolds, Recorded
  <2> HIDE DEF r
  <2>4. RecordHolds(r)
    BY <1>1, <1>6, <2>3 DEF StoreHolds, RecordHolds
  <2>5. StoreHolds(after_command)
    BY <2>2, <2>4 DEF StoreHolds
  <2> QED BY <1>1, <1>6, <2>2, <2>3, <2>5 DEF Replacing, Kept
<1>7. CASE op.kind = "pause"
  <2> DEFINE r == [mem[op.name] EXCEPT !.state = "paused"]
  <2>1. after_command = [mem EXCEPT ![op.name] = r]
    BY <1>7 DEF after_command
  <2>2. /\ DOMAIN after_command = DOMAIN mem /\ after_command[op.name] = r
        /\ \A n \in DOMAIN mem \ {op.name} : after_command[n] = mem[n]
    BY <1>1, <1>7, <2>1
  <2>3. /\ r \in Recorded /\ r.container_ids = mem[op.name].container_ids
        /\ r.image = mem[op.name].image /\ r.replicas = mem[op.name].replicas
        /\ r.revision = mem[op.name].revision /\ r.history = mem[op.name].history
    BY <1>1, <1>7, ZenonT(60) DEF StoreHolds, RecordHolds, Recorded
  <2> HIDE DEF r
  <2>4. RecordHolds(r)
    BY <1>1, <1>7, <2>3 DEF StoreHolds, RecordHolds
  <2>5. StoreHolds(after_command)
    BY <2>2, <2>4 DEF StoreHolds
  <2> QED BY <1>1, <1>7, <2>2, <2>3, <2>5 DEF Replacing, Kept
<1>8. CASE op.kind = "delete"
  <2>1. after_command = Without(mem, {op.name})
    BY <1>8 DEF after_command
  <2>2. /\ DOMAIN after_command = DOMAIN mem \ {op.name}
        /\ \A n \in DOMAIN after_command : after_command[n] = mem[n]
    BY <2>1 DEF Without
  <2>3. StoreHolds(after_command)
    BY <2>2 DEF StoreHolds
  <2> QED BY <1>1, <1>8, <2>2, <2>3 DEF Replacing, Kept
<1> QED BY <1>1, <1>4, <1>5, <1>6, <1>7, <1>8, Zenon DEF Kinds

\* Replicas numbered as they were started are one for each index below their number.
LEMMA StartedDescribed ==
    ASSUME NEW s \in Seq(Nat), NEW f, NEW n, NEW r, r.replicas = Len(s), Numbered(f, s, n, r.image)
    PROVE  Found(f, Range(s)) = Described(n, r)
<1> DEFINE d(i) == [name |-> n, index |-> i, image |-> r.image]
<1>1. DOMAIN s = 1 .. Len(s) /\ Len(s) \in Nat
  OBVIOUS
<1>2. ASSUME NEW c \in Range(s) PROVE f[c] \in {d(i) : i \in 0 .. (Len(s) - 1)}
  <2>1. PICK i \in 1 .. Len(s) : c = s[i]
    BY <1>1, <1>2 DEF Range
  <2>2. f[c] = d(i - 1) /\ i - 1 \in 0 .. (Len(s) - 1)
    BY <1>1, <2>1 DEF Numbered
  <2> HIDE DEF d
  <2> QED BY <2>2
<1>3. ASSUME NEW i \in 0 .. (Len(s) - 1) PROVE d(i) \in {f[c] : c \in Range(s)}
  <2>1. i + 1 \in DOMAIN s /\ (i + 1) - 1 = i
    BY <1>1, <1>3
  <2>2. f[s[i + 1]] = d(i) /\ s[i + 1] \in Range(s)
    BY <2>1 DEF Range, Numbered
  <2> HIDE DEF d
  <2> QED BY <2>2
<1> HIDE DEF d
<1>4. {f[c] : c \in Range(s)} = {d(i) : i \in 0 .. (Len(s) - 1)}
  BY <1>2, <1>3
<1> QED BY <1>4, Zenon DEF d, Found, Described

\* The command's last step: its record is written to the store, and saved or not.
LEMMA SaveInv == ASSUME DeployInv, save PROVE DeployInv'
<1>1. /\ op \in Commands /\ op # Idle /\ op.phase = "save" /\ op.old = {}
      /\ op.kind \notin Replacing => op.started = <<>>
      /\ StoreHolds(mem) /\ CommandHolds /\ next_id \in Nat \ {0}
  BY DEF save, DeployInv, StoresHold, CommandHolds
<1>2. mem' = after_command /\ op' = Idle /\ containers' = containers /\ next_id' = next_id
  BY DEF save
<1>3. \/ disk' = after_command /\ faults' = faults
      \/ fault("save") /\ disk' \in {disk, <<>>}
  BY DEF save, snapshot
<1>4. StoreHolds(mem')
  BY <1>1, <1>2, CommandResult
<1>5. StoresHold'
  <2>1. StoreHolds(disk')
    BY <1>1, <1>2, <1>3, <1>4 DEF DeployInv, StoresHold, StoreHolds
  <2>2. "save" \notin faults' => disk' = mem'
    BY <1>2, <1>3 DEF fault
  <2> QED BY <1>1, <1>2, <1>4, <2>1, <2>2 DEF StoresHold, StoreHolds, CommandHolds
<1>6. \A n : Kept(n)'
  BY <1>2 DEF Kept
<1>7. ASSUME NEW n \in DOMAIN mem'
      PROVE  \/ /\ n = op.name /\ op.kind \in Replacing
                /\ mem'[n].container_ids = Range(op.started)
                /\ mem'[n].image = op.image /\ mem'[n].replicas = op.replicas
             \/ /\ n \in DOMAIN mem /\ Kept(n) /\ ~ (n = op.name /\ op.kind \in Replacing)
                /\ mem'[n].container_ids = mem[n].container_ids
                /\ mem'[n].image = mem[n].image /\ mem'[n].replicas = mem[n].replicas
  BY <1>1, <1>2, CommandResult
<1>8. IdsHold'
  <2>1. SUFFICES ASSUME faults' \cap {"save", "crash"} = {} PROVE IdsApart'
    BY DEF IdsHold
  <2>2. IdsApart
    BY <1>3, <2>1 DEF DeployInv, IdsHold, fault
  <2>3. \A n \in DOMAIN mem' : mem'[n].container_ids \subseteq 1 .. (next_id - 1)
    BY <1>1, <1>7, <2>2 DEF IdsApart
  <2>4. ASSUME NEW m \in DOMAIN mem', NEW n \in DOMAIN mem', m # n
        PROVE  mem'[m].container_ids \cap mem'[n].container_ids = {}
    BY <1>1, <1>7, <2>2, <2>4 DEF IdsApart
  <2>5. \A n \in DOMAIN mem' : mem'[n].container_ids \subseteq DOMAIN containers
    BY <1>1, <1>7, <2>2 DEF IdsApart
  <2> QED BY <1>2, <2>3, <2>4, <2>5 DEF IdsApart
<1>9. ExactlyHeld'
  <2>1. SUFFICES ASSUME faults' \subseteq {"start"} PROVE ExactlyHeld'
    BY DEF ExactlyHeld
  <2>2. faults \subseteq {"start"} /\ IdsApart
    BY <1>3, <2>1, Zenon DEF DeployInv, IdsHold, fault
  <2>3. Held' = Held
    <3>1. \A n \in DOMAIN mem : Kept(n) => n \in DOMAIN mem'
      BY <1>1, <1>2, CommandResult
    <3>2. op.kind \in Replacing => op.name \in DOMAIN mem'
      BY <1>1, <1>2, CommandResult
    <3>3. op.kind \in Replacing => ~ Kept(op.name)
      BY <1>1 DEF Kept, Replacing
    <3>4. op.kind \notin Replacing => Range(op.started) = {}
      BY <1>1 DEF Range
    <3>5. ASSUME NEW c \in Held' PROVE c \in Held
      <4>1. c \in 1 .. (next_id - 1) /\ \E n \in DOMAIN mem' : c \in mem'[n].container_ids
        BY <1>2, <3>5 DEF Held
      <4>2. PICK n \in DOMAIN mem' : c \in mem'[n].container_ids
        BY <4>1
      <4> QED BY <1>1, <1>7, <4>1, <4>2 DEF Held
    <3>6. ASSUME NEW c \in Held PROVE c \in Held'
      <4>1. /\ c \in 1 .. (next_id - 1)
            /\ \/ \E n \in DOMAIN mem : Kept(n) /\ c \in mem[n].container_ids
               \/ c \in Range(op.started)
        BY <1>1, <3>6 DEF Held
      <4>2. \E n \in DOMAIN mem' : c \in mem'[n].container_ids
        <5>1. CASE c \in Range(op.started)
          BY <1>1, <1>7, <3>2, <3>3, <3>4, <5>1
        <5>2. ASSUME NEW n \in DOMAIN mem, Kept(n), c \in mem[n].container_ids
              PROVE  \E m \in DOMAIN mem' : c \in mem'[m].container_ids
          BY <1>7, <3>1, <3>3, <5>2
        <5> QED BY <4>1, <5>1, <5>2
      <4> QED BY <1>2, <1>6, <4>1, <4>2 DEF Held
    <3> QED BY <3>5, <3>6
  <2>4. ASSUME NEW n \in DOMAIN mem'
        PROVE  {containers[c] : c \in mem'[n].container_ids} = Described(n, mem'[n])
    <3>1. CASE n \in DOMAIN mem /\ Kept(n) /\ ~ (n = op.name /\ op.kind \in Replacing)
      <4>1. {containers[c] : c \in mem[n].container_ids} = Described(n, mem[n])
        BY <2>2, <3>1 DEF DeployInv, ExactlyHeld, Found, Numbered
      <4>2. /\ mem'[n].container_ids = mem[n].container_ids
            /\ mem'[n].image = mem[n].image /\ mem'[n].replicas = mem[n].replicas
        BY <1>7, <3>1
      <4>3. Described(n, mem'[n]) = Described(n, mem[n])
        BY <4>2 DEF Described
      <4> QED BY <4>1, <4>2, <4>3
    <3>2. CASE n = op.name /\ op.kind \in Replacing
      <4>1. /\ mem'[n].container_ids = Range(op.started)
            /\ mem'[n].image = op.image /\ mem'[n].replicas = op.replicas
        BY <1>7, <3>2
      <4>2. op.started \in Seq(Nat) /\ Len(op.started) = op.replicas
        BY <1>1, <2>2, <3>2 DEF DeployInv, ExactlyHeld, Commands, Found, Numbered
      <4>3. Numbered(containers, op.started, n, mem'[n].image)
        BY <1>1, <2>2, <3>2, <4>1 DEF DeployInv, ExactlyHeld, Numbered, Found
      <4>4. Found(containers, Range(op.started)) = Described(n, mem'[n])
        BY <4>1, <4>2, <4>3, StartedDescribed
      <4> QED BY <4>1, <4>4 DEF Found
    <3> QED BY <1>7, <3>1, <3>2
  <2>5. DOMAIN containers = Held
    BY <2>2 DEF DeployInv, ExactlyHeld, Found, Numbered
  <2> QED BY <1>2, <2>3, <2>4, <2>5 DEF ExactlyHeld, Described, Found, Numbered
<1> QED BY <1>5, <1>8, <1>9 DEF DeployInv

\* A crash loads what the file holds; only the store's own shape outlives it.
LEMMA CrashInv == ASSUME DeployInv, crash PROVE DeployInv'
<1>1. /\ mem' = disk' /\ op' = Idle /\ next_id' = next_id /\ "crash" \in faults'
  BY DEF crash, fault
<1>2. StoreHolds(disk')
  <2>1. StoreHolds(<<>>)
    BY DEF StoreHolds
  <2>2. CASE disk' = disk
    BY <2>2 DEF DeployInv, StoresHold
  <2>3. CASE op # Idle /\ op.phase = "save" /\ disk' = snapshot
    BY <2>3, CommandResult DEF DeployInv, StoresHold, snapshot
  <2> QED BY <2>1, <2>2, <2>3 DEF crash
<1>3. StoresHold'
  BY <1>1, <1>2 DEF DeployInv, StoresHold, StoreHolds, CommandHolds
<1>4. IdsHold' /\ ExactlyHeld'
  BY <1>1 DEF IdsHold, ExactlyHeld, Found, Numbered
<1> QED BY <1>3, <1>4 DEF DeployInv

\* A node that has deployed nothing.
LEMMA DeployStart == DeployInit => DeployInv
<1> SUFFICES ASSUME DeployInit PROVE DeployInv
  OBVIOUS
<1>1. StoresHold
  BY DEF DeployInit, StoresHold, StoreHolds, CommandHolds
<1>2. IdsHold
  BY DEF DeployInit, IdsHold, IdsApart
<1>3. ExactlyHeld
  BY DEF DeployInit, ExactlyHeld, Held, Idle, Found, Numbered
<1> QED BY <1>1, <1>2, <1>3 DEF DeployInv

\* Every step of a command, of the runtime and every crash keep the invariant.
LEMMA DeployStep == DeployInv /\ [DeployNext]_deploy_vars => DeployInv'
<1> SUFFICES ASSUME DeployInv, [DeployNext]_deploy_vars PROVE DeployInv'
  OBVIOUS
<1>1. CASE UNCHANGED deploy_vars
  <2>1. /\ mem' = mem /\ disk' = disk /\ containers' = containers /\ op' = op
        /\ next_id' = next_id /\ faults' = faults
    BY <1>1 DEF deploy_vars
  <2>2. StoresHold'
    BY <2>1 DEF DeployInv, StoresHold, StoreHolds, CommandHolds, own
  <2>3. \A n : Kept(n)' <=> Kept(n)
    BY <2>1 DEF Kept
  <2>4. IdsHold'
    BY <2>1, <2>3 DEF DeployInv, IdsHold, IdsApart
  <2>5. Held' = Held
    BY <2>1, <2>3 DEF Held
  <2>6. ExactlyHeld'
    BY <2>1, <2>3, <2>5 DEF DeployInv, ExactlyHeld, Found, Described, Numbered
  <2> QED BY <2>2, <2>4, <2>6 DEF DeployInv
<1>2. ASSUME NEW n \in Names, NEW i \in Images, NEW r \in 0 .. MaxReplicas, create(n, i, r)
      PROVE  DeployInv'
  BY <1>2, BeginInv, ReplicasAssumption DEF create, Kinds, Replacing
<1>3. ASSUME NEW n \in Names, NEW i \in Images, NEW r \in 0 .. MaxReplicas, update(n, i, r)
      PROVE  DeployInv'
  BY <1>3, BeginInv, ReplicasAssumption DEF update, known, Kinds, Replacing
<1>4. ASSUME NEW n \in Names, known(n)
      PROVE  op = Idle /\ mem[n].image \in Images /\ mem[n].replicas \in Nat
                /\ mem[n].previous_image \subseteq Images
  BY <1>4, Zenon DEF known, DeployInv, StoresHold, StoreHolds, RecordHolds, Recorded
<1>5. ASSUME NEW n \in Names, rollback(n) PROVE DeployInv'
  <2>1. PICK image \in mem[n].previous_image :
            begin("rollback", n, image, mem[n].replicas, "start", mem[n].container_ids)
    BY <1>5 DEF rollback
  <2> QED BY <1>4, <1>5, <2>1, BeginInv DEF rollback, known, Kinds, Replacing
<1>6. ASSUME NEW n \in Names, delete(n) PROVE DeployInv'
  BY <1>4, <1>6, BeginInv DEF delete, known, Kinds
<1>7. ASSUME NEW n \in Names, NEW kind \in {"promote", "pause"}, mark(kind, n) PROVE DeployInv'
  BY <1>4, <1>7, BeginInv DEF mark, known, Kinds
<1> QED BY <1>1, <1>2, <1>3, <1>5, <1>6, <1>7, StartInv, StartFailsInv, AllStartedInv, RemoveInv,
           AllRemovedInv, SaveInv, CrashInv DEF DeployNext

\* Deployments (deploy_cmd.rs): for every number of deployments, replicas and faults, a replica
\* that fails to start never costs a deployment the replicas it has, and neither does anything
\* but the command that replaces or deletes them.
THEOREM DeploymentsKeepReplicas == DeploySpec => []OldReplicasKeepRunning
<1>1. DeployInv => OldReplicasKeepRunning
  BY DEF DeployInv, IdsHold, IdsApart, Kept, OldReplicasKeepRunning, Listed
<1> QED BY <1>1, DeployStart, DeployStep, PTL DEF DeploySpec

\* Deployments (deploy_cmd.rs, claw-deploy): the records are true of the containers that run
\* while the worst that happens is a replica that fails to start, of their own history through
\* whatever happens, and of the file as long as it can be written.
THEOREM DeploymentRecordsTrue == DeploySpec => []RecordsTrue
<1>1. ASSUME DeployInv PROVE RecordsDescribeContainers
  <2>1. SUFFICES ASSUME op = Idle, faults \subseteq {"start"}
        PROVE  /\ DOMAIN containers = Listed
               /\ \A n \in DOMAIN mem : {containers[c] : c \in mem[n].container_ids} = Described(n, mem[n])
    BY DEF RecordsDescribeContainers, Described
  <2>2. \A n : Kept(n)
    BY <2>1 DEF Kept
  <2>3. IdsApart
    BY <1>1, <2>1 DEF DeployInv, IdsHold
  <2>4. Held = Listed
    BY <2>1, <2>2, <2>3 DEF Held, Listed, IdsApart
  <2> QED BY <1>1, <2>1, <2>2, <2>4 DEF DeployInv, ExactlyHeld, Found, Numbered
<1>2. DeployInv => RevisionCountsHistory
  BY Zenon DEF DeployInv, StoresHold, StoreHolds, RecordHolds, RevisionCountsHistory
<1>3. DeployInv => DiskIsMemory
  BY DEF DeployInv, StoresHold, DiskIsMemory
<1>4. DeployInv => RecordsTrue
  BY <1>1, <1>2, <1>3 DEF RecordsTrue
<1> QED BY <1>4, DeployStart, DeployStep, PTL DEF DeploySpec
=============================================================================
