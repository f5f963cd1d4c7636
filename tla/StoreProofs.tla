----------------------------- MODULE StoreProofs ----------------------------
(***************************************************************************)
(* Proofs about the commands of a node over its JSON-backed stores, for    *)
(* every number of names, of commands and of restarts: what a command that *)
(* writes one store or two may leave behind when it is done, when a        *)
(* snapshot fails and when its process dies between or in the writes, and  *)
(* what holds of the crons, the policies, the configs, the volumes, the    *)
(* secrets and the keys because of it.  As in JsonStore, a crash inside a  *)
(* command happens once.                                                   *)
(***************************************************************************)
EXTENDS RecordCommands, SequenceTheorems, TLAPS

\* The maps of the stores in S.
IsMap(maps, S) == maps = [s \in S |-> maps[s]]

\* What is left of a write that the process died in.
Torn(d, s) == [d EXCEPT ![s] = EmptyStore]

-----------------------------------------------------------------------------
\* The last of one index.
LEMMA MaxOne == ASSUME NEW k \in Nat PROVE Max({k}) = k
BY DEF Max

\* No write changes nothing; one write sets its store; two set both.
LEMMA ApplyNone == ASSUME NEW S, NEW maps, IsMap(maps, S) PROVE apply(maps, <<>>) = maps
<1>1. DOMAIN maps = S
  BY DEF IsMap
<1>2. DOMAIN <<>> = {}
  OBVIOUS
<1> QED BY <1>1, <1>2 DEF apply, IsMap

LEMMA ApplyOne ==
    ASSUME NEW S, NEW maps, IsMap(maps, S), NEW s, NEW m
    PROVE  apply(maps, <<[store |-> s, map |-> m]>>) = [maps EXCEPT ![s] = m]
<1> DEFINE w == [store |-> s, map |-> m]
           of(x) == {k \in DOMAIN <<w>> : <<w>>[k].store = x}
<1>1. DOMAIN maps = S
  BY DEF IsMap
<1>2. w.store = s /\ w.map = m
  OBVIOUS
<1> HIDE DEF w
<1>3. DOMAIN <<w>> = {1} /\ <<w>>[1] = w
  OBVIOUS
<1>4. of(s) = {1} /\ \A x : x # s => of(x) = {}
  BY <1>2, <1>3
<1>5. Max({1}) = 1
  BY MaxOne
<1>6. apply(maps, <<w>>) = [x \in S |-> IF of(x) = {} THEN maps[x] ELSE <<w>>[Max(of(x))].map]
  BY <1>1 DEF apply
<1> HIDE DEF of
<1>7. \A x \in S : (IF of(x) = {} THEN maps[x] ELSE <<w>>[Max(of(x))].map)
                      = IF x = s THEN m ELSE maps[x]
  BY <1>2, <1>3, <1>4, <1>5
<1>8. [maps EXCEPT ![s] = m] = [x \in S |-> IF x = s THEN m ELSE maps[x]]
  BY <1>1, Zenon
<1>9. apply(maps, <<w>>) = [maps EXCEPT ![s] = m]
  BY <1>6, <1>7, <1>8
<1> QED BY <1>9 DEF w

LEMMA ApplyTwo ==
    ASSUME NEW S, NEW maps, IsMap(maps, S), NEW s, NEW m, NEW t, NEW n, s # t
    PROVE  apply(maps, <<[store |-> s, map |-> m], [store |-> t, map |-> n]>>)
              = [maps EXCEPT ![s] = m, ![t] = n]
<1> DEFINE v == [store |-> s, map |-> m]
           w == [store |-> t, map |-> n]
           of(x) == {k \in DOMAIN <<v, w>> : <<v, w>>[k].store = x}
<1>1. DOMAIN maps = S
  BY DEF IsMap
<1>2. v.store = s /\ v.map = m /\ w.store = t /\ w.map = n
  OBVIOUS
<1> HIDE DEF v, w
<1>3. DOMAIN <<v, w>> = {1, 2} /\ <<v, w>>[1] = v /\ <<v, w>>[2] = w
  OBVIOUS
<1>4. of(s) = {1} /\ of(t) = {2} /\ \A x : x # s /\ x # t => of(x) = {}
  BY <1>2, <1>3
<1>5. Max({1}) = 1 /\ Max({2}) = 2
  BY MaxOne
<1>6. apply(maps, <<v, w>>) = [x \in S |-> IF of(x) = {} THEN maps[x] ELSE <<v, w>>[Max(of(x))].map]
  BY <1>1 DEF apply
<1> HIDE DEF of
<1>7. \A x \in S : (IF of(x) = {} THEN maps[x] ELSE <<v, w>>[Max(of(x))].map)
                      = IF x = s THEN m ELSE IF x = t THEN n ELSE maps[x]
  BY <1>2, <1>3, <1>4, <1>5
<1>8. [maps EXCEPT ![s] = m, ![t] = n]
         = [x \in S |-> IF x = s THEN m ELSE IF x = t THEN n ELSE maps[x]]
  BY <1>1, Zenon
<1>9. apply(maps, <<v, w>>) = [maps EXCEPT ![s] = m, ![t] = n]
  BY <1>6, <1>7, <1>8
<1> QED BY <1>9 DEF v, w

-----------------------------------------------------------------------------
\* What a command that writes the map m of the store s may leave.
StoredOne(p, s, m, answer) ==
    /\ clock' = clock
    /\ \/ /\ disk' = [disk EXCEPT ![s] = m]
          /\ mem' = IF p = "daemon" THEN [mem EXCEPT ![s] = m] ELSE mem
          /\ reply' = answer /\ faults' = faults
       \/ /\ "save" \in faults'
          /\ disk' \in {disk, Torn(disk, s)}
          /\ mem' = IF p = "daemon" THEN [mem EXCEPT ![s] = m] ELSE mem
          /\ reply' = answer
       \/ /\ "crash" \notin faults /\ faults' = faults \cup {"crash"}
          /\ disk' \in {disk, Torn(disk, s), [disk EXCEPT ![s] = m]}
          /\ mem' = IF p = "daemon" THEN disk' ELSE mem
          /\ reply' = NoReply

\* And one that writes m to s and then n to t.
StoredTwo(p, s, m, t, n, answer) ==
    /\ clock' = clock
    /\ \/ /\ disk' = [disk EXCEPT ![s] = m, ![t] = n]
          /\ mem' = IF p = "daemon" THEN [mem EXCEPT ![s] = m, ![t] = n] ELSE mem
          /\ reply' = answer /\ faults' = faults
       \/ /\ "save" \in faults'
          /\ disk' \in {[disk EXCEPT ![t] = n], Torn([disk EXCEPT ![t] = n], s),
                        [disk EXCEPT ![s] = m], Torn([disk EXCEPT ![s] = m], t)}
          /\ mem' = IF p = "daemon" THEN [mem EXCEPT ![s] = m, ![t] = n] ELSE mem
          /\ reply' = answer
       \/ /\ "crash" \notin faults /\ faults' = faults \cup {"crash"}
          /\ disk' \in {disk, Torn(disk, s), [disk EXCEPT ![s] = m],
                        Torn([disk EXCEPT ![s] = m], t), [disk EXCEPT ![s] = m, ![t] = n]}
          /\ mem' = IF p = "daemon" THEN disk' ELSE mem
          /\ reply' = NoReply

\* A list of one write, with none of it and with all of it done.
LEMMA Single ==
    ASSUME NEW w
    PROVE  /\ all_but(<<w>>, 1) = <<>>
           /\ SubSeq(<<w>>, 1, 0) = <<>> /\ SubSeq(<<w>>, 1, 1) = <<w>>
<1>1. <<w>> \in Seq({w}) /\ Len(<<w>>) = 1 /\ <<w>>[1] = w
  OBVIOUS
<1>2. SubSeq(<<w>>, 1, 0) = <<>> /\ SubSeq(<<w>>, 2, 1) = <<>>
  BY SubSeqEmpty
<1>3. SubSeq(<<w>>, 1, 1) = <<w>>
  BY <1>1, SubSeqFull, Zenon
<1>4. <<>> \o <<>> = <<>>
  BY EmptySeq, ConcatEmptySeq
<1> QED BY <1>1, <1>2, <1>3, <1>4 DEF all_but

\* A list of two.
LEMMA Pair ==
    ASSUME NEW v, NEW w
    PROVE  /\ <<v>> \o <<w>> = <<v, w>>
           /\ all_but(<<v, w>>, 1) = <<w>> /\ all_but(<<v, w>>, 2) = <<v>>
           /\ SubSeq(<<v, w>>, 1, 0) = <<>> /\ SubSeq(<<v, w>>, 1, 1) = <<v>>
           /\ SubSeq(<<v, w>>, 1, 2) = <<v, w>>
<1> DEFINE S == {v, w}
<1>1. /\ <<v, w>> \in Seq(S) /\ Len(<<v, w>>) = 2 /\ <<v, w>>[1] = v /\ <<v, w>>[2] = w
      /\ <<v>> \in Seq(S) /\ Len(<<v>>) = 1 /\ <<v>>[1] = v
      /\ <<w>> \in Seq(S) /\ Len(<<w>>) = 1 /\ <<w>>[1] = w
  OBVIOUS
<1>2. SubSeq(<<v, w>>, 1, 0) = <<>> /\ SubSeq(<<v, w>>, 3, 2) = <<>>
  BY SubSeqEmpty
<1>3. SubSeq(<<v, w>>, 1, 2) = <<v, w>>
  BY <1>1, SubSeqFull, Zenon
<1>4. SubSeq(<<v, w>>, 1, 1) = <<v>>
  <2>1. \A i \in 1 .. 1 : <<v, w>>[i] \in S
    BY <1>1
  <2> HIDE DEF S
  <2>2. /\ SubSeq(<<v, w>>, 1, 1) \in Seq(S) /\ Len(SubSeq(<<v, w>>, 1, 1)) = 1
        /\ SubSeq(<<v, w>>, 1, 1)[1] = v
    BY <1>1, <2>1, SubSeqProperties
  <2>3. \A i \in 1 .. Len(SubSeq(<<v, w>>, 1, 1)) : SubSeq(<<v, w>>, 1, 1)[i] = <<v>>[i]
    BY <1>1, <2>2
  <2> QED BY <1>1, <2>2, <2>3, SeqEqual, Zenon
<1>5. SubSeq(<<v, w>>, 2, 2) = <<w>>
  <2>1. \A i \in 2 .. 2 : <<v, w>>[i] \in S
    BY <1>1
  <2> HIDE DEF S
  <2>2. /\ SubSeq(<<v, w>>, 2, 2) \in Seq(S) /\ Len(SubSeq(<<v, w>>, 2, 2)) = 1
        /\ SubSeq(<<v, w>>, 2, 2)[1] = w
    BY <1>1, <2>1, SubSeqProperties
  <2>3. \A i \in 1 .. Len(SubSeq(<<v, w>>, 2, 2)) : SubSeq(<<v, w>>, 2, 2)[i] = <<w>>[i]
    BY <1>1, <2>2
  <2> QED BY <1>1, <2>2, <2>3, SeqEqual, Zenon
<1>6. <<v>> \o <<w>> = <<v, w>>
  <2> HIDE DEF S
  <2>1. /\ <<v>> \o <<w>> \in Seq(S) /\ Len(<<v>> \o <<w>>) = 2
        /\ (<<v>> \o <<w>>)[1] = v /\ (<<v>> \o <<w>>)[2] = w
    BY <1>1, ConcatProperties
  <2>2. \A i \in 1 .. Len(<<v>> \o <<w>>) : (<<v>> \o <<w>>)[i] = <<v, w>>[i]
    BY <1>1, <2>1
  <2> QED BY <1>1, <2>1, <2>2, SeqEqual, Zenon
<1>7. <<>> \o <<w>> = <<w>> /\ <<v>> \o <<>> = <<v>>
  BY <1>1, ConcatEmptySeq
<1>8. all_but(<<v, w>>, 1) = <<w>>
  <2>1. 1 - 1 = 0 /\ 1 + 1 = 2
    OBVIOUS
  <2> QED BY <1>1, <1>2, <1>5, <1>7, <2>1, Zenon DEF all_but
<1>9. all_but(<<v, w>>, 2) = <<v>>
  <2>1. 2 - 1 = 1 /\ 2 + 1 = 3
    OBVIOUS
  <2> QED BY <1>1, <1>2, <1>4, <1>7, <2>1, Zenon DEF all_but
<1> QED BY <1>2, <1>3, <1>4, <1>6, <1>8, <1>9

LEMMA CommitOne ==
    ASSUME NEW S, IsMap(mem, S), IsMap(disk, S), NEW p, NEW s, NEW m, NEW answer,
           commit(p, write(s, m), answer)
    PROVE  StoredOne(p, s, m, answer)
<1> DEFINE w == [store |-> s, map |-> m]
<1>1. write(s, m) = <<w>> /\ w.store = s
  BY DEF write
<1>2. /\ apply(disk, <<w>>) = [disk EXCEPT ![s] = m]
      /\ apply(mem, <<w>>) = [mem EXCEPT ![s] = m]
      /\ apply(disk, <<>>) = disk
  BY ApplyNone, ApplyOne
<1> HIDE DEF w
<1>3. DOMAIN <<w>> = {1} /\ <<w>>[1] = w /\ Len(<<w>>) = 1
  OBVIOUS
<1>4. all_but(<<w>>, 1) = <<>> /\ SubSeq(<<w>>, 1, 0) = <<>> /\ SubSeq(<<w>>, 1, 1) = <<w>>
  BY Single
<1>5. CASE save(p, <<w>>, answer)
  BY <1>2, <1>5 DEF save, StoredOne
<1>6. CASE save_fails(p, <<w>>, answer)
  <2>1. disk' \in {disk, Torn(disk, s)}
    BY <1>1, <1>2, <1>3, <1>4, <1>6 DEF save_fails, Torn
  <2> QED BY <1>2, <1>6, <2>1 DEF save_fails, fault, StoredOne
<1>7. CASE dies(p, <<w>>)
  <2>1. PICK k \in 0 .. 1 :
             \/ disk' = apply(disk, SubSeq(<<w>>, 1, k))
             \/ /\ k < 1
                /\ disk' = [apply(disk, SubSeq(<<w>>, 1, k))
                             EXCEPT ![<<w>>[k + 1].store] = EmptyStore]
    BY <1>3, <1>7 DEF dies
  <2>2. disk' \in {disk, Torn(disk, s), [disk EXCEPT ![s] = m]}
    <3>1. CASE k = 0
      <4>1. <<w>>[k + 1] = w /\ apply(disk, SubSeq(<<w>>, 1, k)) = disk
        <5>1. k + 1 = 1
          BY <3>1
        <5> QED BY <1>2, <1>3, <1>4, <3>1, <5>1, Zenon
      <4> QED BY <1>1, <2>1, <4>1 DEF Torn
    <3>2. CASE k = 1
      <4>1. apply(disk, SubSeq(<<w>>, 1, k)) = [disk EXCEPT ![s] = m]
        BY <1>2, <1>4, <3>2, Zenon
      <4>2. ~ (k < 1)
        BY <3>2
      <4> QED BY <2>1, <4>1, <4>2, Zenon
    <3> QED BY <3>1, <3>2
  <2> QED BY <1>7, <2>2 DEF dies, fault, StoredOne
<1> QED BY <1>1, <1>5, <1>6, <1>7 DEF commit

LEMMA CommitTwo ==
    ASSUME NEW S, IsMap(mem, S), IsMap(disk, S), NEW p, NEW s, NEW m, NEW t, NEW n, s # t,
           NEW answer, commit(p, write(s, m) \o write(t, n), answer)
    PROVE  StoredTwo(p, s, m, t, n, answer)
<1> DEFINE v == [store |-> s, map |-> m]
           w == [store |-> t, map |-> n]
<1>1. write(s, m) = <<v>> /\ write(t, n) = <<w>> /\ v.store = s /\ w.store = t
  BY DEF write
<1>2. /\ apply(disk, <<v, w>>) = [disk EXCEPT ![s] = m, ![t] = n]
      /\ apply(mem, <<v, w>>) = [mem EXCEPT ![s] = m, ![t] = n]
      /\ apply(disk, <<v>>) = [disk EXCEPT ![s] = m]
      /\ apply(disk, <<w>>) = [disk EXCEPT ![t] = n]
      /\ apply(disk, <<>>) = disk
  <2>1. apply(disk, <<v, w>>) = [disk EXCEPT ![s] = m, ![t] = n]
    BY ApplyTwo
  <2>2. apply(mem, <<v, w>>) = [mem EXCEPT ![s] = m, ![t] = n]
    BY ApplyTwo
  <2>3. apply(disk, <<v>>) = [disk EXCEPT ![s] = m] /\ apply(disk, <<w>>) = [disk EXCEPT ![t] = n]
    BY ApplyOne, Zenon
  <2>4. apply(disk, <<>>) = disk
    BY ApplyNone
  <2> QED BY <2>1, <2>2, <2>3, <2>4
<1> HIDE DEF v, w
<1>3. <<v>> \o <<w>> = <<v, w>>
  BY Pair, Zenon
<1>4. /\ DOMAIN <<v, w>> = {1, 2} /\ <<v, w>>[1] = v /\ <<v, w>>[2] = w /\ Len(<<v, w>>) = 2
  OBVIOUS
<1>5. /\ all_but(<<v, w>>, 1) = <<w>> /\ all_but(<<v, w>>, 2) = <<v>>
      /\ SubSeq(<<v, w>>, 1, 0) = <<>> /\ SubSeq(<<v, w>>, 1, 1) = <<v>>
      /\ SubSeq(<<v, w>>, 1, 2) = <<v, w>>
  BY Pair, Zenon
<1>6. CASE save(p, <<v, w>>, answer)
  BY <1>2, <1>6 DEF save, StoredTwo
<1>7. CASE save_fails(p, <<v, w>>, answer)
  <2>1. disk' \in {[disk EXCEPT ![t] = n], Torn([disk EXCEPT ![t] = n], s),
                   [disk EXCEPT ![s] = m], Torn([disk EXCEPT ![s] = m], t)}
    <3>1. PICK k \in {1, 2} :
               disk' \in {apply(disk, all_but(<<v, w>>, k)),
                          [apply(disk, all_but(<<v, w>>, k)) EXCEPT
                              ![<<v, w>>[k].store] = EmptyStore]}
      BY <1>4, <1>7 DEF save_fails
    <3>2. CASE k = 1
      <4>1. <<v, w>>[k] = v /\ apply(disk, all_but(<<v, w>>, k)) = [disk EXCEPT ![t] = n]
        BY <1>2, <1>4, <1>5, <3>2
      <4> QED BY <1>1, <3>1, <4>1 DEF Torn
    <3>3. CASE k = 2
      <4>1. <<v, w>>[k] = w /\ apply(disk, all_but(<<v, w>>, k)) = [disk EXCEPT ![s] = m]
        BY <1>2, <1>4, <1>5, <3>3
      <4> QED BY <1>1, <3>1, <4>1 DEF Torn
    <3> QED BY <3>2, <3>3
  <2> QED BY <1>2, <1>7, <2>1 DEF save_fails, fault, StoredTwo
<1>8. CASE dies(p, <<v, w>>)
  <2>1. PICK k \in 0 .. 2 :
             \/ disk' = apply(disk, SubSeq(<<v, w>>, 1, k))
             \/ k < 2 /\ disk' = [apply(disk, SubSeq(<<v, w>>, 1, k)) EXCEPT
                                     ![<<v, w>>[k + 1].store] = EmptyStore]
    BY <1>4, <1>8 DEF dies
  <2>2. disk' \in {disk, Torn(disk, s), [disk EXCEPT ![s] = m],
                   Torn([disk EXCEPT ![s] = m], t), [disk EXCEPT ![s] = m, ![t] = n]}
    <3>1. CASE k = 0
      <4>1. <<v, w>>[k + 1] = v /\ apply(disk, SubSeq(<<v, w>>, 1, k)) = disk
        <5>1. k + 1 = 1
          BY <3>1
        <5> QED BY <1>2, <1>4, <1>5, <3>1, <5>1, Zenon
      <4> QED BY <1>1, <2>1, <4>1 DEF Torn
    <3>2. CASE k = 1
      <4>1. <<v, w>>[k + 1] = w /\ apply(disk, SubSeq(<<v, w>>, 1, k)) = [disk EXCEPT ![s] = m]
        <5>1. k + 1 = 2
          BY <3>2
        <5> QED BY <1>2, <1>4, <1>5, <3>2, <5>1, Zenon
      <4> QED BY <1>1, <2>1, <4>1 DEF Torn
    <3>3. CASE k = 2
      <4>1. apply(disk, SubSeq(<<v, w>>, 1, k)) = [disk EXCEPT ![s] = m, ![t] = n]
        BY <1>2, <1>5, <3>3, Zenon
      <4>2. ~ (k < 2)
        BY <3>3
      <4> QED BY <2>1, <4>1, <4>2, Zenon
    <3> QED BY <3>1, <3>2, <3>3
  <2> QED BY <1>8, <2>2 DEF dies, fault, StoredTwo
<1> QED BY <1>1, <1>3, <1>6, <1>7, <1>8, Zenon DEF commit

-----------------------------------------------------------------------------
\* The same, store by store, while every snapshot that was tried could be written.
WroteOne(S, p, s, m, answer) ==
    /\ clock' = clock /\ IsMap(mem', S) /\ IsMap(disk', S)
    /\ \A x \in S \ {s} : disk'[x] = disk[x]
    /\ \/ /\ reply' = answer /\ faults' = faults /\ disk'[s] = m
          /\ mem' = IF p = "daemon" THEN [mem EXCEPT ![s] = m] ELSE mem
       \/ /\ reply' = NoReply /\ "crash" \notin faults /\ faults' = faults \cup {"crash"}
          /\ disk'[s] \in {disk[s], EmptyStore, m}
          /\ mem' = IF p = "daemon" THEN disk' ELSE mem

WroteTwo(S, p, s, m, t, n, answer) ==
    /\ clock' = clock /\ IsMap(mem', S) /\ IsMap(disk', S)
    /\ \A x \in S \ {s, t} : disk'[x] = disk[x]
    /\ \/ /\ reply' = answer /\ faults' = faults /\ disk'[s] = m /\ disk'[t] = n
          /\ mem' = IF p = "daemon" THEN [mem EXCEPT ![s] = m, ![t] = n] ELSE mem
       \/ /\ reply' = NoReply /\ "crash" \notin faults /\ faults' = faults \cup {"crash"}
          /\ \/ disk'[s] \in {disk[s], EmptyStore} /\ disk'[t] = disk[t]
             \/ disk'[s] = m /\ disk'[t] \in {disk[t], EmptyStore, n}
          /\ mem' = IF p = "daemon" THEN disk' ELSE mem

LEMMA MapExcept ==
    ASSUME NEW S, NEW maps, IsMap(maps, S), NEW s \in S, NEW m
    PROVE  /\ IsMap([maps EXCEPT ![s] = m], S) /\ [maps EXCEPT ![s] = m][s] = m
           /\ \A x \in S \ {s} : [maps EXCEPT ![s] = m][x] = maps[x]
BY DEF IsMap

LEMMA WritesOne ==
    ASSUME NEW S, IsMap(mem, S), IsMap(disk, S), NEW p, NEW s \in S, NEW m, NEW answer,
           commit(p, write(s, m), answer), "save" \notin faults'
    PROVE  WroteOne(S, p, s, m, answer)
<1>1. StoredOne(p, s, m, answer)
  BY CommitOne
<1>2. /\ IsMap([mem EXCEPT ![s] = m], S)
      /\ IsMap([disk EXCEPT ![s] = m], S) /\ [disk EXCEPT ![s] = m][s] = m
      /\ \A x \in S \ {s} : [disk EXCEPT ![s] = m][x] = disk[x]
      /\ IsMap(Torn(disk, s), S) /\ Torn(disk, s)[s] = EmptyStore
      /\ \A x \in S \ {s} : Torn(disk, s)[x] = disk[x]
  <2>1. IsMap([mem EXCEPT ![s] = m], S)
    BY MapExcept
  <2>2. /\ IsMap([disk EXCEPT ![s] = m], S) /\ [disk EXCEPT ![s] = m][s] = m
        /\ \A x \in S \ {s} : [disk EXCEPT ![s] = m][x] = disk[x]
    BY MapExcept
  <2>3. /\ IsMap(Torn(disk, s), S) /\ Torn(disk, s)[s] = EmptyStore
        /\ \A x \in S \ {s} : Torn(disk, s)[x] = disk[x]
    BY MapExcept DEF Torn
  <2> QED BY <2>1, <2>2, <2>3
<1>3. CASE disk' = [disk EXCEPT ![s] = m] /\ reply' = answer /\ faults' = faults
           /\ mem' = IF p = "daemon" THEN [mem EXCEPT ![s] = m] ELSE mem
  BY <1>1, <1>2, <1>3 DEF StoredOne, WroteOne
<1>4. CASE "crash" \notin faults /\ faults' = faults \cup {"crash"}
           /\ disk' \in {disk, Torn(disk, s), [disk EXCEPT ![s] = m]}
           /\ mem' = (IF p = "daemon" THEN disk' ELSE mem) /\ reply' = NoReply
  <2>1. /\ IsMap(disk', S) /\ disk'[s] \in {disk[s], EmptyStore, m}
        /\ \A x \in S \ {s} : disk'[x] = disk[x]
    BY <1>2, <1>4, Zenon
  <2> QED BY <1>1, <1>4, <2>1 DEF StoredOne, WroteOne
<1> QED BY <1>1, <1>3, <1>4 DEF StoredOne

LEMMA WritesTwo ==
    ASSUME NEW S, IsMap(mem, S), IsMap(disk, S), NEW p, NEW s \in S, NEW m, NEW t \in S, NEW n,
           s # t, NEW answer, commit(p, write(s, m) \o write(t, n), answer), "save" \notin faults'
    PROVE  WroteTwo(S, p, s, m, t, n, answer)
<1>1. StoredTwo(p, s, m, t, n, answer)
  BY CommitTwo
<1> DEFINE d == [disk EXCEPT ![s] = m]
<1>2. /\ IsMap(d, S) /\ d[s] = m /\ \A x \in S \ {s} : d[x] = disk[x]
      /\ IsMap(Torn(disk, s), S) /\ Torn(disk, s)[s] = EmptyStore
      /\ \A x \in S \ {s} : Torn(disk, s)[x] = disk[x]
  <2>1. IsMap(d, S) /\ d[s] = m /\ \A x \in S \ {s} : d[x] = disk[x]
    BY MapExcept
  <2>2. /\ IsMap(Torn(disk, s), S) /\ Torn(disk, s)[s] = EmptyStore
        /\ \A x \in S \ {s} : Torn(disk, s)[x] = disk[x]
    BY MapExcept DEF Torn
  <2> QED BY <2>1, <2>2
<1> DEFINE e == [d EXCEPT ![t] = n]
<1> HIDE DEF d
<1>3. /\ IsMap(e, S) /\ e[t] = n /\ \A x \in S \ {t} : e[x] = d[x]
      /\ IsMap(Torn(d, t), S) /\ Torn(d, t)[t] = EmptyStore
      /\ \A x \in S \ {t} : Torn(d, t)[x] = d[x]
  <2>1. IsMap(e, S) /\ e[t] = n /\ \A x \in S \ {t} : e[x] = d[x]
    BY <1>2, MapExcept
  <2>2. /\ IsMap(Torn(d, t), S) /\ Torn(d, t)[t] = EmptyStore
        /\ \A x \in S \ {t} : Torn(d, t)[x] = d[x]
    BY <1>2, MapExcept DEF Torn
  <2> QED BY <2>1, <2>2
<1>4. e = [disk EXCEPT ![s] = m, ![t] = n]
  BY DEF d
<1>5. IsMap([mem EXCEPT ![s] = m, ![t] = n], S)
  BY Zenon DEF IsMap
<1> HIDE DEF e
<1>6. CASE disk' = e /\ reply' = answer /\ faults' = faults
           /\ mem' = IF p = "daemon" THEN [mem EXCEPT ![s] = m, ![t] = n] ELSE mem
  BY <1>1, <1>2, <1>3, <1>5, <1>6 DEF StoredTwo, WroteTwo
<1>7. CASE "crash" \notin faults /\ faults' = faults \cup {"crash"}
           /\ disk' \in {disk, Torn(disk, s), d, Torn(d, t), e}
           /\ mem' = (IF p = "daemon" THEN disk' ELSE mem) /\ reply' = NoReply
  <2>1. /\ IsMap(disk', S) /\ \A x \in S \ {s, t} : disk'[x] = disk[x]
    BY <1>2, <1>3, <1>7
  <2>2. \/ disk'[s] \in {disk[s], EmptyStore} /\ disk'[t] = disk[t]
        \/ disk'[s] = m /\ disk'[t] \in {disk[t], EmptyStore, n}
    BY <1>2, <1>3, <1>7
  <2>3. IsMap(mem', S)
    BY <1>7, <2>1
  <2>4. clock' = clock
    BY <1>1 DEF StoredTwo
  <2> QED BY <1>7, <2>1, <2>2, <2>3, <2>4 DEF WroteTwo
<1> QED BY <1>1, <1>4, <1>6, <1>7 DEF StoredTwo, d

-----------------------------------------------------------------------------
\* No command turns the clock back or takes back a fault.
LEMMA CommitKeeps ==
    ASSUME NEW p, NEW writes, NEW answer, commit(p, writes, answer)
    PROVE  clock' = clock /\ faults \subseteq faults'
BY DEF commit, save, save_fails, dies, fault

\* The same of the commands of one record.
Keeps == clock' = clock /\ faults \subseteq faults'

LEMMA CommandsKeep ==
    ASSUME NEW p, NEW s, NEW n, NEW e, NEW c
    PROVE  /\ (create(p, s, n, e, c) => Keeps) /\ (modify(p, s, n, e, c) => Keeps)
           /\ (delete(p, s, n, c) => Keeps) /\ (fetch(p, s, n, c, e) => Keeps)
           /\ (respond(e) => Keeps)
<1>1. respond(e) => Keeps
  BY DEF respond, Keeps
<1>2. fetch(p, s, n, c, e) => Keeps
  BY DEF fetch, respond, Keeps
<1>3. create(p, s, n, e, c) => Keeps
  BY CommitKeeps DEF create, respond, Keeps
<1>4. modify(p, s, n, e, c) => Keeps
  BY CommitKeeps DEF modify, respond, Keeps
<1>5. delete(p, s, n, c) => Keeps
  BY CommitKeeps DEF delete, respond, Keeps
<1> QED BY <1>1, <1>2, <1>3, <1>4, <1>5

-----------------------------------------------------------------------------
BatchStores == {"jobs", "crons"}

\* Crons whose last run is that of a job in ran.
CronsTrue(crons, ran) ==
    \A n \in DOMAIN crons : /\ crons[n] \in CronEntry
                            /\ \A t \in crons[n].last_run : manual(n, t) \in ran

\* The inductive invariant: what the daemon has in memory tells the truth as well, since a
\* later command of another cron writes it out.
BatchInv ==
    /\ clock \in 0 .. MaxTime
    /\ "save" \notin faults => /\ IsMap(mem, BatchStores) /\ IsMap(disk, BatchStores)
                               /\ CronsTrue(mem.crons, manual_runs)
                               /\ CronsTrue(disk.crons, manual_runs)

\* Jobs that have run have run.
LEMMA CronsStayTrue ==
    ASSUME NEW crons, NEW a, NEW b, a \subseteq b, CronsTrue(crons, a)
    PROVE  CronsTrue(crons, b)
BY DEF CronsTrue

LEMMA NoCrons == ASSUME NEW a PROVE CronsTrue(EmptyStore, a)
BY DEF CronsTrue, EmptyStore

\* A command that stores crons whose last runs are known jobs.
LEMMA CronsWritten ==
    ASSUME BatchInv, "save" \notin faults', manual_runs \subseteq manual_runs', NEW p, NEW m,
           NEW answer, commit(p, write("crons", m), answer), CronsTrue(m, manual_runs)
    PROVE  BatchInv'
<1>1. "save" \notin faults
  BY CommitKeeps
<1>2. WroteOne(BatchStores, p, "crons", m, answer)
  BY <1>1, WritesOne DEF BatchInv, BatchStores
<1>3. /\ CronsTrue(m, manual_runs') /\ CronsTrue(EmptyStore, manual_runs')
      /\ CronsTrue(mem.crons, manual_runs') /\ CronsTrue(disk.crons, manual_runs')
  BY <1>1, CronsStayTrue, NoCrons DEF BatchInv
<1>4. disk'.crons \in {disk.crons, EmptyStore, m}
  BY <1>2 DEF WroteOne
<1>5. mem'.crons \in {mem.crons, disk'.crons, m}
  BY <1>1, <1>2, MapExcept DEF WroteOne, BatchInv, BatchStores
<1>6. clock' = clock /\ IsMap(mem', BatchStores) /\ IsMap(disk', BatchStores)
  BY <1>2 DEF WroteOne
<1> QED BY <1>3, <1>4, <1>5, <1>6 DEF BatchInv

\* One that stores jobs.
LEMMA JobsWritten ==
    ASSUME BatchInv, "save" \notin faults', manual_runs \subseteq manual_runs', NEW p, NEW m,
           NEW answer, commit(p, write("jobs", m), answer)
    PROVE  BatchInv'
<1>1. "save" \notin faults
  BY CommitKeeps
<1>2. WroteOne(BatchStores, p, "jobs", m, answer)
  BY <1>1, WritesOne DEF BatchInv, BatchStores
<1>3. CronsTrue(mem.crons, manual_runs') /\ CronsTrue(disk.crons, manual_runs')
  BY <1>1, CronsStayTrue DEF BatchInv
<1>4. disk'.crons = disk.crons
  BY <1>2 DEF WroteOne, BatchStores
<1>5. mem'.crons \in {mem.crons, disk'.crons}
  BY <1>1, <1>2, MapExcept DEF WroteOne, BatchInv, BatchStores
<1>6. clock' = clock /\ IsMap(mem', BatchStores) /\ IsMap(disk', BatchStores)
  BY <1>2 DEF WroteOne
<1> QED BY <1>3, <1>4, <1>5, <1>6 DEF BatchInv

\* A command that only answers.
LEMMA Unwritten ==
    ASSUME BatchInv, manual_runs \subseteq manual_runs', NEW answer, respond(answer)
    PROVE  BatchInv'
<1>1. mem' = mem /\ disk' = disk /\ clock' = clock /\ faults' = faults
  BY DEF respond
<1>2. CASE "save" \in faults
  BY <1>1, <1>2 DEF BatchInv
<1>3. CASE "save" \notin faults
  <2>1. CronsTrue(mem.crons, manual_runs') /\ CronsTrue(disk.crons, manual_runs')
    BY <1>3, CronsStayTrue DEF BatchInv
  <2> QED BY <1>1, <2>1 DEF BatchInv
<1> QED BY <1>2, <1>3

\* A cron entry with its flag, or its last run, set.
LEMMA Suspending ==
    ASSUME NEW e \in CronEntry, NEW b \in BOOLEAN
    PROVE  /\ [e EXCEPT !.suspended = b] \in CronEntry
           /\ [e EXCEPT !.suspended = b].last_run = e.last_run
BY DEF CronEntry

LEMMA Running ==
    ASSUME NEW e \in CronEntry, NEW t \in 0 .. MaxTime
    PROVE  /\ [e EXCEPT !.last_run = {t}] \in CronEntry
           /\ [e EXCEPT !.last_run = {t}].last_run = {t}
BY DEF CronEntry

\* The job is on disk before the cron that names it.
LEMMA TriggerWritten ==
    ASSUME BatchInv, "save" \notin faults',
           manual_runs' = manual_runs \cup {j \in DOMAIN disk'.jobs : j.at # {}},
           NEW p, NEW n, cron_trigger(p, n)
    PROVE  BatchInv'
<1> DEFINE crons == view(p).crons
           jobs == view(p).jobs
           j == manual(n, clock)
           J == Put(jobs, j, new_job(crons[n].image, 1, 1))
           C == [crons EXCEPT ![n].last_run = {clock}]
<1>1. CASE n \notin DOMAIN crons \/ j \in DOMAIN jobs
  <2>1. respond(Err("cron.trigger"))
    BY <1>1 DEF cron_trigger
  <2> QED BY <2>1, Unwritten
<1>2. CASE n \in DOMAIN crons /\ j \notin DOMAIN jobs
  <2>1. commit(p, write("jobs", J) \o write("crons", C), Ok("cron.trigger", j))
    BY <1>2 DEF cron_trigger, job_then_last_run
  <2>2. "save" \notin faults
    BY <2>1, CommitKeeps
  <2>3. CronsTrue(crons, manual_runs)
    BY <2>2 DEF BatchInv, view
  <2>4. crons[n] \in CronEntry /\ C = [crons EXCEPT ![n] = [crons[n] EXCEPT !.last_run = {clock}]]
    BY <1>2, <2>3 DEF CronsTrue
  <2>5. clock \in 0 .. MaxTime
    BY DEF BatchInv
  <2> HIDE DEF crons, jobs, C
  <2>6. \A c \in DOMAIN C : /\ C[c] \in CronEntry
                            /\ \A t \in C[c].last_run : manual(c, t) \in manual_runs \cup {j}
    <3> SUFFICES ASSUME NEW c \in DOMAIN C
                 PROVE  /\ C[c] \in CronEntry
                        /\ \A t \in C[c].last_run : manual(c, t) \in manual_runs \cup {j}
      OBVIOUS
    <3>1. c \in DOMAIN crons
      BY <2>4
    <3>2. CASE c = n
      <4>1. C[c] = [crons[n] EXCEPT !.last_run = {clock}]
        BY <1>2, <2>4, <3>2
      <4>2. C[c] \in CronEntry /\ C[c].last_run = {clock}
        BY <2>4, <2>5, <4>1, Running, Zenon
      <4> QED BY <3>2, <4>2
    <3>3. CASE c # n
      <4>1. C[c] = crons[c]
        BY <2>4, <3>1, <3>3
      <4> QED BY <2>3, <3>1, <4>1 DEF CronsTrue
    <3> QED BY <3>2, <3>3
  <2>7. j \in DOMAIN J /\ j.at # {}
    BY DEF Put, manual
  <2> HIDE DEF j, J
  <2>8. WroteTwo(BatchStores, p, "jobs", J, "crons", C, Ok("cron.trigger", j))
    BY <2>1, <2>2, WritesTwo DEF BatchInv, BatchStores
  <2>9. disk'.jobs = J => CronsTrue(C, manual_runs')
    BY <2>6, <2>7 DEF CronsTrue
  <2>10. /\ CronsTrue(EmptyStore, manual_runs')
         /\ CronsTrue(mem.crons, manual_runs') /\ CronsTrue(disk.crons, manual_runs')
    BY <2>2, CronsStayTrue, NoCrons DEF BatchInv
  <2>11. \/ disk'.crons \in {disk.crons, EmptyStore}
         \/ disk'.crons = C /\ disk'.jobs = J
    BY <2>8 DEF WroteTwo
  <2>12. mem'.crons \in {mem.crons, disk'.crons}
    <3>1. CASE mem' = disk' \/ mem' = mem
      BY <3>1
    <3>2. CASE mem' = [mem EXCEPT !["jobs"] = J, !["crons"] = C] /\ disk'.crons = C
      <4>1. "crons" \in DOMAIN mem
        BY <2>2 DEF BatchInv, IsMap, BatchStores
      <4> QED BY <3>2, <4>1
    <3> QED BY <2>8, <3>1, <3>2 DEF WroteTwo
  <2>13. clock' = clock /\ IsMap(mem', BatchStores) /\ IsMap(disk', BatchStores)
    BY <2>8 DEF WroteTwo
  <2> QED BY <2>9, <2>10, <2>11, <2>12, <2>13 DEF BatchInv
<1> QED BY <1>1, <1>2

\* So no job.* or cron.* command mends a failed snapshot.
LEMMA HandlerKeeps ==
    ASSUME NEW p, handle_job_command(p)
    PROVE  Keeps
<1>1. ASSUME NEW n, cron_trigger(p, n) PROVE Keeps
  BY <1>1, CommitKeeps DEF cron_trigger, respond, Keeps
<1>2. ASSUME NEW n, NEW image, NEW s, cron_create(p, n, s, image) PROVE Keeps
  BY <1>2, CommandsKeep DEF cron_create, CronStore_create
<1> QED BY <1>1, <1>2, CommandsKeep, Zenon
        DEF handle_job_command, job_create, JobStore_create, job_status, job_logs, job_delete,
            JobStore_delete, cron_list, cron_suspend, cron_resume, CronStore_update

\* What a process sees: the daemon its memory, an exec process the files.
LEMMA CronsOf ==
    ASSUME BatchInv, "save" \notin faults, NEW p
    PROVE  CronsTrue(view(p).crons, manual_runs)
BY DEF BatchInv, view

\* cron.suspend and cron.resume keep the last run.
LEMMA SuspendWritten ==
    ASSUME BatchInv, "save" \notin faults', manual_runs \subseteq manual_runs', NEW p, NEW n,
           NEW b \in BOOLEAN, NEW c,
           CronStore_update(p, n, [view(p).crons[n] EXCEPT !.suspended = b], c)
    PROVE  BatchInv'
<1> DEFINE crons == view(p).crons
           e == [crons[n] EXCEPT !.suspended = b]
           C == [crons EXCEPT ![n] = e]
<1>1. CASE n \notin DOMAIN crons
  BY <1>1, Unwritten DEF CronStore_update, modify
<1>2. CASE n \in DOMAIN crons
  <2>1. commit(p, write("crons", C), Ok(c, n))
    BY <1>2 DEF CronStore_update, modify
  <2>2. CronsTrue(crons, manual_runs)
    BY <2>1, CommitKeeps, CronsOf
  <2>3. e \in CronEntry /\ e.last_run = crons[n].last_run
    BY <1>2, <2>2, Suspending DEF CronsTrue
  <2> HIDE DEF crons, e
  <2>4. CronsTrue(C, manual_runs)
    BY <1>2, <2>2, <2>3 DEF CronsTrue
  <2> QED BY <2>1, <2>4, CronsWritten
<1> QED BY <1>1, <1>2

\* cron.create starts with no last run.
LEMMA CronCreated ==
    ASSUME BatchInv, "save" \notin faults', manual_runs \subseteq manual_runs', NEW p, NEW n,
           NEW s, NEW image \in Images, cron_create(p, n, s, image)
    PROVE  BatchInv'
<1> DEFINE crons == view(p).crons
           e == [image |-> image, suspended |-> FALSE, last_run |-> {}, created_at |-> clock]
<1>1. CASE ~ valid_schedule(s) \/ n \in DOMAIN crons
  BY <1>1, Unwritten DEF cron_create, CronStore_create, create
<1>2. CASE valid_schedule(s) /\ n \notin DOMAIN crons
  <2>1. commit(p, write("crons", Put(crons, n, e)), Ok("cron.create", n))
    BY <1>2 DEF cron_create, CronStore_create, create
  <2>2. CronsTrue(crons, manual_runs)
    BY <2>1, CommitKeeps, CronsOf
  <2>3. e \in CronEntry /\ e.last_run = {}
    BY DEF CronEntry, BatchInv
  <2> HIDE DEF crons, e
  <2>4. CronsTrue(Put(crons, n, e), manual_runs)
    BY <2>2, <2>3 DEF CronsTrue, Put
  <2> QED BY <2>1, <2>4, CronsWritten
<1> QED BY <1>1, <1>2

\* job.create and job.delete leave the crons alone.
LEMMA JobStored ==
    ASSUME BatchInv, "save" \notin faults', manual_runs \subseteq manual_runs', NEW p, NEW j, NEW e
    PROVE  (JobStore_create(p, j, e) \/ JobStore_delete(p, j)) => BatchInv'
<1>1. JobStore_create(p, j, e) => BatchInv'
  BY Unwritten, JobsWritten DEF JobStore_create, create
<1>2. JobStore_delete(p, j) => BatchInv'
  BY Unwritten, JobsWritten DEF JobStore_delete, delete
<1> QED BY <1>1, <1>2

\* job.status and job.logs only answer.
LEMMA Answered ==
    ASSUME BatchInv, manual_runs \subseteq manual_runs', NEW p, NEW s, NEW n, NEW c, NEW v,
           fetch(p, s, n, c, v)
    PROVE  BatchInv'
BY Unwritten DEF fetch

\* Every command, restart and tick keeps the invariant, which holds of a fresh node.
LEMMA BatchStep == BatchInv /\ [BatchNext]_batch_vars => BatchInv'
<1> SUFFICES ASSUME BatchInv, [BatchNext]_batch_vars PROVE BatchInv'
  OBVIOUS
<1>1. CASE UNCHANGED batch_vars
  BY <1>1 DEF batch_vars, store_vars, BatchInv
<1>2. CASE BatchNext
  <2> DEFINE Ran == {j \in DOMAIN disk'.jobs : j.at # {}}
  <2>1. manual_runs' = manual_runs \cup Ran /\ manual_runs \subseteq manual_runs'
    BY <1>2 DEF BatchNext
  <2>2. ASSUME NEW p \in Procs, handle_job_command(p) PROVE BatchInv'
    <3>1. CASE "save" \in faults'
      BY <2>2, <3>1, HandlerKeeps DEF BatchInv, Keeps
    <3>2. CASE "save" \notin faults'
      <4>1. ASSUME NEW n \in JobNames, NEW image \in Images, NEW c \in Counts,
                   job_create(p, n, image, c, 1)
            PROVE  BatchInv'
        BY <2>1, <3>2, <4>1, JobStored DEF job_create
      <4>2. ASSUME NEW j \in known_jobs, job_status(p, j) \/ job_logs(p, j) \/ job_delete(p, j)
            PROVE  BatchInv'
        BY <2>1, <3>2, <4>2, JobStored, Answered DEF job_status, job_logs, job_delete
      <4>3. ASSUME NEW n \in CronNames, NEW s \in Schedules, NEW image \in Images,
                   cron_create(p, n, s, image)
            PROVE  BatchInv'
        BY <2>1, <3>2, <4>3, CronCreated
      <4>4. ASSUME cron_list(p) PROVE BatchInv'
        BY <2>1, <4>4, Unwritten DEF cron_list
      <4>5. ASSUME NEW n \in CronNames, cron_trigger(p, n) PROVE BatchInv'
        BY <2>1, <3>2, <4>5, TriggerWritten
      <4>6. ASSUME NEW n \in CronNames, cron_suspend(p, n) \/ cron_resume(p, n) PROVE BatchInv'
        BY <2>1, <3>2, <4>6, SuspendWritten, Zenon DEF cron_suspend, cron_resume
      <4> QED BY <2>2, <4>1, <4>2, <4>3, <4>4, <4>5, <4>6 DEF handle_job_command
    <3> QED BY <3>1, <3>2
  <2>3. ASSUME restart PROVE BatchInv'
    BY <2>1, <2>3, CronsStayTrue DEF restart, BatchInv
  <2>4. ASSUME tick PROVE BatchInv'
    <3>1. clock' \in 0 .. MaxTime /\ mem' = mem /\ disk' = disk /\ faults' = faults
      BY <2>4, TimeAssumption DEF tick, BatchInv
    <3> QED BY <2>1, <3>1, CronsStayTrue DEF BatchInv
  <2> QED BY <1>2, <2>2, <2>3, <2>4 DEF BatchNext
<1> QED BY <1>1, <1>2

LEMMA BatchStart == BatchInit => BatchInv
<1> SUFFICES ASSUME BatchInit PROVE BatchInv
  OBVIOUS
<1>1. clock \in 0 .. MaxTime /\ IsMap(mem, BatchStores) /\ IsMap(disk, BatchStores)
  BY TimeAssumption DEF BatchInit, new, IsMap, BatchStores
<1>2. mem.crons = EmptyStore /\ disk.crons = EmptyStore
  BY DEF BatchInit, new
<1> QED BY <1>1, <1>2, NoCrons DEF BatchInv

\* cron.trigger stores the job before the cron's last_run: wherever a process dies, through
\* any number of restarts and beside an exec process, a last_run on disk is that of a job
\* that reached the disk, until a snapshot fails (job_cmd.rs, handle_job_command).
THEOREM CronRuns == BatchSpec => []CronRunsAreJobs
<1>1. BatchInv => CronRunsAreJobs
  BY DEF BatchInv, CronRunsAreJobs, CronsTrue
<1> QED BY <1>1, BatchStart, BatchStep, PTL DEF BatchSpec

-----------------------------------------------------------------------------
\* What is in f is in g as well.
Within(f, g) == \A n \in DOMAIN f : n \in DOMAIN g /\ g[n] = f[n]

\* The daemon knows no policy that is not on disk.
TenancyInv ==
    OwnSnapshots => /\ IsMap(mem, TenancyStores) /\ IsMap(disk, TenancyStores)
                    /\ Within(mem.policies, disk.policies)

\* What a step does to the policies: none is lost or changed, unless their file is torn.
PoliciesKept == /\ IsMap(mem', TenancyStores) /\ IsMap(disk', TenancyStores)
                /\ Within(mem'.policies, disk'.policies)
                /\ torn("policies") \/ Within(mem.policies, mem'.policies)

LEMMA WithinItself == ASSUME NEW f PROVE Within(f, f)
BY DEF Within

LEMMA PutWithin == ASSUME NEW f, NEW n, n \notin DOMAIN f, NEW e PROVE Within(f, Put(f, n, e))
BY DEF Within, Put

LEMMA WithinTwice == ASSUME NEW f, NEW g, NEW h, Within(f, g), Within(g, h) PROVE Within(f, h)
BY DEF Within

\* A step that touches no policies; one that only answers; one that writes namespaces; one
\* that changes labels or taints.
LEMMA PoliciesUntouched ==
    ASSUME TenancyInv, OwnSnapshots, mem'.policies = mem.policies, disk'.policies = disk.policies,
           IsMap(mem', TenancyStores), IsMap(disk', TenancyStores)
    PROVE  PoliciesKept
BY WithinItself DEF TenancyInv, PoliciesKept

LEMMA TenancyUnwritten ==
    ASSUME TenancyInv, OwnSnapshots', NEW answer, respond(answer)
    PROVE  PoliciesKept
<1>1. mem' = mem /\ disk' = disk /\ OwnSnapshots
  BY DEF respond, OwnSnapshots
<1> QED BY <1>1, PoliciesUntouched DEF TenancyInv

\* A write of the map m of the store s is made, or the daemon dies and loads what it left.
LEMMA TenancyWritten ==
    ASSUME TenancyInv, OwnSnapshots', NEW p \in Procs, NEW s \in TenancyStores, NEW m, NEW answer,
           commit(p, write(s, m), answer)
    PROVE  /\ OwnSnapshots /\ IsMap(mem', TenancyStores) /\ IsMap(disk', TenancyStores)
           /\ \A x \in TenancyStores \ {s} : disk'[x] = disk[x]
           /\ \/ /\ disk'[s] = m
                 /\ mem' = IF p = "daemon" THEN [mem EXCEPT ![s] = m] ELSE mem
              \/ /\ mem' = disk' /\ "crash" \in faults' \ faults
                 /\ disk'[s] \in {disk[s], EmptyStore, m}
<1>1. OwnSnapshots
  BY CommitKeeps DEF OwnSnapshots
<1>2. WroteOne(TenancyStores, p, s, m, answer)
  BY <1>1, WritesOne DEF TenancyInv, OwnSnapshots
<1> QED BY <1>1, <1>2 DEF WroteOne, OwnSnapshots

LEMMA NamespacesWritten ==
    ASSUME TenancyInv, OwnSnapshots', NEW p \in Procs, NEW m, NEW answer,
           commit(p, write("namespaces", m), answer)
    PROVE  PoliciesKept
<1>1. "namespaces" \in TenancyStores /\ "policies" \in TenancyStores \ {"namespaces"}
  BY DEF TenancyStores
<1>2. /\ OwnSnapshots /\ IsMap(mem', TenancyStores) /\ IsMap(disk', TenancyStores)
      /\ disk'["policies"] = disk["policies"]
      /\ \/ mem' = IF p = "daemon" THEN [mem EXCEPT !["namespaces"] = m] ELSE mem
         \/ mem' = disk'
  BY <1>1, TenancyWritten
<1>3. CASE mem' = disk'
  BY <1>2, <1>3, WithinItself DEF TenancyInv, PoliciesKept
<1>4. CASE mem' = IF p = "daemon" THEN [mem EXCEPT !["namespaces"] = m] ELSE mem
  <2>1. mem'["policies"] = mem["policies"]
    BY <1>1, <1>2, <1>4, MapExcept DEF TenancyInv
  <2> QED BY <1>2, <2>1, PoliciesUntouched
<1> QED BY <1>2, <1>3, <1>4

LEMMA Remembered ==
    ASSUME TenancyInv, OwnSnapshots', NEW p, NEW s \in {"labels", "taints"}, NEW m, NEW answer,
           remember(p, s, m, answer)
    PROVE  PoliciesKept
<1>1. /\ disk' = disk /\ OwnSnapshots
      /\ mem' = IF p = "daemon" THEN [mem EXCEPT ![s] = m] ELSE mem
  BY DEF remember, OwnSnapshots
<1>2. IsMap(mem', TenancyStores) /\ mem'.policies = mem.policies
  BY <1>1, MapExcept DEF TenancyInv, TenancyStores
<1> QED BY <1>1, <1>2, PoliciesUntouched DEF TenancyInv

\* A policy is added to those its process knows.
LEMMA PolicyCreated ==
    ASSUME TenancyInv, OwnSnapshots', NEW p \in Procs, NEW n, NEW e, PolicyStore_create(p, n, e)
    PROVE  PoliciesKept
<1> DEFINE known == view(p).policies
           m == Put(known, n, e)
<1>1. CASE n \in DOMAIN known
  BY <1>1, TenancyUnwritten DEF PolicyStore_create, create
<1>2. CASE n \notin DOMAIN known
  <2>1. commit(p, write("policies", m), Ok("policy.create", n))
    BY <1>2 DEF PolicyStore_create, create
  <2>2. OwnSnapshots
    BY <2>1, CommitKeeps DEF OwnSnapshots
  <2>3. Within(known, m) /\ Within(m, m)
    BY <1>2, PutWithin, WithinItself
  <2>4. known = IF p = "daemon" THEN mem.policies ELSE disk.policies
    BY DEF view
  <2> HIDE DEF known, m
  <2>5. Within(mem.policies, disk.policies) /\ Within(mem.policies, m)
    BY <2>2, <2>3, <2>4, WithinTwice DEF TenancyInv
  <2>6. "policies" \in TenancyStores /\ IsMap(mem, TenancyStores)
    BY <2>2 DEF TenancyInv, TenancyStores
  <2>7. /\ IsMap(mem', TenancyStores) /\ IsMap(disk', TenancyStores)
        /\ \/ /\ disk'["policies"] = m
              /\ mem' = IF p = "daemon" THEN [mem EXCEPT !["policies"] = m] ELSE mem
           \/ /\ mem' = disk' /\ "crash" \in faults' \ faults
              /\ disk'["policies"] \in {disk["policies"], EmptyStore, m}
    BY <2>1, <2>6, TenancyWritten
  <2>8. CASE mem' = disk' /\ "crash" \in faults' \ faults
    BY <2>5, <2>7, <2>8, WithinItself DEF PoliciesKept, torn
  <2>9. CASE disk'["policies"] = m /\ mem' = [mem EXCEPT !["policies"] = m]
    <3>1. [mem EXCEPT !["policies"] = m]["policies"] = m
      BY <2>6 DEF IsMap
    <3> QED BY <2>3, <2>5, <2>7, <2>9, <3>1 DEF PoliciesKept
  <2>10. CASE disk'["policies"] = m /\ mem' = mem
    BY <2>5, <2>7, <2>10, WithinItself DEF PoliciesKept
  <2> QED BY <2>7, <2>8, <2>9, <2>10
<1> QED BY <1>1, <1>2

\* Every command, of whatever process, and every restart.
LEMMA TenancyStep ==
    ASSUME TenancyInv, [TenancyNext]_store_vars, OwnSnapshots'
    PROVE  PoliciesKept
<1>1. CASE UNCHANGED store_vars
  BY <1>1, PoliciesUntouched DEF store_vars, TenancyInv, OwnSnapshots
<1>2. CASE restart
  <2>1. mem' = disk /\ disk' = disk /\ OwnSnapshots
    BY <1>2 DEF restart, OwnSnapshots
  <2> QED BY <2>1, WithinItself DEF TenancyInv, PoliciesKept
<1>3. ASSUME NEW p \in Procs, handle_namespace_command(p) PROVE PoliciesKept
  <2>1. ASSUME NEW n, NEW e, NamespaceStore_create(p, n, e) \/ NamespaceStore_update(p, n, e)
        PROVE  PoliciesKept
    BY <2>1, NamespacesWritten, TenancyUnwritten
       DEF NamespaceStore_create, NamespaceStore_update, create, modify
  <2>2. ASSUME NEW n, NEW q, namespace_create(p, n, q) \/ namespace_set_quota(p, n, q)
        PROVE  PoliciesKept
    BY <2>1, <2>2 DEF namespace_create, namespace_set_quota
  <2>3. ASSUME NEW n, namespace_usage(p, n) \/ namespace_list(p)
        PROVE  PoliciesKept
    BY <2>3, TenancyUnwritten DEF namespace_usage, namespace_list, fetch
  <2>4. ASSUME NEW l, NEW v, node_label(p, l, v) PROVE PoliciesKept
    BY <2>4, Remembered DEF node_label
  <2>5. ASSUME NEW l, NEW e, node_taint(p, l, e) PROVE PoliciesKept
    BY <2>5, Remembered, TenancyUnwritten DEF node_taint
  <2> QED BY <1>3, <2>2, <2>3, <2>4, <2>5 DEF handle_namespace_command
<1>4. ASSUME NEW p \in Procs, handle_policy_command(p) PROVE PoliciesKept
  BY <1>4, PolicyCreated, TenancyUnwritten, Zenon
     DEF handle_policy_command, policy_create, policy_validate, policy_list
<1> QED BY <1>1, <1>2, <1>3, <1>4 DEF TenancyNext

\* A workload that policy.validate rejects stays rejected whatever policy.create adds: beside
\* any exec processes until a save fails or a process dies, and in a daemon that has its
\* stores to itself through crashes too, unless one tears the policy file (policy_cmd.rs).
THEOREM PoliciesStand == TenancySpec => [][RejectionsStand]_store_vars
<1>1. TenancyInit => TenancyInv
  BY WithinItself DEF TenancyInit, new, TenancyInv, IsMap, TenancyStores
<1>2. TenancyInv /\ [TenancyNext]_store_vars => TenancyInv'
  BY TenancyStep DEF PoliciesKept, TenancyInv
<1>3. TenancyInv /\ [TenancyNext]_store_vars => RejectionsStand
  <2> SUFFICES ASSUME TenancyInv, [TenancyNext]_store_vars, OwnSnapshots', ~ torn("policies"),
                      NEW spec \in Specs, NEW n \in violations(mem.policies, spec)
               PROVE  n \in violations(mem'.policies, spec)
    BY DEF RejectionsStand
  <2>1. Within(mem.policies, mem'.policies)
    BY TenancyStep DEF PoliciesKept
  <2> QED BY <2>1 DEF Within, violations, list_enabled
<1> QED BY <1>1, <1>2, <1>3, PTL DEF TenancySpec

-----------------------------------------------------------------------------
\* A daemon whose memory is what is on disk, after a write of the map m of the store s: the
\* two agree again, and the store has the map, or the process died.
LEMMA DaemonWritesOne ==
    ASSUME NEW S, IsMap(mem, S), mem = disk, NEW s \in S, NEW m, NEW answer,
           commit("daemon", write(s, m), answer), "save" \notin faults'
    PROVE  /\ mem' = disk' /\ IsMap(mem', S) /\ clock' = clock
           /\ \A x \in S \ {s} : mem'[x] = mem[x]
           /\ \/ reply' = answer /\ faults' = faults /\ mem'[s] = m
              \/ /\ reply' = NoReply /\ "crash" \notin faults /\ faults' = faults \cup {"crash"}
                 /\ mem'[s] \in {mem[s], EmptyStore, m}
<1>1. WroteOne(S, "daemon", s, m, answer)
  BY WritesOne
<1>2. CASE mem' = disk'
  BY <1>1, <1>2 DEF WroteOne
<1>3. CASE mem' = [mem EXCEPT ![s] = m] /\ disk'[s] = m
  <2>1. IsMap(mem', S) /\ mem'[s] = m /\ \A x \in S \ {s} : mem'[x] = mem[x]
    <3>1. /\ IsMap([mem EXCEPT ![s] = m], S) /\ [mem EXCEPT ![s] = m][s] = m
          /\ \A x \in S \ {s} : [mem EXCEPT ![s] = m][x] = mem[x]
      BY MapExcept
    <3> QED BY <1>3, <3>1
  <2>2. mem' = disk'
    BY <1>1, <1>3, <2>1 DEF WroteOne, IsMap
  <2> QED BY <1>1, <2>1, <2>2 DEF WroteOne
<1> QED BY <1>1, <1>2, <1>3 DEF WroteOne

\* And after writes of m to s and then of n to t.
LEMMA DaemonWritesTwo ==
    ASSUME NEW S, IsMap(mem, S), mem = disk, NEW s \in S, NEW m, NEW t \in S, NEW n, s # t,
           NEW answer, commit("daemon", write(s, m) \o write(t, n), answer), "save" \notin faults'
    PROVE  /\ mem' = disk' /\ IsMap(mem', S) /\ clock' = clock
           /\ \A x \in S \ {s, t} : mem'[x] = mem[x]
           /\ \/ reply' = answer /\ faults' = faults /\ mem'[s] = m /\ mem'[t] = n
              \/ /\ reply' = NoReply /\ "crash" \notin faults /\ faults' = faults \cup {"crash"}
                 /\ \/ mem'[s] \in {mem[s], EmptyStore} /\ mem'[t] = mem[t]
                    \/ mem'[s] = m /\ mem'[t] \in {mem[t], EmptyStore, n}
<1>1. WroteTwo(S, "daemon", s, m, t, n, answer)
  BY WritesTwo
<1>2. CASE mem' = disk'
  BY <1>1, <1>2 DEF WroteTwo
<1>3. CASE mem' = [mem EXCEPT ![s] = m, ![t] = n] /\ disk'[s] = m /\ disk'[t] = n
  <2>1. mem'[s] = m /\ mem'[t] = n /\ \A x \in S \ {s, t} : mem'[x] = mem[x]
    BY <1>3 DEF IsMap
  <2>2. mem' = disk'
    BY <1>1, <1>3, <2>1 DEF WroteTwo, IsMap
  <2> QED BY <1>1, <2>1, <2>2 DEF WroteTwo
<1> QED BY <1>1, <1>2, <1>3 DEF WroteTwo

-----------------------------------------------------------------------------
\* With no process beside it the daemon's memory is what is on disk, until a snapshot fails.
Agree(S) == IsMap(mem, S) /\ mem = disk

\* The inductive invariant of configs and autoscalers.
SettingInv == "save" \notin faults => Agree(SettingStores)

ConfigsStand == \A n \in DOMAIN mem.configs :
                    mem.configs[n].immutable /\ n \in DOMAIN mem'.configs
                    => mem'.configs[n] = mem.configs[n]

SettingKept == Agree(SettingStores)' /\ ConfigsStand

\* A step that leaves the configs alone.
LEMMA ConfigsUntouched ==
    ASSUME Agree(SettingStores)', mem'.configs = mem.configs PROVE SettingKept
BY DEF SettingKept, ConfigsStand

LEMMA SettingUnwritten ==
    ASSUME SettingInv, "save" \notin faults', NEW answer, respond(answer)
    PROVE  SettingKept
<1>1. mem' = mem /\ disk' = disk /\ "save" \notin faults
  BY DEF respond
<1> QED BY <1>1, ConfigsUntouched DEF SettingInv, Agree

LEMMA AutoscaleWritten ==
    ASSUME SettingInv, "save" \notin faults', NEW m, NEW answer,
           commit("daemon", write("autoscale", m), answer)
    PROVE  SettingKept
<1>1. "save" \notin faults
  BY CommitKeeps
<1>2. "autoscale" \in SettingStores /\ "configs" \in SettingStores
  BY DEF SettingStores
<1>3. mem' = disk' /\ IsMap(mem', SettingStores) /\ mem'["configs"] = mem["configs"]
  BY <1>1, <1>2, DaemonWritesOne DEF SettingInv, Agree
<1> QED BY <1>3, ConfigsUntouched DEF Agree

\* What is stored of the configs leaves the immutable ones alone.
LEMMA ConfigsWritten ==
    ASSUME SettingInv, "save" \notin faults', NEW m, NEW answer,
           commit("daemon", write("configs", m), answer),
           \A n \in DOMAIN mem.configs : mem.configs[n].immutable /\ n \in DOMAIN m
                                         => m[n] = mem.configs[n]
    PROVE  SettingKept
<1>1. "save" \notin faults
  BY CommitKeeps
<1>2. "configs" \in SettingStores
  BY DEF SettingStores
<1>3. mem' = disk' /\ IsMap(mem', SettingStores)
      /\ mem'["configs"] \in {mem["configs"], EmptyStore, m}
  BY <1>1, <1>2, DaemonWritesOne DEF SettingInv, Agree
<1>4. DOMAIN EmptyStore = {}
  BY DEF EmptyStore
<1>5. ConfigsStand
  BY <1>3, <1>4 DEF ConfigsStand
<1> QED BY <1>3, <1>5 DEF SettingKept, Agree

\* Every config.* command, every autoscale.* command, and the other steps of a daemon that
\* has the stores to itself.
LEMMA ConfigStep ==
    ASSUME SettingInv, "save" \notin faults', handle_config_command("daemon")
    PROVE  SettingKept
<1> DEFINE configs == view("daemon").configs
<1>1. configs = mem.configs
  BY DEF view
<1>2. ASSUME NEW n, NEW d, NEW immutable, config_create("daemon", n, d, immutable)
      PROVE  SettingKept
  <2> DEFINE e == [data |-> d, immutable |-> immutable, created_at |-> clock, updated_at |-> clock]
  <2>1. CASE n \in DOMAIN configs
    BY <1>2, <2>1, SettingUnwritten DEF config_create, ConfigStore_create, create
  <2>2. CASE n \notin DOMAIN configs
    <3>1. commit("daemon", write("configs", Put(configs, n, e)), Ok("config.create", n))
      BY <1>2, <2>2 DEF config_create, ConfigStore_create, create
    <3>2. \A x \in DOMAIN mem.configs : Put(configs, n, e)[x] = mem.configs[x]
      BY <1>1, <2>2 DEF Put
    <3> HIDE DEF configs, e
    <3> QED BY <3>1, <3>2, ConfigsWritten
  <2> QED BY <2>1, <2>2
<1>3. ASSUME NEW n, NEW d, config_update("daemon", n, d) PROVE SettingKept
  <2> DEFINE e == set_data(configs[n], d)
             m == [configs EXCEPT ![n] = e]
  <2>1. CASE n \notin DOMAIN configs \/ configs[n].immutable
    BY <1>3, <2>1, SettingUnwritten DEF config_update, ConfigStore_update, modify
  <2>2. CASE n \in DOMAIN configs /\ ~ configs[n].immutable
    <3>1. commit("daemon", write("configs", m), Ok("config.update", n))
      BY <1>3, <2>2 DEF config_update, ConfigStore_update, modify
    <3> HIDE DEF e
    <3>2. \A x \in DOMAIN mem.configs : mem.configs[x].immutable => m[x] = mem.configs[x]
      BY <1>1, <2>2
    <3> HIDE DEF m
    <3> QED BY <3>1, <3>2, ConfigsWritten
  <2> QED BY <2>1, <2>2
<1>4. ASSUME NEW n, config_delete("daemon", n) PROVE SettingKept
  <2>1. CASE n \notin DOMAIN configs
    BY <1>4, <2>1, SettingUnwritten DEF config_delete, ConfigStore_delete, delete
  <2>2. CASE n \in DOMAIN configs
    <3>1. commit("daemon", write("configs", Drop(configs, n)), Ok("config.delete", n))
      BY <1>4, <2>2 DEF config_delete, ConfigStore_delete, delete
    <3>2. \A x \in DOMAIN Drop(configs, n) : Drop(configs, n)[x] = mem.configs[x]
      BY <1>1 DEF Drop
    <3> HIDE DEF configs
    <3> QED BY <3>1, <3>2, ConfigsWritten
  <2> QED BY <2>1, <2>2
<1>5. ASSUME NEW n, config_get("daemon", n) PROVE SettingKept
  BY <1>5, SettingUnwritten DEF config_get, fetch
<1>6. ASSUME NEW prefix, config_list("daemon", prefix) PROVE SettingKept
  BY <1>6, SettingUnwritten DEF config_list
<1> QED BY <1>2, <1>3, <1>4, <1>5, <1>6 DEF handle_config_command

LEMMA AutoscaleStep ==
    ASSUME SettingInv, "save" \notin faults', handle_autoscale_command("daemon")
    PROVE  SettingKept
<1>1. ASSUME NEW n, NEW min, NEW max, autoscale_create("daemon", n, min, max) PROVE SettingKept
  BY <1>1, SettingUnwritten, AutoscaleWritten DEF autoscale_create, AutoscaleStore_create, create
<1>2. ASSUME NEW n, NEW r, AutoscaleStore_update("daemon", n, r) PROVE SettingKept
  BY <1>2, SettingUnwritten, AutoscaleWritten DEF AutoscaleStore_update, modify
<1>3. ASSUME panic("daemon") PROVE SettingKept
  <2>1. mem' = disk /\ disk' = disk /\ "save" \notin faults
    BY <1>3 DEF panic
  <2> QED BY <2>1, ConfigsUntouched DEF SettingInv, Agree
<1>4. ASSUME NEW n, NEW min, NEW max, NEW r, NEW on, autoscale_adjust("daemon", n, min, max, r, on)
      PROVE  SettingKept
  BY <1>2, <1>3, <1>4, SettingUnwritten DEF autoscale_adjust
<1>5. ASSUME NEW n, autoscale_status("daemon", n) \/ autoscale_delete("daemon", n) PROVE SettingKept
  BY <1>5, SettingUnwritten, AutoscaleWritten
     DEF autoscale_status, fetch, autoscale_delete, AutoscaleStore_delete, delete
<1> QED BY <1>1, <1>4, <1>5 DEF handle_autoscale_command

LEMMA SettingStep ==
    ASSUME Procs = {"daemon"}, SettingInv, [SettingNext]_store_vars, "save" \notin faults'
    PROVE  SettingKept
<1>1. CASE UNCHANGED store_vars
  <2>1. mem' = mem /\ disk' = disk /\ faults' = faults
    BY <1>1 DEF store_vars
  <2> QED BY <2>1, ConfigsUntouched DEF SettingInv, Agree
<1>2. CASE restart \/ tick
  <2>1. disk' = disk /\ mem' \in {mem, disk} /\ faults' = faults
    BY <1>2 DEF restart, tick
  <2> QED BY <2>1, ConfigsUntouched DEF SettingInv, Agree
<1> QED BY <1>1, <1>2, ConfigStep, AutoscaleStep DEF SettingNext

\* A daemon that has its stores to itself: an immutable config that is still there has the
\* data it was created with, through restarts and crashes, until a snapshot fails
\* (config_cmd.rs; a torn file loses the config, it does not change it).
THEOREM ImmutableConfigs ==
    ASSUME Procs = {"daemon"} PROVE SettingSpec => [][ImmutableStands]_store_vars
<1>1. SettingInit => SettingInv
  BY DEF SettingInit, new, SettingInv, Agree, IsMap
<1>2. SettingInv /\ [SettingNext]_store_vars => SettingInv'
  BY SettingStep DEF SettingKept, SettingInv
<1>3. SettingInv /\ [SettingNext]_store_vars => ImmutableStands
  BY SettingStep DEF SettingKept, ConfigsStand, ImmutableStands
<1> QED BY <1>1, <1>2, <1>3, PTL DEF SettingSpec

-----------------------------------------------------------------------------
\* A volume is bound exactly when it names a container.
VolumesTrue(volumes) ==
    \A v \in DOMAIN volumes : /\ volumes[v] \in VolumeRecord
                              /\ volumes[v].bound_to = {} <=> volumes[v].state = "available"

\* A copy of the state directory has no store file at its top.
StorageInv ==
    /\ \A id \in DOMAIN archives : archives[id].files = NoFiles
    /\ "save" \notin faults => /\ Agree(StorageStores) /\ clock \in 0 .. MaxTime
                              /\ VolumesTrue(mem.volumes)

\* A bound volume is there afterwards, bound to the same container or unmounted.
VolumesStand(volumes, after) ==
    \A v \in DOMAIN volumes :
        volumes[v].state = "bound"
        => /\ v \in DOMAIN after
           /\ after[v].bound_to \in {volumes[v].bound_to, {}}
           /\ after[v].bound_to = {} <=> after[v].state = "available"

StorageKept == /\ Agree(StorageStores)' /\ clock' \in 0 .. MaxTime /\ VolumesTrue(mem'.volumes)
               /\ torn("volumes") \/ VolumesStand(mem.volumes, mem'.volumes)

\* A step that leaves the volumes alone, and what a write leaves.
LEMMA VolumesUntouched ==
    ASSUME StorageInv, "save" \notin faults, Agree(StorageStores)', clock' \in 0 .. MaxTime,
           mem'.volumes = mem.volumes
    PROVE  StorageKept
BY DEF StorageInv, StorageKept, VolumesTrue, VolumesStand

LEMMA StorageUnwritten ==
    ASSUME StorageInv, "save" \notin faults', NEW answer, respond(answer)
    PROVE  StorageKept
<1>1. mem' = mem /\ disk' = disk /\ "save" \notin faults /\ clock' = clock
  BY DEF respond
<1> QED BY <1>1, VolumesUntouched DEF StorageInv, Agree

LEMMA StorageWritten ==
    ASSUME StorageInv, "save" \notin faults', NEW s \in StorageStores, NEW m, NEW answer,
           commit("daemon", write(s, m), answer)
    PROVE  /\ "save" \notin faults /\ Agree(StorageStores)' /\ clock' \in 0 .. MaxTime
           /\ mem'[s] \in {mem[s], m} \/ torn(s)
           /\ \A x \in StorageStores \ {s} : mem'[x] = mem[x]
<1>1. "save" \notin faults
  BY CommitKeeps
<1>2. /\ mem' = disk' /\ IsMap(mem', StorageStores) /\ clock' = clock
      /\ \A x \in StorageStores \ {s} : mem'[x] = mem[x]
      /\ \/ mem'[s] = m
         \/ "crash" \in faults' \ faults /\ mem'[s] \in {mem[s], EmptyStore, m}
  BY <1>1, DaemonWritesOne DEF StorageInv, Agree
<1> QED BY <1>1, <1>2 DEF StorageInv, Agree, torn

LEMMA VolumesWritten ==
    ASSUME StorageInv, "save" \notin faults', NEW m, NEW answer,
           commit("daemon", write("volumes", m), answer),
           VolumesTrue(m), VolumesStand(mem.volumes, m)
    PROVE  StorageKept
<1>1. "volumes" \in StorageStores
  BY DEF StorageStores
<1>2. /\ "save" \notin faults /\ Agree(StorageStores)' /\ clock' \in 0 .. MaxTime
      /\ mem'["volumes"] \in {mem["volumes"], m} \/ torn("volumes")
  BY <1>1, StorageWritten, Zenon
<1>3. CASE mem'.volumes = mem.volumes
  BY <1>2, <1>3, VolumesUntouched
<1>4. CASE mem'.volumes = m
  BY <1>2, <1>4 DEF StorageKept
<1>5. CASE torn("volumes")
  <2>1. mem'.volumes = EmptyStore /\ DOMAIN EmptyStore = {}
    BY <1>5 DEF torn, EmptyStore
  <2> QED BY <1>2, <1>5, <2>1 DEF StorageKept, VolumesTrue
<1> QED BY <1>2, <1>3, <1>4, <1>5

LEMMA BackupsWritten ==
    ASSUME StorageInv, "save" \notin faults', NEW m, NEW answer,
           commit("daemon", write("backups", m), answer)
    PROVE  StorageKept
<1>1. "backups" \in StorageStores /\ "volumes" \in StorageStores \ {"backups"}
  BY DEF StorageStores
<1>2. "save" \notin faults /\ Agree(StorageStores)' /\ clock' \in 0 .. MaxTime
      /\ mem'["volumes"] = mem["volumes"]
  BY <1>1, StorageWritten
<1> QED BY <1>2, VolumesUntouched

\* volume.create.
LEMMA VolumeCreated ==
    ASSUME StorageInv, "save" \notin faults', NEW v, NEW type \in VolumeTypes, NEW path \in BOOLEAN,
           volume_create("daemon", v, type, path)
    PROVE  StorageKept
<1> DEFINE volumes == view("daemon").volumes
           e == [volume_type |-> type, host_path |-> path \/ type = "emptydir",
                 state |-> "available", bound_to |-> {}, created_at |-> clock]
           m == Put(volumes, v, e)
<1>1. volumes = mem.volumes
  BY DEF view
<1>2. CASE (type = "hostpath" /\ ~ path) \/ v \in DOMAIN volumes
  BY <1>2, StorageUnwritten, Zenon DEF volume_create, VolumeStore_create, create
<1>3. CASE ~ (type = "hostpath" /\ ~ path) /\ v \notin DOMAIN volumes
  <2>1. commit("daemon", write("volumes", m), Ok("volume.create", v))
    BY <1>3, Zenon DEF volume_create, VolumeStore_create, create
  <2>2. "save" \notin faults
    BY <2>1, CommitKeeps
  <2>3. clock \in 0 .. MaxTime /\ VolumesTrue(mem.volumes)
    BY <2>2 DEF StorageInv
  <2>4. e \in VolumeRecord /\ e.bound_to = {} /\ e.state = "available"
    BY <2>3 DEF VolumeRecord
  <2> HIDE DEF e
  <2>5. m[v] = e /\ DOMAIN m = DOMAIN mem.volumes \cup {v}
        /\ \A x \in DOMAIN mem.volumes : m[x] = mem.volumes[x]
    BY <1>1, <1>3 DEF Put
  <2> HIDE DEF m
  <2>6. VolumesTrue(m) /\ VolumesStand(mem.volumes, m)
    BY <2>3, <2>4, <2>5 DEF VolumesTrue, VolumesStand
  <2> QED BY <2>1, <2>6, VolumesWritten
<1> QED BY <1>2, <1>3

\* What a volume may be bound to: nothing or one container.
Bindings == {{}} \cup {{c} : c \in Containers}

\* volume.mount of a volume that is not bound, and volume.unmount.
LEMMA VolumeUpdated ==
    ASSUME StorageInv, "save" \notin faults', NEW v, NEW s \in {"available", "bound"},
           NEW b \in Bindings, b = {} <=> s = "available",
           v \in DOMAIN mem.volumes /\ mem.volumes[v].state = "bound" => b = {}, NEW c,
           VolumeStore_update("daemon", v,
              [view("daemon").volumes[v] EXCEPT !.state = s, !.bound_to = b], c)
    PROVE  StorageKept
<1> DEFINE volumes == view("daemon").volumes
           e == [volumes[v] EXCEPT !.state = s, !.bound_to = b]
           m == [volumes EXCEPT ![v] = e]
<1>1. volumes = mem.volumes
  BY DEF view
<1>2. CASE v \notin DOMAIN volumes
  BY <1>2, StorageUnwritten DEF VolumeStore_update, modify
<1>3. CASE v \in DOMAIN volumes
  <2>1. commit("daemon", write("volumes", m), Ok(c, v))
    BY <1>3 DEF VolumeStore_update, modify
  <2>2. VolumesTrue(mem.volumes)
    BY <2>1, CommitKeeps DEF StorageInv
  <2>3. e \in VolumeRecord /\ e.state = s /\ e.bound_to = b
    <3> DEFINE r == volumes[v]
    <3>1. r \in VolumeRecord
      BY <1>1, <1>3, <2>2 DEF VolumesTrue
    <3> HIDE DEF r
    <3>2. /\ [r EXCEPT !.state = s, !.bound_to = b] \in VolumeRecord
          /\ [r EXCEPT !.state = s, !.bound_to = b].state = s
          /\ [r EXCEPT !.state = s, !.bound_to = b].bound_to = b
      BY <3>1, Zenon DEF VolumeRecord, Bindings
    <3> QED BY <3>2 DEF r
  <2> HIDE DEF e
  <2>4. m[v] = e /\ DOMAIN m = DOMAIN mem.volumes
        /\ \A x \in DOMAIN mem.volumes \ {v} : m[x] = mem.volumes[x]
    BY <1>1, <1>3
  <2> HIDE DEF m
  <2>5. VolumesTrue(m)
    BY <2>2, <2>3, <2>4 DEF VolumesTrue
  <2>6. VolumesStand(mem.volumes, m)
    BY <1>1, <2>2, <2>3, <2>4 DEF VolumesTrue, VolumesStand
  <2> QED BY <2>1, <2>5, <2>6, VolumesWritten
<1> QED BY <1>2, <1>3

\* volume.delete, which refuses a bound volume.
LEMMA VolumeDeleted ==
    ASSUME StorageInv, "save" \notin faults', NEW v, volume_delete("daemon", v)
    PROVE  StorageKept
<1> DEFINE volumes == view("daemon").volumes
           m == Drop(volumes, v)
<1>1. volumes = mem.volumes
  BY DEF view
<1>2. CASE bound("daemon", v) \/ v \notin DOMAIN volumes
  BY <1>2, StorageUnwritten DEF volume_delete, VolumeStore_delete, delete
<1>3. CASE ~ bound("daemon", v) /\ v \in DOMAIN volumes
  <2>1. commit("daemon", write("volumes", m), Ok("volume.delete", v))
    BY <1>3 DEF volume_delete, VolumeStore_delete, delete
  <2>2. VolumesTrue(mem.volumes)
    BY <2>1, CommitKeeps DEF StorageInv
  <2>3. DOMAIN m = DOMAIN mem.volumes \ {v} /\ \A x \in DOMAIN m : m[x] = mem.volumes[x]
    BY <1>1 DEF Drop
  <2>4. mem.volumes[v].state # "bound"
    BY <1>1, <1>3 DEF bound
  <2> HIDE DEF m
  <2>5. VolumesTrue(m)
    BY <2>2, <2>3 DEF VolumesTrue
  <2>6. VolumesStand(mem.volumes, m)
    BY <2>2, <2>3, <2>4 DEF VolumesTrue, VolumesStand
  <2> QED BY <2>1, <2>5, <2>6, VolumesWritten
<1> QED BY <1>2, <1>3

\* A restored copy brings no store file with it: what was on disk stays.
LEMMA RestoredNothing ==
    ASSUME StorageInv, "save" \notin faults, NEW id \in DOMAIN archives
    PROVE  restored(archives[id]) = disk
<1>1. archives[id].files = <<>> /\ IsMap(disk, StorageStores)
  BY DEF StorageInv, Agree, NoFiles
<1>2. DOMAIN disk = StorageStores
  BY <1>1 DEF IsMap
<1>3. DOMAIN <<>> = {}
  OBVIOUS
<1> QED BY <1>1, <1>2, <1>3 DEF restored, IsMap

\* Every volume.* and backup.* command.
LEMMA StorageCommand ==
    ASSUME StorageInv, "save" \notin faults', handle_storage_command("daemon")
    PROVE  StorageKept
<1>1. ASSUME NEW v \in Volumes, NEW c \in Containers, volume_mount("daemon", v, c)
      PROVE  StorageKept
  <2>1. CASE bound("daemon", v)
    BY <1>1, <2>1, StorageUnwritten DEF volume_mount
  <2>2. CASE ~ bound("daemon", v)
    <3>1. VolumeStore_update("daemon", v,
             [view("daemon").volumes[v] EXCEPT !.state = "bound", !.bound_to = {c}],
             "volume.mount")
      BY <1>1, <2>2 DEF volume_mount
    <3>2. ~ (v \in DOMAIN mem.volumes /\ mem.volumes[v].state = "bound")
      BY <2>2 DEF bound, view
    <3>3. {c} \in Bindings /\ ({c} = {} <=> "bound" = "available")
      BY DEF Bindings
    <3> QED BY <3>1, <3>2, <3>3, VolumeUpdated, Zenon
  <2> QED BY <2>1, <2>2
<1>2. ASSUME NEW v \in Volumes, volume_unmount("daemon", v) PROVE StorageKept
  <2>1. {} \in Bindings /\ ({} = {} <=> "available" = "available")
    BY DEF Bindings
  <2> QED BY <1>2, <2>1, VolumeUpdated, Zenon DEF volume_unmount
<1>3. ASSUME NEW v, volume_snapshot("daemon", v) PROVE StorageKept
  BY <1>3, StorageUnwritten DEF volume_snapshot
<1>4. CASE volume_list("daemon") \/ backup_list("daemon")
  BY <1>4, StorageUnwritten DEF volume_list, backup_list
<1>5. ASSUME backup_create("daemon") PROVE StorageKept
  BY <1>5, StorageUnwritten, BackupsWritten DEF backup_create, BackupStore_create, create
<1>6. ASSUME NEW id, backup_restore("daemon", id) PROVE StorageKept
  <2>1. CASE respond(Err("backup.restore"))
    BY <2>1, StorageUnwritten
  <2>2. CASE /\ id \in DOMAIN archives /\ disk' = restored(archives[id])
             /\ UNCHANGED <<mem, clock, faults>>
    <3>1. "save" \notin faults /\ disk' = disk /\ mem' = mem /\ clock' = clock
      BY <2>2, RestoredNothing
    <3> QED BY <3>1, VolumesUntouched DEF StorageInv, Agree
  <2> QED BY <1>6, <2>1, <2>2 DEF backup_restore
<1> QED BY <1>1, <1>2, <1>3, <1>4, <1>5, <1>6, VolumeCreated, VolumeDeleted
       DEF handle_storage_command

\* Whatever process makes it, a backup holds no store file at its top.
LEMMA ArchivesTrue ==
    ASSUME StorageInv, [StorageNext]_storage_vars
    PROVE  \A id \in DOMAIN archives' : archives'[id].files = NoFiles
<1>1. CASE archives' = archives
  BY <1>1 DEF StorageInv
<1>2. CASE archives' = Put(archives, clock, copied_state)
  BY <1>2 DEF StorageInv, Put, copied_state, Tree
<1>3. ASSUME NEW p, handle_storage_command(p)
      PROVE  archives' = archives \/ archives' = Put(archives, clock, copied_state)
  BY <1>3, Zenon DEF handle_storage_command, backup_create, backup_restore
<1> QED BY <1>1, <1>2, <1>3 DEF StorageNext, storage_vars

\* Every step of a daemon that has the stores to itself.
LEMMA StorageStep ==
    ASSUME Procs = {"daemon"}, StorageInv, [StorageNext]_storage_vars, "save" \notin faults'
    PROVE  StorageKept
<1>1. CASE UNCHANGED storage_vars
  <2>1. mem' = mem /\ disk' = disk /\ clock' = clock /\ faults' = faults
    BY <1>1 DEF storage_vars, store_vars
  <2> QED BY <2>1, VolumesUntouched DEF StorageInv, Agree
<1>2. CASE restart
  <2>1. mem' = disk /\ disk' = disk /\ clock' = clock /\ "save" \notin faults
    BY <1>2 DEF restart
  <2> QED BY <2>1, VolumesUntouched DEF StorageInv, Agree
<1>3. CASE tick
  <2>1. mem' = mem /\ disk' = disk /\ "save" \notin faults
    BY <1>3 DEF tick
  <2>2. clock' \in 0 .. MaxTime
    BY <1>3, <2>1, TimeAssumption DEF tick, StorageInv
  <2> QED BY <2>1, <2>2, VolumesUntouched DEF StorageInv, Agree
<1> QED BY <1>1, <1>2, <1>3, StorageCommand DEF StorageNext

\* A daemon that has its stores to itself: a mounted volume is neither deleted nor mounted
\* elsewhere before it is unmounted, also by a backup.restore, through restarts and crashes,
\* until a snapshot fails or a crash tears the file of the volumes (storage_cmd.rs).
THEOREM MountedVolumes ==
    ASSUME Procs = {"daemon"} PROVE StorageSpec => [][MountsStand]_storage_vars
<1>1. StorageInit => StorageInv
  <2> SUFFICES ASSUME StorageInit PROVE StorageInv
    OBVIOUS
  <2>1. DOMAIN archives = {} /\ DOMAIN EmptyStore = {}
    BY DEF StorageInit, EmptyStore
  <2>2. Agree(StorageStores) /\ mem.volumes = EmptyStore /\ clock \in 0 .. MaxTime
    BY TimeAssumption DEF StorageInit, new, Agree, IsMap, StorageStores
  <2> QED BY <2>1, <2>2 DEF StorageInv, VolumesTrue
<1>2. StorageInv /\ [StorageNext]_storage_vars => StorageInv'
  BY StorageStep, ArchivesTrue DEF StorageKept, StorageInv
<1>3. StorageInv /\ [StorageNext]_storage_vars => MountsStand
  BY StorageStep, Zenon DEF StorageKept, VolumesStand, MountsStand
<1> QED BY <1>1, <1>2, <1>3, PTL DEF StorageSpec

-----------------------------------------------------------------------------
\* A key that authenticates.
Open(keys, k) == k \in DOMAIN keys /\ keys[k].active

\* Keys are stored under their hash.
KeysTrue(keys) == \A k \in DOMAIN keys : keys[k] \in ApiKeyRecord /\ keys[k].secret_hash = k

\* A logged revocation was acknowledged, or the process died before it could be; that
\* happens once, so that the key is still there, inactive.
LogTrue(log, keys, acknowledged, gone_wrong) ==
    \A i \in DOMAIN log :
        LET k == log[i].resource_id IN
        log[i].action = "auth.revoke_key"
        => k \in acknowledged \/ ("crash" \in gone_wrong /\ k \in DOMAIN keys /\ ~ keys[k].active)

\* Every stored secret holds what it may hold.
SecretsTrue(secrets, hold) ==
    \A n \in DOMAIN secrets : n \in Secrets /\ secrets[n].data \in hold[n]

KeysHold == /\ KeysTrue(mem.apikeys) /\ \A k \in revoked : ~ Open(mem.apikeys, k)
            /\ LogTrue(mem.audit_log, mem.apikeys, revoked, faults)

SecretsHold == IsMap(may_hold, Secrets) /\ SecretsTrue(mem.secrets, may_hold)

\* The inductive invariant of the credentials, while every snapshot was written.
CredentialHold == /\ Agree(CredentialStores) /\ clock \in 0 .. MaxTime
                  /\ KeysHold /\ SecretsHold /\ SecretsReadBack

CredentialInv == "save" \notin faults => CredentialHold

\* No key is found by the hash of one that is not open.
LEMMA KeyOpens ==
    ASSUME NEW keys, KeysTrue(keys), NEW k, ~ Open(keys, k)
    PROVE  find_by_hash(keys, k) = {}
BY DEF KeysTrue, Open, find_by_hash

\* The invariant says what is claimed.
LEMMA HoldMeans ==
    ASSUME CredentialHold
    PROVE  SecretsReadBack /\ RevokedStaysRevoked /\ AuditFollowsEffect
<1>1. mem = disk
  BY DEF CredentialHold, Agree
<1>2. ASSUME NEW k \in revoked PROVE find_by_hash(mem.apikeys, k) = {}
  BY KeyOpens DEF CredentialHold, KeysHold
<1>3. ASSUME NEW i \in DOMAIN disk.audit_log, disk.audit_log[i].action = "auth.revoke_key"
      PROVE  find_by_hash(disk.apikeys, disk.audit_log[i].resource_id) = {}
  <2> DEFINE k == disk.audit_log[i].resource_id
  <2>1. ~ Open(mem.apikeys, k)
    BY <1>1, <1>3 DEF CredentialHold, KeysHold, LogTrue, Open
  <2> QED BY <1>1, <2>1, KeyOpens DEF CredentialHold, KeysHold
<1> QED BY <1>2, <1>3 DEF CredentialHold, RevokedStaysRevoked, AuditFollowsEffect

-----------------------------------------------------------------------------
\* A command that only answers, with data only if the secret may hold it.
LEMMA CredentialUnwritten ==
    ASSUME CredentialInv, "save" \notin faults', NEW answer, respond(answer),
           may_hold' = may_hold, revoked' = revoked,
           answer.cmd = "secret.get" /\ answer.ok
              => answer.value.data \subseteq may_hold[answer.value.name]
    PROVE  CredentialHold'
<1>1. mem' = mem /\ disk' = disk /\ clock' = clock /\ faults' = faults /\ reply' = answer
  BY DEF respond
<1>2. CredentialHold
  BY <1>1 DEF CredentialInv
<1>3. SecretsReadBack'
  BY <1>1 DEF SecretsReadBack
<1> QED BY <1>1, <1>2, <1>3, Zenon DEF CredentialHold, Agree, KeysHold, SecretsHold

\* Secrets are written with what they may hold from then on.
LEMMA SecretsWritten ==
    ASSUME CredentialInv, "save" \notin faults', revoked' = revoked, NEW n \in Secrets, NEW d,
           NEW m, NEW c \in {"secret.create", "secret.rotate", "secret.delete"},
           commit("daemon", write("secrets", m), Ok(c, n)), note(n, d),
           \A x \in DOMAIN m : IF x = n THEN m[x].data \in d
                               ELSE x \in DOMAIN mem.secrets /\ m[x] = mem.secrets[x]
    PROVE  CredentialHold'
<1>1. CredentialHold
  BY CommitKeeps, Zenon DEF CredentialInv
<1>2. "secrets" \in CredentialStores /\ "apikeys" \in CredentialStores
      /\ "audit_log" \in CredentialStores
  BY DEF CredentialStores
<1>3. /\ mem' = disk' /\ IsMap(mem', CredentialStores) /\ clock' = clock
      /\ \A x \in CredentialStores \ {"secrets"} : mem'[x] = mem[x]
      /\ \/ reply' = Ok(c, n) /\ faults' = faults /\ mem'["secrets"] = m
         \/ /\ reply' = NoReply /\ "crash" \notin faults /\ faults' = faults \cup {"crash"}
            /\ mem'["secrets"] \in {mem["secrets"], EmptyStore, m}
  BY <1>1, <1>2, DaemonWritesOne, Zenon DEF CredentialHold, Agree
<1>4. mem'.apikeys = mem.apikeys /\ mem'.audit_log = mem.audit_log /\ faults \subseteq faults'
  BY <1>2, <1>3, Zenon
<1>5. KeysHold'
  BY <1>1, <1>4, Zenon DEF CredentialHold, KeysHold, LogTrue
<1>6. IsMap(may_hold, Secrets) /\ SecretsTrue(mem.secrets, may_hold)
  BY <1>1, Zenon DEF CredentialHold, SecretsHold
<1>7. CASE reply' = Ok(c, n) /\ mem'["secrets"] = m
  <2>1. reply'.cmd # "none" /\ reply'.ok /\ reply'.cmd # "secret.get"
    BY <1>7 DEF Ok
  <2>2. may_hold' = [may_hold EXCEPT ![n] = d]
    BY <2>1 DEF note
  <2>3. IsMap(may_hold', Secrets) /\ may_hold'[n] = d
        /\ \A x \in Secrets \ {n} : may_hold'[x] = may_hold[x]
    BY <1>6, <2>2 DEF IsMap
  <2>4. SecretsTrue(mem'.secrets, may_hold')
    BY <1>6, <1>7, <2>3 DEF SecretsTrue
  <2>5. SecretsReadBack'
    BY <2>1, Zenon DEF SecretsReadBack
  <2> QED BY <1>1, <1>3, <1>5, <2>3, <2>4, <2>5, Zenon DEF CredentialHold, Agree, SecretsHold
<1>8. CASE reply' = NoReply /\ mem'["secrets"] \in {mem["secrets"], EmptyStore, m}
  <2>1. reply'.cmd = "none" /\ DOMAIN EmptyStore = {}
    <3>1. reply'.cmd = "none"
      BY <1>8 DEF NoReply
    <3>2. DOMAIN EmptyStore = {}
      BY DEF EmptyStore
    <3> QED BY <3>1, <3>2, Zenon
  <2>2. may_hold' = [may_hold EXCEPT ![n] = @ \cup d]
    BY <2>1 DEF note
  <2>3. /\ IsMap(may_hold', Secrets) /\ may_hold'[n] = may_hold[n] \cup d
        /\ \A x \in Secrets \ {n} : may_hold'[x] = may_hold[x]
    BY <1>6, <2>2 DEF IsMap
  <2>4. SecretsTrue(mem'.secrets, may_hold')
    BY <1>6, <1>8, <2>1, <2>3 DEF SecretsTrue
  <2>5. SecretsReadBack'
    BY <2>1, Zenon DEF SecretsReadBack
  <2> QED BY <1>1, <1>3, <1>5, <2>3, <2>4, <2>5, Zenon DEF CredentialHold, Agree, SecretsHold
<1> QED BY <1>3, <1>7, <1>8, Zenon

\* A command on a secret that is refused.
LEMMA SecretRefused ==
    ASSUME CredentialInv, "save" \notin faults', revoked' = revoked, NEW n, NEW d, NEW c,
           c # "none", respond(Err(c)), note(n, d)
    PROVE  CredentialHold'
<1>1. Err(c).cmd # "none" /\ ~ Err(c).ok /\ reply' = Err(c)
  BY DEF Err, respond
<1>2. may_hold' = may_hold
  BY <1>1 DEF note
<1> QED BY <1>1, <1>2, CredentialUnwritten

\* An entry holds what was put in it.
LEMMA EntryData == ASSUME NEW seed, NEW d, NEW t PROVE entry(seed, d, t).data = d
BY DEF entry, encrypt

\* secret.create.
LEMMA SecretCreated ==
    ASSUME CredentialInv, "save" \notin faults', revoked' = revoked, NEW n \in Secrets, NEW d,
           secret_create("daemon", n, d)
    PROVE  CredentialHold'
<1> DEFINE secrets == view("daemon").secrets
           e == entry(node_seed("daemon"), d, clock)
           m == Put(secrets, n, e)
<1>1. secrets = mem.secrets /\ e.data = d
  BY EntryData DEF view
<1>2. note(n, {d})
  BY DEF secret_create
<1>3. CASE n \in DOMAIN secrets
  BY <1>2, <1>3, SecretRefused, Zenon DEF secret_create, SecretStore_create, create
<1>4. CASE n \notin DOMAIN secrets
  <2>1. commit("daemon", write("secrets", m), Ok("secret.create", n))
    BY <1>4 DEF secret_create, SecretStore_create, create
  <2> HIDE DEF e
  <2>2. \A x \in DOMAIN m : IF x = n THEN m[x].data \in {d}
                            ELSE x \in DOMAIN mem.secrets /\ m[x] = mem.secrets[x]
    BY <1>1 DEF Put
  <2> HIDE DEF m
  <2> QED BY <1>2, <2>1, <2>2, SecretsWritten
<1> QED BY <1>3, <1>4

\* The write of secret.rotate.
LEMMA SecretUpdated ==
    ASSUME CredentialInv, "save" \notin faults', revoked' = revoked, NEW n \in Secrets, NEW d,
           SecretStore_update("daemon", n, entry(node_seed("daemon"), d, clock)), note(n, {d})
    PROVE  CredentialHold'
<1> DEFINE secrets == view("daemon").secrets
           e == entry(node_seed("daemon"), d, clock)
           m == [secrets EXCEPT ![n] = e]
<1>1. secrets = mem.secrets /\ e.data = d
  BY EntryData DEF view
<1>2. CASE n \notin DOMAIN secrets
  BY <1>2, SecretRefused, Zenon DEF SecretStore_update, modify
<1>3. CASE n \in DOMAIN secrets
  <2>1. commit("daemon", write("secrets", m), Ok("secret.rotate", n))
    BY <1>3 DEF SecretStore_update, modify
  <2> HIDE DEF e
  <2>2. \A x \in DOMAIN m : IF x = n THEN m[x].data \in {d}
                            ELSE x \in DOMAIN mem.secrets /\ m[x] = mem.secrets[x]
    BY <1>1, <1>3
  <2> HIDE DEF m
  <2> QED BY <2>1, <2>2, SecretsWritten, Zenon
<1> QED BY <1>2, <1>3

\* secret.delete.
LEMMA SecretDeleted ==
    ASSUME CredentialInv, "save" \notin faults', revoked' = revoked, NEW n \in Secrets,
           secret_delete("daemon", n)
    PROVE  CredentialHold'
<1> DEFINE secrets == view("daemon").secrets
           m == Drop(secrets, n)
<1>1. secrets = mem.secrets /\ note(n, {})
  BY DEF view, secret_delete
<1>2. CASE n \notin DOMAIN secrets
  BY <1>1, <1>2, SecretRefused DEF secret_delete, SecretStore_delete, delete
<1>3. CASE n \in DOMAIN secrets
  <2>1. commit("daemon", write("secrets", m), Ok("secret.delete", n))
    BY <1>3, Zenon DEF secret_delete, SecretStore_delete, delete
  <2>2. \A x \in DOMAIN m : IF x = n THEN m[x].data \in {}
                            ELSE x \in DOMAIN mem.secrets /\ m[x] = mem.secrets[x]
    BY <1>1 DEF Drop
  <2> HIDE DEF m
  <2> QED BY <1>1, <2>1, <2>2, SecretsWritten
<1> QED BY <1>2, <1>3

\* The fields of an answer.
LEMMA OtherAnswers ==
    ASSUME NEW c, NEW v
    PROVE  Ok(c, v).cmd = c /\ Err(c).cmd = c /\ ~ Err(c).ok /\ Ok(c, v).ok /\ Ok(c, v).value = v
BY DEF Ok, Err

\* What opens is what the secret holds.
LEMMA SecretRead ==
    ASSUME CredentialInv, "save" \notin faults', revoked' = revoked, may_hold' = may_hold, NEW n,
           secret_get("daemon", n)
    PROVE  CredentialHold'
<1> DEFINE m == view("daemon").secrets
           data_read == IF n \in DOMAIN m THEN decrypt(node_seed("daemon"), m[n]) ELSE {}
           v == [name |-> n, data |-> data_read]
<1>1. m = mem.secrets
  BY DEF view
<1>2. CASE data_read = {}
  <2>1. respond(Err("secret.get"))
    BY <1>2 DEF secret_get
  <2> QED BY <2>1, OtherAnswers, CredentialUnwritten, Zenon
<1>3. CASE data_read # {}
  <2>1. respond(Ok("secret.get", v))
    BY <1>3 DEF secret_get
  <2>2. CredentialHold
    BY <2>1 DEF CredentialInv, respond
  <2>3. n \in DOMAIN mem.secrets /\ data_read \subseteq {mem.secrets[n].data}
    BY <1>1, <1>3 DEF decrypt
  <2>4. data_read \subseteq may_hold[n]
    BY <2>2, <2>3 DEF CredentialHold, SecretsHold, SecretsTrue
  <2>5. v.name = n /\ v.data = data_read
    OBVIOUS
  <2> HIDE DEF v, data_read
  <2>6. Ok("secret.get", v).value = v
    BY OtherAnswers
  <2> QED BY <2>1, <2>4, <2>5, <2>6, CredentialUnwritten
<1> QED BY <1>2, <1>3

\* Every secret.* command.
LEMMA SecretStep ==
    ASSUME CredentialInv, "save" \notin faults', handle_secret_command("daemon")
    PROVE  CredentialHold'
<1>1. revoked' = revoked
  BY DEF handle_secret_command
<1>2. ASSUME NEW n \in Secrets, NEW g, secret_rotate("daemon", n, g) PROVE CredentialHold'
  <2>1. CASE respond(Err("secret.rotate")) /\ UNCHANGED may_hold
    BY <1>1, <2>1, OtherAnswers, CredentialUnwritten, Zenon
  <2>2. ASSUME NEW d, SecretStore_update("daemon", n, entry(node_seed("daemon"), d, clock)),
               note(n, {d})
        PROVE  CredentialHold'
    BY <1>1, <2>2, SecretUpdated
  <2> QED BY <1>2, <2>1, <2>2, Zenon DEF secret_rotate
<1>3. CASE secret_list("daemon") /\ UNCHANGED may_hold
  <2>1. respond(Ok("secret.list", DOMAIN view("daemon").secrets))
    BY <1>3 DEF secret_list
  <2>2. Ok("secret.list", DOMAIN view("daemon").secrets).cmd # "secret.get"
    BY DEF Ok
  <2> QED BY <1>1, <1>3, <2>1, <2>2, CredentialUnwritten
<1> QED BY <1>1, <1>2, <1>3, SecretCreated, SecretRead, SecretDeleted DEF handle_secret_command

-----------------------------------------------------------------------------
\* A command of auth.* that changes the keys and logs it: the log comes second.
LEMMA KeysWritten ==
    ASSUME CredentialInv, "save" \notin faults', may_hold' = may_hold, NEW keys, NEW log,
           NEW answer,
           commit("daemon", effect_then_audit(keys, log), answer),
           answer.cmd \in {"auth.create_key", "auth.revoke_key"}, revoked \subseteq revoked',
           reply' = NoReply => revoked' = revoked,
           KeysTrue(keys),
           \A k \in revoked : ~ Open(keys, k),
           reply' = answer => \A k \in revoked' : ~ Open(keys, k),
           "crash" \notin faults => LogTrue(log, keys, revoked', {"crash"}),
           LogTrue(mem.audit_log, keys, revoked, faults),
           reply' = answer => LogTrue(log, keys, revoked', faults)
    PROVE  CredentialHold'
<1>1. commit("daemon", write("apikeys", keys) \o write("audit_log", log), answer)
  BY DEF effect_then_audit
<1>2. CredentialHold
  BY <1>1, CommitKeeps DEF CredentialInv
<1>3. "secrets" \in CredentialStores /\ "apikeys" \in CredentialStores
      /\ "audit_log" \in CredentialStores
  BY DEF CredentialStores
<1>4. /\ mem' = disk' /\ IsMap(mem', CredentialStores) /\ clock' = clock
      /\ \A x \in CredentialStores \ {"apikeys", "audit_log"} : mem'[x] = mem[x]
      /\ \/ reply' = answer /\ faults' = faults /\ mem'["apikeys"] = keys /\ mem'["audit_log"] = log
         \/ /\ reply' = NoReply /\ "crash" \notin faults /\ faults' = faults \cup {"crash"}
            /\ \/ /\ mem'["apikeys"] \in {mem["apikeys"], EmptyStore}
                  /\ mem'["audit_log"] = mem["audit_log"]
               \/ /\ mem'["apikeys"] = keys
                  /\ mem'["audit_log"] \in {mem["audit_log"], EmptyStore, log}
  BY <1>1, <1>2, <1>3, DaemonWritesTwo, Zenon DEF CredentialHold, Agree
<1>5. mem'.secrets = mem.secrets
  BY <1>3, <1>4, Zenon
<1>6. SecretsHold'
  BY <1>2, <1>5, Zenon DEF CredentialHold, SecretsHold
<1>7. DOMAIN EmptyStore = {}
  BY DEF EmptyStore
<1>8. KeysTrue(mem.apikeys) /\ (\A k \in revoked : ~ Open(mem.apikeys, k))
      /\ LogTrue(mem.audit_log, mem.apikeys, revoked, faults)
  BY <1>2 DEF CredentialHold, KeysHold
<1>9. CASE reply' = answer /\ faults' = faults /\ mem'["apikeys"] = keys /\ mem'["audit_log"] = log
  <2>1. KeysHold'
    BY <1>9, Zenon DEF KeysHold
  <2>2. SecretsReadBack'
    BY <1>9 DEF SecretsReadBack
  <2> QED BY <1>2, <1>4, <1>6, <2>1, <2>2, Zenon DEF CredentialHold, Agree
<1>10. CASE reply' = NoReply /\ "crash" \notin faults /\ faults' = faults \cup {"crash"}
  <2>1. SecretsReadBack'
    BY <1>10, Zenon DEF SecretsReadBack, NoReply
  <2>2. revoked' = revoked
    BY <1>10
  <2>3. CASE mem'["apikeys"] \in {mem["apikeys"], EmptyStore}
             /\ mem'["audit_log"] = mem["audit_log"]
    <3>1. KeysTrue(mem'.apikeys) /\ \A k \in revoked' : ~ Open(mem'.apikeys, k)
      BY <1>7, <1>8, <2>2, <2>3 DEF KeysTrue, Open
    <3>2. LogTrue(mem'.audit_log, mem'.apikeys, revoked', faults')
      BY <1>8, <1>10, <2>2, <2>3, Zenon DEF LogTrue
    <3> QED BY <1>2, <1>4, <1>6, <2>1, <3>1, <3>2, Zenon DEF CredentialHold, Agree, KeysHold
  <2>4. CASE mem'["apikeys"] = keys /\ mem'["audit_log"] \in {mem["audit_log"], EmptyStore, log}
    <3>1. KeysTrue(mem'.apikeys) /\ \A k \in revoked' : ~ Open(mem'.apikeys, k)
      BY <2>2, <2>4, Zenon
    <3>2. LogTrue(mem'.audit_log, mem'.apikeys, revoked', faults')
      BY <1>7, <1>10, <2>2, <2>4, Zenon DEF LogTrue
    <3> QED BY <1>2, <1>4, <1>6, <2>1, <3>1, <3>2, Zenon DEF CredentialHold, Agree, KeysHold
  <2> QED BY <1>4, <1>10, <2>3, <2>4, Zenon DEF NoReply
<1> QED BY <1>4, <1>9, <1>10, Zenon

\* The log with one entry more.
LEMMA LogAdded ==
    ASSUME NEW log, NEW keys, NEW a, NEW f, LogTrue(log, keys, a, f), NEW id, NEW action, NEW k,
           NEW t,
           action = "auth.revoke_key"
              => k \in a \/ ("crash" \in f /\ k \in DOMAIN keys /\ ~ keys[k].active)
    PROVE  LogTrue(Put(log, id, [action |-> action, resource_id |-> k, timestamp |-> t]),
                   keys, a, f)
BY DEF LogTrue, Put

\* A log stays true as more is acknowledged.
LEMMA LogMore ==
    ASSUME NEW log, NEW keys, NEW a, NEW f, LogTrue(log, keys, a, f), NEW b, a \subseteq b, NEW g,
           f \subseteq g
    PROVE  LogTrue(log, keys, b, g)
BY DEF LogTrue

\* auth.create_key, of a key that was never revoked.
LEMMA KeyCreated ==
    ASSUME CredentialInv, "save" \notin faults', may_hold' = may_hold, revoked' = revoked,
           NEW k \in KeyIds, auth_create_key("daemon", k), k \notin revoked
    PROVE  CredentialHold'
<1> DEFINE old == view("daemon").apikeys
           e == [active |-> TRUE, secret_hash |-> k, created_at |-> clock]
           keys == Put(old, k, e)
           log == append("daemon", "auth.create_key", k)
           answer == Ok("auth.create_key", k)
<1>1. old = mem.apikeys
  BY DEF view
<1>2. CASE k \in DOMAIN old
  <2>1. respond(Err("auth.create_key"))
    BY <1>2 DEF auth_create_key
  <2>2. Err("auth.create_key").cmd # "secret.get"
    BY DEF Err
  <2> QED BY <2>1, <2>2, CredentialUnwritten
<1>3. CASE k \notin DOMAIN old
  <2>1. commit("daemon", effect_then_audit(keys, log), answer)
    BY <1>3 DEF auth_create_key, ApiKeyStore_create
  <2>2. CredentialHold
    BY <2>1, CommitKeeps DEF CredentialInv, effect_then_audit
  <2>3. /\ KeysTrue(mem.apikeys) /\ (\A r \in revoked : ~ Open(mem.apikeys, r))
        /\ LogTrue(mem.audit_log, mem.apikeys, revoked, faults) /\ clock \in 0 .. MaxTime
    BY <2>2 DEF CredentialHold, KeysHold
  <2>4. e \in ApiKeyRecord /\ e.secret_hash = k
    BY <2>3 DEF ApiKeyRecord
  <2>5. answer.cmd = "auth.create_key"
    BY DEF Ok
  <2> HIDE DEF e, answer
  <2>6. keys[k] = e /\ DOMAIN keys = DOMAIN mem.apikeys \cup {k}
        /\ \A x \in DOMAIN mem.apikeys : keys[x] = mem.apikeys[x]
    BY <1>1, <1>3, Zenon DEF Put
  <2> HIDE DEF keys
  <2>7. KeysTrue(keys) /\ \A r \in revoked : ~ Open(keys, r)
    BY <2>3, <2>4, <2>6 DEF KeysTrue, Open
  <2>8. LogTrue(mem.audit_log, keys, revoked, faults)
    BY <2>3, <2>6, Zenon DEF LogTrue
  <2>9. LogTrue(log, keys, revoked, faults)
    BY <2>8, LogAdded, Zenon DEF append, view
  <2>10. "crash" \notin faults => LogTrue(log, keys, revoked, {"crash"})
    BY <2>9, Zenon DEF LogTrue
  <2> HIDE DEF log
  <2> QED BY <2>1, <2>5, <2>7, <2>8, <2>9, <2>10, KeysWritten
<1> QED BY <1>2, <1>3

\* auth.revoke_key: the key is inactive on disk before the log says so.
LEMMA KeyRevoked ==
    ASSUME CredentialInv, "save" \notin faults', may_hold' = may_hold, NEW k,
           auth_revoke_key("daemon", k)
    PROVE  CredentialHold'
<1> DEFINE old == view("daemon").apikeys
           e == [old[k] EXCEPT !.active = FALSE]
           keys == [old EXCEPT ![k].active = FALSE]
           log == append("daemon", "auth.revoke_key", k)
           answer == Ok("auth.revoke_key", k)
<1>1. old = mem.apikeys
  BY DEF view
<1>2. CASE k \notin DOMAIN old
  <2>1. respond(Err("auth.revoke_key")) /\ revoked' = revoked
    BY <1>2 DEF auth_revoke_key
  <2>2. Err("auth.revoke_key").cmd # "secret.get"
    BY DEF Err
  <2> QED BY <2>1, <2>2, CredentialUnwritten, Zenon
<1>3. CASE k \in DOMAIN old
  <2>1. /\ commit("daemon", effect_then_audit(keys, log), answer)
        /\ revoked' = IF reply' = answer THEN revoked \cup {k} ELSE revoked
    BY <1>3 DEF auth_revoke_key, ApiKeyStore_revoke
  <2>2. CredentialHold
    BY <2>1, CommitKeeps DEF CredentialInv, effect_then_audit
  <2>3. /\ KeysTrue(mem.apikeys) /\ (\A r \in revoked : ~ Open(mem.apikeys, r))
        /\ LogTrue(mem.audit_log, mem.apikeys, revoked, faults)
    BY <2>2 DEF CredentialHold, KeysHold
  <2>4. old[k] \in ApiKeyRecord /\ old[k].secret_hash = k
    BY <1>1, <1>3, <2>3 DEF KeysTrue
  <2>5. e \in ApiKeyRecord /\ e.secret_hash = k /\ ~ e.active
    BY <2>4, Zenon DEF ApiKeyRecord
  <2>6. answer.cmd = "auth.revoke_key" /\ NoReply # answer
    BY DEF Ok, NoReply
  <2> HIDE DEF e, answer
  <2>7. keys[k] = e /\ DOMAIN keys = DOMAIN mem.apikeys
        /\ \A x \in DOMAIN mem.apikeys \ {k} : keys[x] = mem.apikeys[x]
    BY <1>1, <1>3 DEF e
  <2> HIDE DEF keys
  <2>8. KeysTrue(keys) /\ (\A r \in revoked : ~ Open(keys, r)) /\ ~ Open(keys, k)
    <3>1. KeysTrue(keys)
      <4>1. ASSUME NEW x \in DOMAIN keys
            PROVE  keys[x] \in ApiKeyRecord /\ keys[x].secret_hash = x
        <5>1. CASE x = k
          BY <2>5, <2>7, <5>1, Zenon
        <5>2. CASE x # k
          BY <2>3, <2>7, <5>2 DEF KeysTrue
        <5> QED BY <5>1, <5>2
      <4> QED BY <4>1, Zenon DEF KeysTrue
    <3>2. ~ Open(keys, k)
      BY <2>5, <2>7, Zenon DEF Open
    <3>3. \A r \in revoked : ~ Open(keys, r)
      BY <2>3, <2>7, <3>2, Zenon DEF Open
    <3> QED BY <3>1, <3>2, <3>3, Zenon
  <2>9. LogTrue(mem.audit_log, keys, revoked, faults)
    BY <2>3, <2>5, <2>7 DEF LogTrue
  <2>10. "crash" \notin faults => LogTrue(log, keys, revoked', {"crash"})
    <3>1. ASSUME "crash" \notin faults PROVE LogTrue(mem.audit_log, keys, revoked', {"crash"})
      BY <2>1, <2>9, <3>1, Zenon DEF LogTrue
    <3>2. k \in DOMAIN keys /\ ~ keys[k].active
      BY <1>1, <1>3, <2>5, <2>7
    <3> QED BY <3>1, <3>2, LogAdded, Zenon DEF append, view
  <2>11. reply' = answer => LogTrue(log, keys, revoked', faults)
    <3>1. ASSUME reply' = answer
          PROVE  k \in revoked' /\ LogTrue(mem.audit_log, keys, revoked', faults)
      BY <2>1, <2>9, <3>1, Zenon DEF LogTrue
    <3> QED BY <3>1, LogAdded, Zenon DEF append, view
  <2> HIDE DEF log
  <2>12. revoked \subseteq revoked' /\ (reply' = NoReply => revoked' = revoked)
         /\ (reply' = answer => \A r \in revoked' : ~ Open(keys, r))
    BY <2>1, <2>6, <2>8
  <2> QED BY <2>1, <2>6, <2>8, <2>9, <2>10, <2>11, <2>12, KeysWritten
<1> QED BY <1>2, <1>3

\* Every auth.* and audit.* command.
LEMMA AuthStep ==
    ASSUME CredentialInv, "save" \notin faults', handle_auth_command("daemon")
    PROVE  CredentialHold'
<1>1. may_hold' = may_hold
  BY DEF handle_auth_command
<1>2. ASSUME NEW v, NEW c \in {"auth.list_keys", "audit.query"}, respond(Ok(c, v)),
             revoked' = revoked
      PROVE  CredentialHold'
  <2>1. Ok(c, v).cmd # "secret.get"
    BY DEF Ok
  <2> QED BY <1>1, <1>2, <2>1, CredentialUnwritten
<1>3. CASE auth_list_keys("daemon") /\ UNCHANGED revoked
  BY <1>2, <1>3 DEF auth_list_keys
<1>4. CASE audit_query("daemon", "auth.revoke_key", 1) /\ UNCHANGED revoked
  <2>1. PICK v : respond(Ok("audit.query", v))
    BY <1>4 DEF audit_query
  <2> QED BY <1>2, <1>4, <2>1
<1> QED BY <1>1, <1>3, <1>4, KeyCreated, KeyRevoked DEF handle_auth_command

\* Every command of a daemon that has the stores to itself, every restart and every new
\* name of the host; and the start.
LEMMA CredentialStep ==
    ASSUME Procs = {"daemon"}, CredentialInv, [CredentialNext]_credential_vars,
           "save" \notin faults'
    PROVE  CredentialHold'
<1>1. CASE UNCHANGED <<store_vars, may_hold, revoked>>
  <2>1. /\ mem' = mem /\ disk' = disk /\ clock' = clock /\ reply' = reply /\ faults' = faults
        /\ may_hold' = may_hold /\ revoked' = revoked
    BY <1>1 DEF store_vars
  <2> QED BY <2>1 DEF CredentialInv, CredentialHold, Agree, KeysHold, SecretsHold, SecretsReadBack
<1>2. CASE restart_node \/ (tick /\ UNCHANGED <<hostname, daemon_host, may_hold, revoked>>)
  <2>1. /\ disk' = disk /\ mem' \in {mem, disk} /\ reply' = NoReply /\ faults' = faults
        /\ may_hold' = may_hold /\ revoked' = revoked
    BY <1>2 DEF restart_node, restart, tick
  <2>2. CredentialHold
    BY <2>1 DEF CredentialInv
  <2>3. clock' \in 0 .. MaxTime
    BY <1>2, <2>2, TimeAssumption DEF restart_node, restart, tick, CredentialHold
  <2>4. SecretsReadBack'
    BY <2>1 DEF SecretsReadBack, NoReply
  <2>5. mem' = mem /\ Agree(CredentialStores)'
    BY <2>1, <2>2 DEF CredentialHold, Agree
  <2> QED BY <2>1, <2>2, <2>3, <2>4, <2>5 DEF CredentialHold, KeysHold, SecretsHold
<1> QED BY <1>1, <1>2, SecretStep, AuthStep DEF CredentialNext, credential_vars, rename_host

LEMMA CredentialStart == CredentialInit => CredentialInv
<1> SUFFICES ASSUME CredentialInit PROVE CredentialInv
  OBVIOUS
<1>1. DOMAIN EmptyStore = {}
  BY DEF EmptyStore
<1>2. /\ Agree(CredentialStores) /\ clock \in 0 .. MaxTime
      /\ mem.secrets = EmptyStore /\ mem.apikeys = EmptyStore /\ mem.audit_log = EmptyStore
  BY TimeAssumption DEF CredentialInit, new, Agree, IsMap, CredentialStores
<1>3. IsMap(may_hold, Secrets) /\ revoked = {} /\ reply.cmd = "none"
  BY DEF CredentialInit, new, NoReply, IsMap
<1> QED BY <1>1, <1>2, <1>3 DEF CredentialInv, CredentialHold, KeysHold, KeysTrue, LogTrue,
                               SecretsHold, SecretsTrue, SecretsReadBack

\* A daemon that has its stores to itself, until a snapshot fails: secret.get answers with
\* what the secret was last set to or with an error, a key whose revocation was acknowledged
\* authenticates nothing again, and the audit log on disk claims no revocation that did not
\* reach the disk (secrets_cmd.rs, auth_cmd.rs).
THEOREM CredentialsKept == ASSUME Procs = {"daemon"} PROVE CredentialSpec => []CredentialsHold
<1>1. CredentialInv => CredentialsHold
  <2>1. CASE "save" \in faults
    BY <2>1 DEF CredentialsHold, SecretsReadBack, RevokedStaysRevoked, AuditFollowsEffect
  <2>2. CASE "save" \notin faults
    BY <2>2, HoldMeans DEF CredentialInv, CredentialsHold
  <2> QED BY <2>1, <2>2
<1>2. CredentialInv /\ [CredentialNext]_credential_vars => CredentialInv'
  BY CredentialStep DEF CredentialInv
<1> QED BY <1>1, <1>2, CredentialStart, PTL DEF CredentialSpec
=============================================================================
