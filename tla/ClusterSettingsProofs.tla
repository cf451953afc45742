------------------------ MODULE ClusterSettingsProofs ------------------------
(***************************************************************************)
(* Proofs about a cluster-wide setting and its copies, for any numbers of  *)
(* pods, saves and faults.  A copy may hold any old value while queries    *)
(* of it are under way: what is inductive is that the last of them will    *)
(* answer with everything the copy was told of.                            *)
(***************************************************************************)
EXTENDS ClusterSettings, SequenceTheorems, TLAPS

LEMMA RemoveAtProperties ==
  ASSUME NEW S, NEW s \in Seq(S), NEW k \in 1..Len(s)
  PROVE  /\ RemoveAt(s, k) \in Seq(S)
         /\ Len(RemoveAt(s, k)) = Len(s) - 1
         /\ \A i \in 1..(k - 1) : RemoveAt(s, k)[i] = s[i]
         /\ \A i \in k..(Len(s) - 1) : RemoveAt(s, k)[i] = s[i + 1]
<1> DEFINE a == SubSeq(s, 1, k - 1)
           b == SubSeq(s, k + 1, Len(s))
<1>1. a \in Seq(S) /\ Len(a) = k - 1 /\ \A i \in 1..(k - 1) : a[i] = s[i]
  OBVIOUS
<1>2. b \in Seq(S) /\ Len(b) = Len(s) - k /\ \A i \in 1..(Len(s) - k) : b[i] = s[k + i]
  OBVIOUS
<1> HIDE DEF a, b
<1>3. /\ a \o b \in Seq(S) /\ Len(a \o b) = Len(s) - 1
      /\ \A i \in 1..(Len(s) - 1) : (a \o b)[i] = IF i <= k - 1 THEN a[i] ELSE b[i - (k - 1)]
  BY <1>1, <1>2, ConcatProperties
<1>4. \A i \in 1..(k - 1) : (a \o b)[i] = s[i]
  BY <1>1, <1>3
<1>5. ASSUME NEW i \in k..(Len(s) - 1) PROVE (a \o b)[i] = s[i + 1]
  <2>1. (a \o b)[i] = b[i - (k - 1)]
    BY <1>3
  <2>2. i - (k - 1) \in 1..(Len(s) - k) /\ k + (i - (k - 1)) = i + 1
    OBVIOUS
  <2> QED
    BY <1>2, <2>1, <2>2
<1>6. RemoveAt(s, k) = a \o b
  BY DEF RemoveAt, a, b
<1> QED
  BY <1>3, <1>4, <1>5, <1>6

\* The queries a pod may have under way.
Queries == [copy : Copies, seen : 0..row \cup {Unread}]

LEMMA SettingsTypes ==
  TypeOK <=> /\ row \in 0..MaxWrites
             /\ publishing \subseteq 1..row
             /\ link \in [Pods -> {"loading", "subscribing", "up", "down"}]
             /\ primed \subseteq {p \in Pods : link[p] # "loading"}
             /\ inbox \in [Pods -> Seq(1..row)]
             /\ reads \in [Pods -> Seq(Queries)]
             /\ value \in [Pods -> [Copies -> 0..row]]
             /\ heard \in [Pods -> [Copies -> 0..row]]
             /\ spoiled \subseteq Pods \X Copies
             /\ struck \subseteq Faults
             /\ spent \in 0..MaxFaults
  BY DEF TypeOK, Queries

LEMMA ReadQuery == \A c \in Copies : Read(c) \in Queries
  BY DEF Read, Queries

LEMMA ListenersRead ==
  ASSUME NEW p \in Pods
  PROVE  /\ [k \in DOMAIN Listeners(p) |-> Read(Listeners(p)[k])] =
              IF p \in primed THEN <<Read("getter"), Read("limiter")>> ELSE <<Read("getter")>>
         /\ ToSet(Listeners(p)) = IF p \in primed THEN Copies ELSE {"getter"}
<1>1. CASE p \in primed
  <2>1. Listeners(p) = <<"getter", "limiter">>
    BY <1>1 DEF Listeners
  <2> QED
    BY <1>1, <2>1 DEF ToSet, Copies
<1>2. CASE p \notin primed
  <2>1. Listeners(p) = <<"getter">>
    BY <1>2 DEF Listeners
  <2> QED
    BY <1>2, <2>1 DEF ToSet
<1> QED
  BY <1>1, <1>2

LEMMA InitTypes == Init => TypeOK
  BY SettingsAssumption, SettingsTypes, EmptySeq DEF Init, NoCopy, Copies

\* Queries and messages stay what they are when the row grows.
LEMMA RowGrows ==
  ASSUME TypeOK, row' = row + 1
  PROVE  /\ Queries \subseteq Queries'
         /\ inbox \in [Pods -> Seq(1..row')]
         /\ reads \in [Pods -> Seq(Queries')]
<1>1. Queries \subseteq Queries' /\ 1..row \subseteq 1..row'
  BY DEF Queries, TypeOK, Unread
<1>2. inbox \in [Pods -> Seq(1..row)] /\ reads \in [Pods -> Seq(Queries)]
  BY SettingsTypes
<1>3. \A p \in Pods : inbox[p] \in Seq(1..row') /\ reads[p] \in Seq(Queries')
  BY <1>1, <1>2, SeqMonotonic
<1> QED
  BY <1>1, <1>2, <1>3

LEMMA TypeStep == TypeOK /\ [Next]_vars => TypeOK'
<1> SUFFICES ASSUME TypeOK, [Next]_vars PROVE TypeOK'
  OBVIOUS
<1> USE SettingsAssumption
<1>0. /\ row \in 0..MaxWrites
      /\ publishing \subseteq 1..row
      /\ link \in [Pods -> {"loading", "subscribing", "up", "down"}]
      /\ primed \subseteq {p \in Pods : link[p] # "loading"}
      /\ inbox \in [Pods -> Seq(1..row)]
      /\ reads \in [Pods -> Seq(Queries)]
      /\ value \in [Pods -> [Copies -> 0..row]]
      /\ heard \in [Pods -> [Copies -> 0..row]]
      /\ spoiled \subseteq Pods \X Copies
      /\ struck \subseteq Faults
      /\ spent \in 0..MaxFaults
  BY SettingsTypes
<1>a. ASSUME NEW k, Strike(k) PROVE struck' \subseteq Faults /\ spent' \in 0..MaxFaults
  BY <1>0, <1>a DEF Strike
<1>b. row' = row => Queries' = Queries
  BY DEF Queries
<1>c. TypeOK' <=>
      /\ row' \in 0..MaxWrites
      /\ publishing' \subseteq 1..row'
      /\ link' \in [Pods -> {"loading", "subscribing", "up", "down"}]
      /\ primed' \subseteq {p \in Pods : link'[p] # "loading"}
      /\ inbox' \in [Pods -> Seq(1..row')]
      /\ reads' \in [Pods -> Seq(Queries')]
      /\ value' \in [Pods -> [Copies -> 0..row']]
      /\ heard' \in [Pods -> [Copies -> 0..row']]
      /\ spoiled' \subseteq Pods \X Copies
      /\ struck' \subseteq Faults
      /\ spent' \in 0..MaxFaults
  BY SettingsTypes DEF TypeOK, Queries
<1>1. CASE Write
  <2>1. row' = row + 1 /\ row' \in 0..MaxWrites /\ publishing' \subseteq 1..row'
    BY <1>0, <1>1 DEF Write
  <2>2. /\ inbox' \in [Pods -> Seq(1..row')] /\ reads' \in [Pods -> Seq(Queries')]
    BY <1>1, <2>1, RowGrows DEF Write
  <2>3. 0..row \subseteq 0..row'
    BY <1>0, <2>1
  <2>4. value' \in [Pods -> [Copies -> 0..row']] /\ heard' \in [Pods -> [Copies -> 0..row']]
    BY <1>0, <1>1, <2>3 DEF Write
  <2> QED
    BY <1>0, <1>1, <1>c, <2>1, <2>2, <2>4 DEF Write, faults
<1>2. ASSUME NEW v \in publishing, Publish(v) PROVE TypeOK'
  <2>1. \A p \in Pods : Append(inbox[p], v) \in Seq(1..row)
    BY <1>0, AppendProperties
  <2>2. inbox' \in [Pods -> Seq(1..row)]
    BY <1>0, <1>2, <2>1 DEF Publish
  <2> QED
    BY <1>0, <1>2, <1>b, <1>c, <2>2 DEF Publish, faults
<1>3. ASSUME NEW v \in publishing, LosePublish(v) PROVE TypeOK'
  BY <1>0, <1>3, <1>a, <1>b, <1>c DEF LosePublish
<1>4. ASSUME NEW p \in Pods, Dispatch(p) PROVE TypeOK'
  <2> DEFINE new == [k \in DOMAIN Listeners(p) |-> Read(Listeners(p)[k])]
  <2>1. new \in Seq(Queries)
    <3>1. Read("getter") \in Queries /\ Read("limiter") \in Queries
      BY ReadQuery DEF Copies
    <3>2. <<Read("getter"), Read("limiter")>> \in Seq(Queries) /\ <<Read("getter")>> \in Seq(Queries)
      BY <3>1
    <3> QED
      BY <3>2, ListenersRead
  <2> HIDE DEF new
  <2>2. reads[p] \o new \in Seq(Queries)
    BY <1>0, <2>1, ConcatProperties
  <2>3. reads' \in [Pods -> Seq(Queries)]
    BY <1>0, <1>4, <2>2 DEF Dispatch, new
  <2>4. inbox' \in [Pods -> Seq(1..row)] /\ inbox[p][1] \in 0..row
    <3>1. inbox[p] \in Seq(1..row) /\ inbox[p] # <<>>
      BY <1>0, <1>4 DEF Dispatch, Hear
    <3>2. Tail(inbox[p]) \in Seq(1..row)
      BY <3>1, HeadTailProperties
    <3>3. inbox[p][1] \in 1..row
      BY <1>0, <3>1
    <3> QED
      BY <1>0, <1>4, <3>2, <3>3 DEF Dispatch, Hear
  <2>5. heard' \in [Pods -> [Copies -> 0..row]]
    BY <1>0, <1>4, <2>4 DEF Dispatch, Hear
  <2>6. spoiled' \subseteq spoiled /\ UNCHANGED <<row, publishing, link, primed, value, faults>>
    BY <1>4 DEF Dispatch, Hear
  <2> QED
    BY <1>0, <1>b, <1>c, <2>3, <2>4, <2>5, <2>6 DEF faults
<1>5. ASSUME NEW p \in Pods, Execute(p) PROVE TypeOK'
  <2>1. PICK k \in DOMAIN reads[p] :
          /\ reads' = [reads EXCEPT ![p][k].seen = row]
          /\ UNCHANGED <<row, publishing, link, primed, inbox, value, heard, spoiled, faults>>
    BY <1>5 DEF Execute
  <2>2. reads[p] \in Seq(Queries) /\ k \in 1..Len(reads[p]) /\ reads[p][k] \in Queries
    BY <1>0
  <2>3. [reads[p][k] EXCEPT !.seen = row] \in Queries
    <3>1. row \in 0..row \cup {Unread}
      BY <1>0
    <3>2. [reads[p][k] EXCEPT !.seen = row] = [copy |-> reads[p][k].copy, seen |-> row]
      BY <2>2 DEF Queries
    <3>3. reads[p][k].copy \in Copies
      BY <2>2 DEF Queries
    <3> QED
      BY <3>1, <3>2, <3>3 DEF Queries
  <2>4. [reads[p] EXCEPT ![k] = [reads[p][k] EXCEPT !.seen = row]] \in Seq(Queries)
    BY <2>2, <2>3, ExceptSeq
  <2>5. reads' = [reads EXCEPT ![p] = [reads[p] EXCEPT ![k] = [reads[p][k] EXCEPT !.seen = row]]]
    BY <2>1
  <2>6. reads' \in [Pods -> Seq(Queries)]
    BY <1>0, <2>4, <2>5
  <2> QED
    BY <1>0, <1>b, <1>c, <2>1, <2>6 DEF faults
<1>6. ASSUME NEW p \in Pods, Return(p) \/ ReadFails(p) PROVE TypeOK'
  <2>1. PICK k \in DOMAIN reads[p] :
          /\ reads' = [reads EXCEPT ![p] = RemoveAt(@, k)]
          /\ link' = [link EXCEPT ![p] = IF Booting(p) THEN "subscribing" ELSE @]
          /\ UNCHANGED <<row, publishing, primed, inbox, heard>>
          /\ \/ value' = value
             \/ /\ reads[p][k].seen # Unread
                /\ value' = [value EXCEPT ![p][reads[p][k].copy] = reads[p][k].seen]
          /\ \/ UNCHANGED <<faults, spoiled>>
             \/ Spoil("overtake", p, k)
             \/ Spoil("read", p, k)
    BY <1>6 DEF Return, ReadFails
  <2>2. reads[p] \in Seq(Queries) /\ k \in 1..Len(reads[p]) /\ reads[p][k] \in Queries
    BY <1>0, <2>1
  <2>3. reads' \in [Pods -> Seq(Queries)]
    BY <1>0, <2>1, <2>2, RemoveAtProperties
  <2>4. reads[p][k].copy \in Copies /\ reads[p][k].seen \in 0..row \cup {Unread}
    BY <2>2 DEF Queries
  <2>5. value' \in [Pods -> [Copies -> 0..row]]
    <3>1. CASE value' = value
      BY <1>0, <3>1
    <3>2. CASE /\ reads[p][k].seen # Unread
               /\ value' = [value EXCEPT ![p][reads[p][k].copy] = reads[p][k].seen]
      <4>1. reads[p][k].seen \in 0..row
        BY <2>4, <3>2
      <4>2. [value[p] EXCEPT ![reads[p][k].copy] = reads[p][k].seen] \in [Copies -> 0..row]
        BY <1>0, <2>4, <4>1
      <4>3. value' = [value EXCEPT ![p] = [value[p] EXCEPT ![reads[p][k].copy] = reads[p][k].seen]]
        BY <1>0, <3>2
      <4> QED
        BY <1>0, <4>2, <4>3
    <3> QED
      BY <2>1, <3>1, <3>2
  <2>6. spoiled' \subseteq Pods \X Copies /\ struck' \subseteq Faults /\ spent' \in 0..MaxFaults
    <3>1. CASE UNCHANGED <<faults, spoiled>>
      BY <1>0, <3>1 DEF faults
    <3>2. CASE Spoil("overtake", p, k) \/ Spoil("read", p, k)
      BY <1>0, <1>a, <2>4, <3>2 DEF Spoil
    <3> QED
      BY <2>1, <3>1, <3>2
  <2>7. /\ link' \in [Pods -> {"loading", "subscribing", "up", "down"}]
        /\ primed' \subseteq {q \in Pods : link'[q] # "loading"}
    BY <1>0, <2>1
  <2> QED
    BY <1>0, <1>b, <1>c, <2>1, <2>3, <2>5, <2>6, <2>7
<1>7. ASSUME NEW p \in Pods, Crash(p) PROVE TypeOK'
  <2>1. <<Read("getter")>> \in Seq(Queries)
    BY ReadQuery DEF Copies
  <2>2. NoCopy \in [Copies -> 0..row]
    BY <1>0 DEF NoCopy
  <2>3. /\ reads' \in [Pods -> Seq(Queries)] /\ inbox' \in [Pods -> Seq(1..row)]
        /\ value' \in [Pods -> [Copies -> 0..row]] /\ heard' \in [Pods -> [Copies -> 0..row]]
    BY <1>0, <1>7, <2>1, <2>2, EmptySeq DEF Crash
  <2> QED
    BY <1>0, <1>7, <1>a, <1>b, <1>c, <2>3 DEF Crash
<1>8. ASSUME NEW p \in Pods, Subscribed(p) PROVE TypeOK'
  BY <1>0, <1>8, <1>b, <1>c DEF Subscribed, faults
<1>9. ASSUME NEW p \in Pods, Prime(p) PROVE TypeOK'
  <2>1. value' \in [Pods -> [Copies -> 0..row]]
    <3>1. value' = [value EXCEPT ![p]["limiter"] = value[p]["getter"]]
      BY <1>9 DEF Prime
    <3> QED
      BY <1>0, <3>1 DEF Copies
  <2> QED
    BY <1>0, <1>9, <1>b, <1>c, <2>1 DEF Prime, Booting, faults
<1>10. ASSUME NEW p \in Pods, Drop(p) PROVE TypeOK'
  <2>1. inbox' \in [Pods -> Seq(1..row)]
    BY <1>0, <1>10, EmptySeq DEF Drop
  <2> QED
    BY <1>0, <1>10, <1>a, <1>b, <1>c, <2>1 DEF Drop
<1>11. ASSUME NEW p \in Pods, Reconnect(p) PROVE TypeOK'
  <2>1. reads' \in [Pods -> Seq(Queries)]
    BY <1>0, <1>11, ReadQuery, AppendProperties DEF Reconnect, Copies
  <2> QED
    BY <1>0, <1>11, <1>b, <1>c, <2>1 DEF Reconnect, faults
<1>12. CASE UNCHANGED vars
  BY <1>0, <1>12, <1>b, <1>c DEF vars, faults
<1> QED
  BY <1>1, <1>2, <1>3, <1>4, <1>5, <1>6, <1>7, <1>8, <1>9, <1>10, <1>11, <1>12 DEF Next, Steps

-----------------------------------------------------------------------------
(* What a copy was told                                                    *)

\* The last query of a copy under way will answer with all it was told of.
LastIsAhead(p, c) ==
  \E k \in DOMAIN reads[p] :
    /\ reads[p][k].copy = c
    /\ \A j \in DOMAIN reads[p] : j > k => reads[p][j].copy # c
    /\ reads[p][k].seen >= heard[p][c]

Ahead(p, c) == LastIsAhead(p, c) \/ (~Asked(p, c) /\ value[p][c] >= heard[p][c])

CopiesAhead == \A p \in Pods, c \in Copies : <<p, c>> \notin spoiled => Ahead(p, c)

\* A limiter that is not primed has heard nothing and asks nothing.
UnprimedIsNew == \A p \in Pods \ primed : heard[p]["limiter"] = 0 /\ ~Asked(p, "limiter")

SettingsInv == TypeOK /\ UnprimedIsNew /\ CopiesAhead

LEMMA InitAhead == Init => UnprimedIsNew /\ CopiesAhead
  BY DEF Init, UnprimedIsNew, CopiesAhead, Ahead, Asked, NoCopy, Copies

\* What is said of a pod depends on what the pod and its copies hold.
LEMMA AheadKept ==
  ASSUME NEW p \in Pods, NEW c \in Copies, Ahead(p, c),
         reads'[p] = reads[p], value'[p][c] = value[p][c], heard'[p][c] = heard[p][c]
  PROVE  Ahead(p, c)'
  BY DEF Ahead, LastIsAhead, Asked

\* A new query of the copy comes last, and its answer is still to be read.
LEMMA AheadAppended ==
  ASSUME TypeOK, NEW p \in Pods, NEW c \in Copies, heard'[p][c] \in 0..MaxWrites,
         reads'[p] = Append(reads[p], Read(c))
  PROVE  LastIsAhead(p, c)'
<1>1. reads[p] \in Seq(Queries) /\ Read(c) \in Queries
  BY SettingsTypes, ReadQuery
<1>2. Len(reads'[p]) = Len(reads[p]) + 1 /\ reads'[p][Len(reads[p]) + 1] = Read(c)
  BY <1>1, AppendProperties
<1>3. DOMAIN reads'[p] = 1..(Len(reads[p]) + 1) /\ Len(reads[p]) \in Nat
  BY <1>1, AppendProperties, LenProperties
<1>4. Read(c).copy = c /\ Read(c).seen >= heard'[p][c]
  BY SettingsAssumption DEF Read, Unread
<1> QED
  BY <1>2, <1>3, <1>4 DEF LastIsAhead

\* A query of another copy changes nothing for this one.
LEMMA AheadOther ==
  ASSUME TypeOK, NEW p \in Pods, NEW c \in Copies, Ahead(p, c), NEW q \in Queries, q.copy # c,
         reads'[p] = Append(reads[p], q), value'[p][c] = value[p][c], heard'[p][c] = heard[p][c]
  PROVE  Ahead(p, c)'
<1>1. reads[p] \in Seq(Queries)
  BY SettingsTypes
<1>2. /\ DOMAIN reads[p] = 1..Len(reads[p]) /\ Len(reads[p]) \in Nat
      /\ DOMAIN reads'[p] = 1..(Len(reads[p]) + 1)
  BY <1>1, AppendProperties, LenProperties
<1>3. /\ \A k \in DOMAIN reads[p] : reads'[p][k] = reads[p][k]
      /\ reads'[p][Len(reads[p]) + 1] = q
  BY <1>1, <1>2, AppendProperties
<1>4. CASE LastIsAhead(p, c)
  <2>1. PICK k \in DOMAIN reads[p] :
          /\ reads[p][k].copy = c
          /\ \A j \in DOMAIN reads[p] : j > k => reads[p][j].copy # c
          /\ reads[p][k].seen >= heard[p][c]
    BY <1>4 DEF LastIsAhead
  <2>2. k \in DOMAIN reads'[p] /\ reads'[p][k].copy = c /\ reads'[p][k].seen >= heard'[p][c]
    BY <1>2, <1>3, <2>1
  <2>3. \A j \in DOMAIN reads'[p] : j > k => reads'[p][j].copy # c
    BY <1>2, <1>3, <2>1
  <2> QED
    BY <2>2, <2>3 DEF Ahead, LastIsAhead
<1>5. CASE ~Asked(p, c) /\ value[p][c] >= heard[p][c]
  <2>1. \A k \in DOMAIN reads'[p] : reads'[p][k].copy # c
    BY <1>2, <1>3, <1>5 DEF Asked
  <2> QED
    BY <1>5, <2>1 DEF Ahead, Asked
<1> QED
  BY <1>4, <1>5 DEF Ahead

\* What removing a query leaves.
LEMMA QueryRemoved ==
  ASSUME TypeOK, NEW p \in Pods, NEW k \in DOMAIN reads[p], reads'[p] = RemoveAt(reads[p], k)
  PROVE  /\ reads[p] \in Seq(Queries) /\ Len(reads[p]) \in Nat
         /\ DOMAIN reads[p] = 1..Len(reads[p]) /\ k \in 1..Len(reads[p])
         /\ DOMAIN reads'[p] = 1..(Len(reads[p]) - 1)
         /\ \A i \in 1..(k - 1) : reads'[p][i] = reads[p][i]
         /\ \A i \in k..(Len(reads[p]) - 1) : reads'[p][i] = reads[p][i + 1]
<1>1. /\ reads[p] \in Seq(Queries) /\ Len(reads[p]) \in Nat
      /\ DOMAIN reads[p] = 1..Len(reads[p]) /\ k \in 1..Len(reads[p])
  BY SettingsTypes, LenProperties
<1>2. /\ reads'[p] \in Seq(Queries) /\ Len(reads'[p]) = Len(reads[p]) - 1
      /\ \A i \in 1..(k - 1) : reads'[p][i] = reads[p][i]
      /\ \A i \in k..(Len(reads[p]) - 1) : reads'[p][i] = reads[p][i + 1]
  <2> DEFINE rest == RemoveAt(reads[p], k)
  <2>1. /\ rest \in Seq(Queries) /\ Len(rest) = Len(reads[p]) - 1
        /\ \A i \in 1..(k - 1) : rest[i] = reads[p][i]
        /\ \A i \in k..(Len(reads[p]) - 1) : rest[i] = reads[p][i + 1]
    BY <1>1, RemoveAtProperties
  <2>2. reads'[p] = rest
    OBVIOUS
  <2> HIDE DEF rest
  <2> QED
    BY <2>1, <2>2
<1> QED
  BY <1>1, <1>2, LenProperties

\* A query that ends, in its order or of another copy, leaves the copy ahead.
LEMMA AheadAnswered ==
  ASSUME TypeOK, NEW p \in Pods, NEW c \in Copies, Ahead(p, c), NEW k \in DOMAIN reads[p],
         reads'[p] = RemoveAt(reads[p], k), heard'[p][c] = heard[p][c],
         IF reads[p][k].copy = c
         THEN InOrder(p, k) /\ value'[p][c] = reads[p][k].seen
         ELSE value'[p][c] = value[p][c]
  PROVE  Ahead(p, c)'
<1> DEFINE n == Len(reads[p])
<1>1. n \in Nat /\ DOMAIN reads[p] = 1..n /\ k \in 1..n
  BY QueryRemoved
<1>2. /\ DOMAIN reads'[p] = 1..(n - 1)
      /\ \A i \in 1..(k - 1) : reads'[p][i] = reads[p][i]
      /\ \A i \in k..(n - 1) : reads'[p][i] = reads[p][i + 1]
  BY QueryRemoved
<1> HIDE DEF n
<1>3. ASSUME NEW m \in 1..n, m # k, reads[p][m].copy = c,
             \A j \in 1..n : j > m => reads[p][j].copy # c,
             reads[p][m].seen >= heard[p][c]
      PROVE  Ahead(p, c)'
  <2> DEFINE i == IF m < k THEN m ELSE m - 1
  <2>1. i \in 1..(n - 1) /\ reads'[p][i] = reads[p][m]
    <3>1. CASE m < k
      <4>1. i = m /\ m \in 1..(k - 1) /\ m \in 1..(n - 1)
        BY <1>1, <3>1
      <4> QED
        BY <1>2, <4>1
    <3>2. CASE m > k
      <4>1. i = m - 1 /\ m - 1 \in k..(n - 1) /\ m - 1 \in 1..(n - 1) /\ (m - 1) + 1 = m
        BY <1>1, <3>2
      <4> QED
        BY <1>2, <4>1
    <3> QED
      BY <1>1, <1>3, <3>1, <3>2
  <2>2. ASSUME NEW j \in 1..(n - 1), j > i PROVE reads'[p][j].copy # c
    <3>1. CASE j < k
      <4>1. j \in 1..(k - 1) /\ j \in 1..n /\ j > m
        BY <1>1, <2>2, <3>1
      <4> QED
        BY <1>2, <1>3, <4>1
    <3>2. CASE j >= k
      <4>1. j \in k..(n - 1) /\ j + 1 \in 1..n /\ j + 1 > m
        BY <1>1, <2>2, <3>2
      <4> QED
        BY <1>2, <1>3, <4>1
    <3> QED
      BY <1>1, <3>1, <3>2
  <2> HIDE DEF i
  <2> QED
    BY <1>2, <1>3, <2>1, <2>2 DEF Ahead, LastIsAhead
<1>4. CASE LastIsAhead(p, c)
  <2>1. PICK m \in DOMAIN reads[p] :
          /\ reads[p][m].copy = c
          /\ \A j \in DOMAIN reads[p] : j > m => reads[p][j].copy # c
          /\ reads[p][m].seen >= heard[p][c]
    BY <1>4 DEF LastIsAhead
  <2>2. CASE m # k
    BY <1>1, <1>3, <2>1, <2>2
  <2>3. CASE m = k
    <3>1. \A j \in DOMAIN reads[p] : j # k => reads[p][j].copy # c
      BY <1>1, <2>1, <2>3 DEF InOrder
    <3>2. \A i \in 1..(n - 1) : reads'[p][i].copy # c
      <4> SUFFICES ASSUME NEW i \in 1..(n - 1) PROVE reads'[p][i].copy # c
        OBVIOUS
      <4>1. CASE i < k
        <5>1. i \in 1..(k - 1) /\ i \in 1..n /\ i # k
          BY <1>1, <4>1
        <5> QED
          BY <1>1, <1>2, <3>1, <5>1
      <4>2. CASE i >= k
        <5>1. i \in k..(n - 1) /\ i + 1 \in 1..n /\ i + 1 # k
          BY <1>1, <4>2
        <5> QED
          BY <1>1, <1>2, <3>1, <5>1
      <4> QED
        BY <1>1, <4>1, <4>2
    <3> QED
      BY <1>2, <2>1, <2>3, <3>2 DEF Ahead, Asked
  <2> QED
    BY <2>2, <2>3
<1>5. CASE ~Asked(p, c) /\ value[p][c] >= heard[p][c]
  <2>1. \A i \in 1..(n - 1) : reads'[p][i].copy # c
    <3> SUFFICES ASSUME NEW i \in 1..(n - 1) PROVE reads'[p][i].copy # c
      OBVIOUS
    <3>1. CASE i < k
      <4>1. i \in 1..(k - 1) /\ i \in 1..n
        BY <1>1, <3>1
      <4> QED
        BY <1>1, <1>2, <1>5, <4>1 DEF Asked
    <3>2. CASE i >= k
      <4>1. i \in k..(n - 1) /\ i + 1 \in 1..n
        BY <1>1, <3>2
      <4> QED
        BY <1>1, <1>2, <1>5, <4>1 DEF Asked
    <3> QED
      BY <1>1, <3>1, <3>2
  <2>2. value'[p][c] = value[p][c]
    BY <1>5 DEF Asked
  <2> QED
    BY <1>2, <1>5, <2>1, <2>2 DEF Ahead, Asked
<1> QED
  BY <1>4, <1>5 DEF Ahead

LEMMA AheadStep ==
  ASSUME SettingsInv, [Next]_vars
  PROVE  UnprimedIsNew' /\ CopiesAhead'
<1> USE SettingsAssumption
<1>0. TypeOK /\ TypeOK' /\ UnprimedIsNew /\ CopiesAhead
  BY TypeStep DEF SettingsInv
<1>1. /\ row \in 0..MaxWrites
      /\ inbox \in [Pods -> Seq(1..row)]
      /\ reads \in [Pods -> Seq(Queries)]
      /\ value \in [Pods -> [Copies -> 0..row]]
      /\ heard \in [Pods -> [Copies -> 0..row]]
  BY <1>0, SettingsTypes
<1>2. row' \in 0..MaxWrites /\ heard' \in [Pods -> [Copies -> 0..row']]
  BY <1>0 DEF TypeOK
<1>a. ASSUME UNCHANGED <<primed, reads, value, heard>>, spoiled \subseteq spoiled'
      PROVE  UnprimedIsNew' /\ CopiesAhead'
  BY <1>0, <1>a, AheadKept DEF UnprimedIsNew, CopiesAhead, Asked
<1>b. ASSUME NEW p \in Pods,
             \A q \in Pods \ {p} : reads'[q] = reads[q] /\ value'[q] = value[q] /\ heard'[q] = heard[q],
             \A q \in Pods \ {p}, c \in Copies : <<q, c>> \notin spoiled' => <<q, c>> \notin spoiled,
             primed' \cup {p} = primed \cup {p},
             p \notin primed' => heard'[p]["limiter"] = 0 /\ ~Asked(p, "limiter")',
             \A c \in Copies : <<p, c>> \notin spoiled' => Ahead(p, c)'
      PROVE  UnprimedIsNew' /\ CopiesAhead'
  <2>1. ASSUME NEW q \in Pods \ {p} PROVE q \notin primed' => heard'[q]["limiter"] = 0 /\ ~Asked(q, "limiter")'
    BY <1>0, <1>b DEF UnprimedIsNew, Asked
  <2>2. ASSUME NEW q \in Pods \ {p}, NEW c \in Copies, <<q, c>> \notin spoiled' PROVE Ahead(q, c)'
    <3>1. Ahead(q, c)
      BY <1>0, <1>b, <2>2 DEF CopiesAhead
    <3>2. reads'[q] = reads[q] /\ value'[q][c] = value[q][c] /\ heard'[q][c] = heard[q][c]
      BY <1>b
    <3> QED
      BY <3>1, <3>2, AheadKept
  <2>3. UnprimedIsNew'
    BY <1>b, <2>1 DEF UnprimedIsNew
  <2>4. CopiesAhead'
    BY <1>b, <2>2 DEF CopiesAhead
  <2> QED
    BY <2>3, <2>4
<1>3. CASE Write
  BY <1>3, <1>a DEF Write
<1>4. ASSUME NEW v \in publishing, Publish(v) \/ LosePublish(v) PROVE UnprimedIsNew' /\ CopiesAhead'
  BY <1>4, <1>a DEF Publish, LosePublish
<1>5. ASSUME NEW p \in Pods, Dispatch(p) PROVE UnprimedIsNew' /\ CopiesAhead'
  <2> DEFINE told == ToSet(Listeners(p))
             new == [k \in DOMAIN Listeners(p) |-> Read(Listeners(p)[k])]
  <2>1. /\ reads' = [reads EXCEPT ![p] = reads[p] \o new]
        /\ spoiled' = spoiled \ {<<p, c>> : c \in {c \in told : ~Asked(p, c)}}
        /\ heard' = [heard EXCEPT ![p] = [c \in Copies |->
             IF c \in told /\ inbox[p][1] > heard[p][c] THEN inbox[p][1] ELSE heard[p][c]]]
        /\ primed' = primed /\ value' = value
    BY <1>1, <1>5 DEF Dispatch, Hear
  <2>2. /\ new = IF p \in primed THEN <<Read("getter"), Read("limiter")>> ELSE <<Read("getter")>>
        /\ told = IF p \in primed THEN Copies ELSE {"getter"}
    BY ListenersRead
  <2> HIDE DEF new, told
  <2>3. /\ Read("getter") \in Queries /\ Read("getter").copy = "getter" /\ Read("getter").seen = Unread
        /\ Read("limiter") \in Queries /\ Read("limiter").copy = "limiter" /\ Read("limiter").seen = Unread
    BY ReadQuery DEF Copies, Read
  <2>4. reads[p] \in Seq(Queries) /\ Len(reads[p]) \in Nat /\ DOMAIN reads[p] = 1..Len(reads[p])
    BY <1>1, LenProperties
  <2>5. reads'[p] = reads[p] \o new
    BY <1>1, <2>1
  <2>6. \A c \in Copies : heard'[p][c] <= MaxWrites /\ heard'[p][c] \in Nat
    BY <1>2
  <2>7. LastIsAhead(p, "getter")'
    <3>1. CASE p \in primed
      <4>1. /\ DOMAIN reads'[p] = 1..(Len(reads[p]) + 2)
            /\ reads'[p][Len(reads[p]) + 1] = Read("getter")
            /\ reads'[p][Len(reads[p]) + 2] = Read("limiter")
        BY <2>2, <2>3, <2>4, <2>5, <3>1
      <4>2. \A j \in DOMAIN reads'[p] : j > Len(reads[p]) + 1 => reads'[p][j].copy # "getter"
        BY <2>3, <2>4, <4>1
      <4>3. Len(reads[p]) + 1 \in DOMAIN reads'[p]
        BY <2>4, <4>1
      <4>4. /\ reads'[p][Len(reads[p]) + 1].copy = "getter"
            /\ reads'[p][Len(reads[p]) + 1].seen >= heard'[p]["getter"]
        BY <2>3, <2>6, <4>1, SettingsAssumption DEF Copies, Unread
      <4>5. \A j \in DOMAIN reads'[p] : j > Len(reads[p]) + 1 => reads'[p][j].copy # "getter"
        BY <4>2
      <4> QED
        BY <4>3, <4>4, <4>5 DEF LastIsAhead
    <3>2. CASE p \notin primed
      <4>1. /\ DOMAIN reads'[p] = 1..(Len(reads[p]) + 1)
            /\ reads'[p][Len(reads[p]) + 1] = Read("getter")
        BY <2>2, <2>3, <2>4, <2>5, <3>2
      <4> QED
        BY <2>3, <2>4, <2>6, <4>1 DEF LastIsAhead, Copies, Unread
    <3> QED
      BY <3>1, <3>2
  <2>8. p \in primed => LastIsAhead(p, "limiter")'
    <3> HAVE p \in primed
    <3>1. /\ DOMAIN reads'[p] = 1..(Len(reads[p]) + 2)
          /\ reads'[p][Len(reads[p]) + 2] = Read("limiter")
      BY <2>2, <2>3, <2>4, <2>5
    <3>2. /\ Len(reads[p]) + 2 \in DOMAIN reads'[p]
          /\ \A j \in DOMAIN reads'[p] : ~(j > Len(reads[p]) + 2)
      BY <2>4, <3>1
    <3>3. /\ reads'[p][Len(reads[p]) + 2].copy = "limiter"
          /\ reads'[p][Len(reads[p]) + 2].seen >= heard'[p]["limiter"]
      BY <2>3, <2>6, <3>1, SettingsAssumption DEF Copies, Unread
    <3> QED
      BY <3>2, <3>3 DEF LastIsAhead
  <2>9. p \notin primed => heard'[p]["limiter"] = 0 /\ ~Asked(p, "limiter")'
    <3> HAVE p \notin primed
    <3>1. heard[p]["limiter"] = 0 /\ \A k \in DOMAIN reads[p] : reads[p][k].copy # "limiter"
      BY <1>0 DEF UnprimedIsNew, Asked
    <3>2. heard'[p]["limiter"] = heard[p]["limiter"]
      BY <1>1, <2>1, <2>2 DEF Copies
    <3>3. /\ DOMAIN reads'[p] = 1..(Len(reads[p]) + 1)
          /\ reads'[p][Len(reads[p]) + 1] = Read("getter")
          /\ \A k \in 1..Len(reads[p]) : reads'[p][k] = reads[p][k]
      BY <2>2, <2>3, <2>4, <2>5
    <3> QED
      BY <2>3, <2>4, <3>1, <3>2, <3>3 DEF Asked
  <2>10. p \notin primed => Ahead(p, "limiter")'
    BY <1>1, <2>1, <2>9 DEF Ahead, Copies
  <2>11. \A c \in Copies : Ahead(p, c)'
    BY <2>7, <2>8, <2>10 DEF Ahead, Copies
  <2>12. \A q \in Pods \ {p} : reads'[q] = reads[q] /\ value'[q] = value[q] /\ heard'[q] = heard[q]
    BY <1>1, <2>1
  <2>13. \A q \in Pods \ {p}, c \in Copies : <<q, c>> \notin spoiled' => <<q, c>> \notin spoiled
    BY <2>1
  <2> QED
    BY <1>b, <2>1, <2>9, <2>11, <2>12, <2>13
<1>6. ASSUME NEW p \in Pods, Execute(p) PROVE UnprimedIsNew' /\ CopiesAhead'
  <2>1. PICK k \in DOMAIN reads[p] :
          /\ reads' = [reads EXCEPT ![p][k].seen = row]
          /\ UNCHANGED <<row, publishing, link, primed, inbox, value, heard, spoiled, faults>>
    BY <1>6 DEF Execute
  <2>2. reads[p] \in Seq(Queries) /\ DOMAIN reads[p] = 1..Len(reads[p]) /\ \A j \in DOMAIN reads[p] : reads[p][j] \in Queries
    BY <1>1, LenProperties
  <2>3. /\ DOMAIN reads'[p] = DOMAIN reads[p]
        /\ \A j \in DOMAIN reads[p] : j # k => reads'[p][j] = reads[p][j]
        /\ reads'[p][k] = [reads[p][k] EXCEPT !.seen = row]
    BY <1>1, <2>1, <2>2
  <2>4. reads'[p][k].copy = reads[p][k].copy /\ reads'[p][k].seen = row
    BY <2>2, <2>3 DEF Queries
  <2>5. \A j \in DOMAIN reads[p] : reads'[p][j].copy = reads[p][j].copy
    BY <2>3, <2>4
  <2>6. \A c \in Copies : Asked(p, c)' <=> Asked(p, c)
    BY <2>3, <2>5 DEF Asked
  <2>7. ASSUME NEW c \in Copies, Ahead(p, c) PROVE Ahead(p, c)'
    <3>1. \A j \in DOMAIN reads[p] : reads[p][j].seen >= heard[p][c] => reads'[p][j].seen >= heard'[p][c]
      BY <1>1, <2>1, <2>3, <2>4
    <3>2. LastIsAhead(p, c) => LastIsAhead(p, c)'
      BY <2>3, <2>5, <3>1 DEF LastIsAhead
    <3> QED
      BY <2>1, <2>6, <2>7, <3>2 DEF Ahead
  <2>8. \A q \in Pods \ {p} : reads'[q] = reads[q] /\ value'[q] = value[q] /\ heard'[q] = heard[q]
    BY <1>1, <2>1
  <2>9. p \notin primed' => heard'[p]["limiter"] = 0 /\ ~Asked(p, "limiter")'
    BY <1>0, <2>1, <2>6 DEF UnprimedIsNew, Copies
  <2>10. \A c \in Copies : <<p, c>> \notin spoiled' => Ahead(p, c)'
    BY <1>0, <2>1, <2>7 DEF CopiesAhead
  <2> QED
    BY <1>b, <2>1, <2>8, <2>9, <2>10
<1>7. ASSUME NEW p \in Pods, Return(p) \/ ReadFails(p) PROVE UnprimedIsNew' /\ CopiesAhead'
  <2>1. PICK k \in DOMAIN reads[p] :
          /\ reads' = [reads EXCEPT ![p] = RemoveAt(@, k)]
          /\ primed' = primed /\ heard' = heard
          /\ \/ value' = value
             \/ value' = [value EXCEPT ![p][reads[p][k].copy] = reads[p][k].seen]
          /\ \/ spoiled' = spoiled \cup {<<p, reads[p][k].copy>>}
             \/ /\ InOrder(p, k) /\ spoiled' = spoiled
                /\ value' = [value EXCEPT ![p][reads[p][k].copy] = reads[p][k].seen]
    BY <1>7 DEF Return, ReadFails, Spoil
  <2>2. reads[p] \in Seq(Queries) /\ k \in 1..Len(reads[p]) /\ reads[p][k].copy \in Copies
    <3>1. reads[p] \in Seq(Queries) /\ k \in 1..Len(reads[p])
      BY <1>1, <2>1, LenProperties
    <3>2. reads[p][k] \in Queries
      BY <3>1, ElementOfSeq
    <3> QED
      BY <3>1, <3>2 DEF Queries
  <2>3. reads'[p] = RemoveAt(reads[p], k)
    BY <1>1, <2>1
  <2>4. \A c \in Copies \ {reads[p][k].copy} : value'[p][c] = value[p][c]
    BY <1>1, <2>1, <2>2
  <2>5. ASSUME NEW c \in Copies, <<p, c>> \notin spoiled' PROVE Ahead(p, c)'
    <3>1. Ahead(p, c)
      BY <1>0, <2>1, <2>5 DEF CopiesAhead
    <3>2. CASE reads[p][k].copy # c
      BY <1>0, <2>1, <2>3, <2>4, <3>1, <3>2, AheadAnswered
    <3>3. CASE reads[p][k].copy = c
      <4>1. InOrder(p, k) /\ value' = [value EXCEPT ![p][c] = reads[p][k].seen]
        BY <2>1, <2>5, <3>3
      <4>2. value'[p][c] = reads[p][k].seen
        BY <1>1, <4>1
      <4> QED
        BY <1>0, <2>1, <2>3, <3>1, <3>3, <4>1, <4>2, AheadAnswered
    <3> QED
      BY <3>2, <3>3
  <2>6. \A q \in Pods \ {p} : reads'[q] = reads[q] /\ value'[q] = value[q] /\ heard'[q] = heard[q]
    BY <1>1, <2>1
  <2>7. p \notin primed' => heard'[p]["limiter"] = 0 /\ ~Asked(p, "limiter")'
    <3> HAVE p \notin primed'
    <3>1. heard[p]["limiter"] = 0 /\ \A j \in DOMAIN reads[p] : reads[p][j].copy # "limiter"
      BY <1>0, <2>1 DEF UnprimedIsNew, Asked
    <3>2. \A i \in DOMAIN reads'[p] : \E j \in DOMAIN reads[p] : reads'[p][i] = reads[p][j]
      <4>1. /\ DOMAIN reads[p] = 1..Len(reads[p]) /\ Len(reads[p]) \in Nat
            /\ DOMAIN reads'[p] = 1..(Len(reads[p]) - 1)
            /\ \A i \in 1..(k - 1) : reads'[p][i] = reads[p][i]
            /\ \A i \in k..(Len(reads[p]) - 1) : reads'[p][i] = reads[p][i + 1]
        BY <1>0, <2>1, <2>3, QueryRemoved
      <4> SUFFICES ASSUME NEW i \in 1..(Len(reads[p]) - 1)
                   PROVE  \E j \in 1..Len(reads[p]) : reads'[p][i] = reads[p][j]
        BY <4>1
      <4>2. CASE i < k
        BY <2>2, <4>1, <4>2
      <4>3. CASE i >= k
        <5>1. i + 1 \in 1..Len(reads[p]) /\ i \in k..(Len(reads[p]) - 1)
          BY <2>2, <4>1, <4>3
        <5> QED
          BY <4>1, <5>1
      <4> QED
        BY <2>2, <4>2, <4>3
    <3> QED
      BY <2>1, <3>1, <3>2 DEF Asked
  <2>8. \A q \in Pods \ {p}, c \in Copies : <<q, c>> \notin spoiled' => <<q, c>> \notin spoiled
    BY <2>1
  <2> QED
    BY <1>b, <2>1, <2>5, <2>6, <2>7, <2>8
<1>8. ASSUME NEW p \in Pods, Crash(p) PROVE UnprimedIsNew' /\ CopiesAhead'
  <2>1. /\ reads' = [reads EXCEPT ![p] = <<Read("getter")>>]
        /\ value' = [value EXCEPT ![p] = NoCopy] /\ heard' = [heard EXCEPT ![p] = NoCopy]
        /\ primed' = primed \ {p} /\ spoiled' = {x \in spoiled : x[1] # p}
    BY <1>8 DEF Crash
  <2>2. /\ reads'[p] = <<Read("getter")>> /\ value'[p] = NoCopy /\ heard'[p] = NoCopy
        /\ \A q \in Pods \ {p} : reads'[q] = reads[q] /\ value'[q] = value[q] /\ heard'[q] = heard[q]
    BY <1>1, <2>1
  <2>3. DOMAIN reads'[p] = {1} /\ reads'[p][1].copy = "getter" /\ reads'[p][1].seen = Unread
    BY <2>2 DEF Read
  <2>4. \A c \in Copies : value'[p][c] = 0 /\ heard'[p][c] = 0
    BY <2>2 DEF NoCopy
  <2>5. ~Asked(p, "limiter")' /\ Ahead(p, "limiter")'
    BY <2>3, <2>4 DEF Asked, Ahead, Copies
  <2>6. Ahead(p, "getter")'
    BY <2>3, <2>4 DEF Ahead, LastIsAhead, Copies, Unread
  <2>7. \A q \in Pods \ {p}, c \in Copies : <<q, c>> \notin spoiled' => <<q, c>> \notin spoiled
    BY <2>1
  <2> QED
    BY <1>b, <2>1, <2>2, <2>4, <2>5, <2>6, <2>7 DEF Copies
<1>9. ASSUME NEW p \in Pods, Subscribed(p) PROVE UnprimedIsNew' /\ CopiesAhead'
  BY <1>9, <1>a DEF Subscribed
<1>10. ASSUME NEW p \in Pods, Prime(p) PROVE UnprimedIsNew' /\ CopiesAhead'
  <2>1. /\ p \notin primed /\ primed' = primed \cup {p}
        /\ value' = [value EXCEPT ![p]["limiter"] = value[p]["getter"]]
        /\ UNCHANGED <<reads, heard, spoiled>>
    BY <1>10 DEF Prime
  <2>2. value'[p]["getter"] = value[p]["getter"] /\ value'[p]["limiter"] \in Nat
    BY <1>1, <2>1 DEF Copies
  <2>3. Ahead(p, "limiter")'
    BY <1>0, <2>1, <2>2 DEF Ahead, Asked, UnprimedIsNew
  <2>4. <<p, "getter">> \notin spoiled' => Ahead(p, "getter")'
    BY <1>0, <2>1, <2>2, AheadKept DEF CopiesAhead, Copies
  <2>5. \A q \in Pods \ {p} : reads'[q] = reads[q] /\ value'[q] = value[q] /\ heard'[q] = heard[q]
    BY <1>1, <2>1
  <2> QED
    BY <1>b, <2>1, <2>3, <2>4, <2>5 DEF Copies
<1>11. ASSUME NEW p \in Pods, Drop(p) PROVE UnprimedIsNew' /\ CopiesAhead'
  BY <1>11, <1>a DEF Drop
<1>12. ASSUME NEW p \in Pods, Reconnect(p) PROVE UnprimedIsNew' /\ CopiesAhead'
  <2>1. /\ reads' = [reads EXCEPT ![p] = Append(reads[p], Read("getter"))]
        /\ UNCHANGED <<primed, value, heard, spoiled>>
    BY <1>1, <1>12 DEF Reconnect
  <2>2. /\ reads'[p] = Append(reads[p], Read("getter"))
        /\ \A q \in Pods \ {p} : reads'[q] = reads[q] /\ value'[q] = value[q] /\ heard'[q] = heard[q]
    BY <1>1, <2>1
  <2>3. Read("getter") \in Queries /\ Read("getter").copy = "getter"
    BY ReadQuery DEF Copies, Read
  <2>4. heard'[p]["getter"] \in 0..MaxWrites
    BY <1>1, <2>1 DEF Copies
  <2>5. Ahead(p, "getter")'
    BY <1>0, <2>2, <2>4, AheadAppended DEF Ahead, Copies
  <2>6. <<p, "limiter">> \notin spoiled' => Ahead(p, "limiter")'
    <3> HAVE <<p, "limiter">> \notin spoiled'
    <3>1. Ahead(p, "limiter")
      BY <1>0, <2>1 DEF CopiesAhead, Copies
    <3>2. value'[p]["limiter"] = value[p]["limiter"] /\ heard'[p]["limiter"] = heard[p]["limiter"]
      BY <2>1
    <3> QED
      BY <1>0, <2>2, <2>3, <3>1, <3>2, AheadOther DEF Copies
  <2>7. p \notin primed' => heard'[p]["limiter"] = 0 /\ ~Asked(p, "limiter")'
    <3> HAVE p \notin primed'
    <3>1. heard[p]["limiter"] = 0 /\ \A k \in DOMAIN reads[p] : reads[p][k].copy # "limiter"
      BY <1>0, <2>1 DEF UnprimedIsNew, Asked
    <3>2. reads[p] \in Seq(Queries) /\ DOMAIN reads[p] = 1..Len(reads[p]) /\ Len(reads[p]) \in Nat
      BY <1>1, LenProperties
    <3>3. /\ DOMAIN reads'[p] = 1..(Len(reads[p]) + 1)
          /\ reads'[p][Len(reads[p]) + 1] = Read("getter")
          /\ \A k \in 1..Len(reads[p]) : reads'[p][k] = reads[p][k]
      BY <2>2, <2>3, <3>2, AppendProperties, LenProperties
    <3> QED
      BY <2>1, <2>3, <3>1, <3>2, <3>3 DEF Asked
  <2> QED
    BY <1>b, <2>1, <2>2, <2>5, <2>6, <2>7 DEF Copies
<1>13. CASE UNCHANGED vars
  BY <1>13, <1>a DEF vars
<1> QED
  BY <1>3, <1>4, <1>5, <1>6, <1>7, <1>8, <1>9, <1>10, <1>11, <1>12, <1>13 DEF Next, Steps

-----------------------------------------------------------------------------
(* Theorems                                                                *)

\* The row, the copies and what is on its way to them keep their kind, for
\* any numbers of pods, saves and faults: a value anybody holds or will be
\* told of is one that was stored.
THEOREM SettingsTypeCorrect == Spec => []TypeOK
<1> QED
  BY InitTypes, TypeStep, PTL DEF Spec

THEOREM SettingsInvHolds == Spec => []SettingsInv
<1>1. Init => SettingsInv
  BY InitTypes, InitAhead DEF SettingsInv
<1>2. SettingsInv /\ [Next]_vars => SettingsInv'
  BY TypeStep, AheadStep DEF SettingsInv
<1> QED
  BY <1>1, <1>2, PTL DEF Spec

\* A copy with no query under way holds every save it was told of, unless an
\* answer failed or overtook another since the last message that found no
\* query of it under way (cached-setting.ts and llm-queue.ts read again on
\* every message, and the row is stored before it is published).
THEOREM HeardIsSeenHolds == Spec => []HeardIsSeen
<1>1. SettingsInv => HeardIsSeen
  BY DEF SettingsInv, CopiesAhead, Ahead, LastIsAhead, HeardIsSeen
<1> QED
  BY <1>1, SettingsInvHolds, PTL
=============================================================================
