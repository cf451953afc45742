-------------------------- MODULE ClusterSettings --------------------------
(***************************************************************************)
(* A cluster-wide setting and its copies: an admin_settings row, and in    *)
(* every pod the cached getter (cached-setting.ts) and the llm queue's     *)
(* limiter (llm-queue.ts), both told by the cache-bus that the row changed *)
(* and both reading it again by themselves.  A value stands for the number *)
(* of the write that stored it; 0 is the value before the first.           *)
(***************************************************************************)
EXTENDS Naturals, Sequences, SequencesExt

CONSTANTS
  Pods,
  MaxWrites,  \* bound: saves by administrators
  Faults,     \* which kinds of trouble the run allows
  MaxFaults   \* bound: how many of them happen

Kinds == {"drop", "crash", "publish", "read", "overtake"}

ASSUME SettingsAssumption ==
  /\ MaxWrites \in Nat /\ MaxFaults \in Nat /\ Faults \subseteq Kinds

VARIABLES
  row,         \* the stored value
  publishing,  \* saves that are stored and not published yet
  link,        \* a pod's boot, then its subscriber connection
  primed,      \* pods whose limiter is primed and listens
  inbox,       \* messages of each pod's connection, in their order
  reads,       \* a pod's queries under way, in the order they started
  value,       \* the copies
  heard,       \* the newest save each copy was told of
  spoiled,     \* copies an answer failed or overtook, until the next clean query
  struck,      \* the kinds of trouble there have been
  spent        \* and how much of it

faults == <<struck, spent>>
vars == <<row, publishing, link, primed, inbox, reads, value, heard, spoiled, faults>>

Copies == {"getter", "limiter"}
Unread == MaxWrites + 1  \* a query the database has not run yet
Read(c) == [copy |-> c, seen |-> Unread]
NoCopy == [c \in Copies |-> 0]

TypeOK ==
  /\ row \in 0..MaxWrites
  /\ publishing \subseteq 1..row
  /\ link \in [Pods -> {"loading", "subscribing", "up", "down"}]
  /\ primed \subseteq {p \in Pods : link[p] # "loading"}
  /\ inbox \in [Pods -> Seq(1..row)]
  /\ reads \in [Pods -> Seq([copy : Copies, seen : 0..row \cup {Unread}])]
  /\ value \in [Pods -> [Copies -> 0..row]]
  /\ heard \in [Pods -> [Copies -> 0..row]]
  /\ spoiled \subseteq Pods \X Copies
  /\ struck \subseteq Faults
  /\ spent \in 0..MaxFaults

Init ==
  /\ row = 0 /\ publishing = {} /\ spoiled = {}
  /\ struck = {} /\ spent = 0
  /\ link = [p \in Pods |-> "up"]
  /\ primed = Pods
  /\ inbox = [p \in Pods |-> <<>>]
  /\ reads = [p \in Pods |-> <<>>]
  /\ value = [p \in Pods |-> NoCopy]
  /\ heard = [p \in Pods |-> NoCopy]

Strike(k) ==
  /\ k \in Faults
  /\ spent < MaxFaults
  /\ spent' = spent + 1
  /\ struck' = struck \cup {k}

(* An administrator saves the row, and then publishes the advice. *)

Write ==
  /\ row < MaxWrites
  /\ row' = row + 1
  /\ publishing' = publishing \cup {row'}
  /\ UNCHANGED <<link, primed, inbox, reads, value, heard, spoiled, faults>>

Publish(v) ==
  /\ v \in publishing
  /\ publishing' = publishing \ {v}
  /\ inbox' = [p \in Pods |-> IF link[p] = "up" THEN Append(inbox[p], v) ELSE inbox[p]]
  /\ UNCHANGED <<row, link, primed, reads, value, heard, spoiled, faults>>

\* publish fails softly, or its process ends first.
LosePublish(v) ==
  /\ v \in publishing
  /\ Strike("publish")
  /\ publishing' = publishing \ {v}
  /\ UNCHANGED <<row, link, primed, inbox, reads, value, heard, spoiled>>

(* A message starts a query for every copy that listens; none is awaited. *)
Listeners(p) == IF p \in primed THEN <<"getter", "limiter">> ELSE <<"getter">>

Asked(p, c) == \E k \in DOMAIN reads[p] : reads[p][k].copy = c

Hear(p) ==
  /\ inbox[p] # <<>>
  /\ inbox' = [inbox EXCEPT ![p] = Tail(@)]
  /\ heard' = [heard EXCEPT ![p] = [c \in Copies |->
       IF c \in ToSet(Listeners(p)) /\ inbox[p][1] > @[c] THEN inbox[p][1] ELSE @[c]]]
  /\ spoiled' = spoiled \ {<<p, c>> : c \in {c \in ToSet(Listeners(p)) : ~Asked(p, c)}}
  /\ UNCHANGED <<row, publishing, link, primed, value, faults>>

\* A listener that leaves the message to the query it already has under way.
MutDispatch(p) ==
  /\ Hear(p)
  /\ reads' = [reads EXCEPT ![p] =
       IF @ # <<>> THEN @ ELSE [k \in DOMAIN Listeners(p) |-> Read(Listeners(p)[k])]]

Dispatch(p) ==
  /\ Hear(p)
  /\ reads' = [reads EXCEPT ![p] = @ \o [k \in DOMAIN Listeners(p) |-> Read(Listeners(p)[k])]]

(* The queries use connections of their own: nothing orders them. *)
Execute(p) ==
  \E k \in DOMAIN reads[p] :
    /\ reads[p][k].seen = Unread
    /\ reads' = [reads EXCEPT ![p][k].seen = row]
    /\ UNCHANGED <<row, publishing, link, primed, inbox, value, heard, spoiled, faults>>

Spoil(f, p, k) == Strike(f) /\ spoiled' = spoiled \cup {<<p, reads[p][k].copy>>}

InOrder(p, k) == \A j \in 1..(k - 1) : reads[p][j].copy # reads[p][k].copy

Booting(p) == link[p] = "loading"

Return(p) ==
  \E k \in DOMAIN reads[p] :
    /\ reads[p][k].seen # Unread
    /\ \/ InOrder(p, k) /\ UNCHANGED <<faults, spoiled>>
       \/ ~InOrder(p, k) /\ Spoil("overtake", p, k)
    /\ value' = [value EXCEPT ![p][reads[p][k].copy] = reads[p][k].seen]
    /\ reads' = [reads EXCEPT ![p] = RemoveAt(@, k)]
    /\ link' = [link EXCEPT ![p] = IF Booting(p) THEN "subscribing" ELSE @]
    /\ UNCHANGED <<row, publishing, primed, inbox, heard>>

\* A failed query keeps the copy as it is, and the boot goes on.
ReadFails(p) ==
  \E k \in DOMAIN reads[p] :
    /\ Spoil("read", p, k)
    /\ reads' = [reads EXCEPT ![p] = RemoveAt(@, k)]
    /\ link' = [link EXCEPT ![p] = IF Booting(p) THEN "subscribing" ELSE @]
    /\ UNCHANGED <<row, publishing, primed, inbox, value, heard>>

(* Boot: cold-load, SUBSCRIBE without waiting for it, prime the limiter. *)
\* A restart that still counts its limiter as primed.
MutCrash(p) ==
  /\ Strike("crash")
  /\ link' = [link EXCEPT ![p] = "loading"]
  /\ inbox' = [inbox EXCEPT ![p] = <<>>]
  /\ reads' = [reads EXCEPT ![p] = <<Read("getter")>>]
  /\ value' = [value EXCEPT ![p] = NoCopy]
  /\ heard' = [heard EXCEPT ![p] = NoCopy]
  /\ spoiled' = {x \in spoiled : x[1] # p}
  /\ UNCHANGED <<row, publishing, primed>>

Crash(p) ==
  /\ Strike("crash")
  /\ link' = [link EXCEPT ![p] = "loading"]
  /\ primed' = primed \ {p}
  /\ inbox' = [inbox EXCEPT ![p] = <<>>]
  /\ reads' = [reads EXCEPT ![p] = <<Read("getter")>>]
  /\ value' = [value EXCEPT ![p] = NoCopy]
  /\ heard' = [heard EXCEPT ![p] = NoCopy]
  /\ spoiled' = {x \in spoiled : x[1] # p}
  /\ UNCHANGED <<row, publishing>>

Subscribed(p) ==
  /\ link[p] = "subscribing"
  /\ link' = [link EXCEPT ![p] = "up"]
  /\ UNCHANGED <<row, publishing, primed, inbox, reads, value, heard, spoiled, faults>>

Prime(p) ==
  /\ ~Booting(p) /\ p \notin primed
  /\ primed' = primed \cup {p}
  /\ value' = [value EXCEPT ![p].limiter = value[p].getter]
  /\ UNCHANGED <<row, publishing, link, inbox, reads, heard, spoiled, faults>>

(* The subscriber loses its connection, with what was on its way. *)
Drop(p) ==
  /\ link[p] = "up"
  /\ Strike("drop")
  /\ link' = [link EXCEPT ![p] = "down"]
  /\ inbox' = [inbox EXCEPT ![p] = <<>>]
  /\ UNCHANGED <<row, publishing, primed, reads, value, heard, spoiled>>

\* Only the getter has registered a reconnect handler.
Reconnect(p) ==
  /\ link[p] = "down"
  /\ link' = [link EXCEPT ![p] = "up"]
  /\ reads' = [reads EXCEPT ![p] = Append(@, Read("getter"))]
  /\ UNCHANGED <<row, publishing, primed, inbox, value, heard, spoiled, faults>>

Steps(p) ==
  \/ Dispatch(p) \/ Execute(p) \/ Return(p) \/ Subscribed(p) \/ Prime(p) \/ Reconnect(p)

Next ==
  \/ Write
  \/ \E v \in publishing : Publish(v) \/ LosePublish(v)
  \/ \E p \in Pods : Steps(p) \/ ReadFails(p) \/ Crash(p) \/ Drop(p)

Spec == Init /\ [][Next]_vars

\* A request goes on to publish, Redis delivers and reconnects, queries end.
Fairness ==
  /\ WF_vars(\E v \in publishing : Publish(v))
  /\ \A p \in Pods : WF_vars(Steps(p))

FairSpec == Spec /\ Fairness

-----------------------------------------------------------------------------
\* A copy that was told of a save (Dispatch) and has no query under way holds
\* that save or a later one, whatever was dropped, lost or restarted; a failed
\* or overtaken answer harms it only until the next message that finds no
\* query of that copy under way (cached-setting.ts and llm-queue.ts read on
\* every message, and the row is written before it is published).
HeardIsSeen ==
  \A p \in Pods, c \in Copies :
    reads[p] = <<>> /\ <<p, c>> \notin spoiled => value[p][c] >= heard[p][c]

\* Nothing went wrong but lost connections.
OnlyDrops == struck \subseteq {"drop"}

\* Once the saves stop, every getter comes to hold the last one for good,
\* however often connections are lost: it is read again after a reconnect
\* (cached-setting.ts onReconnect), whose query sees what was missed.
GettersCatchUp == <>[](OnlyDrops => \A p \in Pods : value[p].getter = row)
=============================================================================
