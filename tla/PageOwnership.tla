--------------------------- MODULE PageOwnership ---------------------------
(***************************************************************************)
(* What write admission promises about the pages, whatever processes,      *)
(* crashes and lost answers do underneath: an unsettled write claims its   *)
(* pages for itself, rooms and claims exclude a freeze, a frozen page is   *)
(* the baseline that was approved, and a page changes only by its own      *)
(* claimant or while nobody claims it.  PageWriteAdmission implements it.  *)
(***************************************************************************)
EXTENDS FiniteSets

CONSTANTS Runtimes, Intents, Pages

VARIABLES
  claim,      \* the pages each unsettled write has claimed
  reference,  \* the claims that only refer to an unchanged parent page
  rooms,      \* writable rooms and requests, <<runtime, page>>
  frozen,
  prepared,   \* pages whose content is their prepared or published baseline
  overtaken   \* claims whose page moved to another lifecycle under them

vars == <<claim, reference, rooms, frozen, prepared, overtaken>>

Unclaimed(p) == \A i \in Intents : p \notin claim[i]
NoRoom(p) == \A r \in Runtimes : <<r, p>> \notin rooms

Init ==
  /\ claim = [i \in Intents |-> {}]
  /\ reference = {} /\ rooms = {} /\ frozen = {}
  /\ prepared = {} /\ overtaken = {}

Take(i, P) ==
  /\ claim[i] = {}
  /\ \A p \in P : Unclaimed(p)
  /\ claim' = [claim EXCEPT ![i] = P]
  /\ \/ reference' = reference \cup {i}
     \/ P \cap frozen = {} /\ UNCHANGED reference
  /\ UNCHANGED <<rooms, frozen, prepared, overtaken>>

\* The claimant changes its pages, and goes on.
Change(i) ==
  /\ i \notin reference
  /\ claim[i] \cap frozen = {}
  /\ prepared' = prepared \ claim[i]
  /\ UNCHANGED <<claim, reference, rooms, frozen, overtaken>>

\* The claimant settles, perhaps with a last change or a baseline.
Settle(i) ==
  /\ i \notin overtaken
  /\ claim' = [claim EXCEPT ![i] = {}]
  /\ reference' = reference \ {i}
  /\ \/ UNCHANGED prepared
     \/ /\ i \notin reference
        /\ claim[i] \cap frozen = {}
        /\ prepared' \in {prepared \ claim[i], prepared \cup claim[i]}
  /\ UNCHANGED <<rooms, frozen, overtaken>>

\* Claims end without a change and rooms close, one by one or all those of a
\* retired process.
Abandon(S, R) ==
  /\ claim' = [i \in Intents |-> IF i \in S THEN {} ELSE claim[i]]
  /\ reference' = reference \ S
  /\ overtaken' = overtaken \ S
  /\ rooms' = rooms \ R
  /\ UNCHANGED <<frozen, prepared>>

\* An SQL-only or room write.
Write(p) ==
  /\ Unclaimed(p)
  /\ p \notin frozen
  /\ prepared' = prepared \ {p}
  /\ UNCHANGED <<claim, reference, rooms, frozen, overtaken>>

Enter(r, p) ==
  /\ Unclaimed(p)
  /\ p \notin frozen
  /\ rooms' = rooms \cup {<<r, p>>}
  /\ UNCHANGED <<claim, reference, frozen, prepared, overtaken>>

Freeze(p) ==
  /\ Unclaimed(p)
  /\ NoRoom(p)
  /\ p \in prepared
  /\ frozen' = frozen \cup {p}
  /\ UNCHANGED <<claim, reference, rooms, prepared, overtaken>>

Thaw(p) ==
  /\ p \in frozen
  /\ frozen' = frozen \ {p}
  /\ prepared' = prepared \ {p}
  /\ overtaken' = overtaken \cup {i \in Intents : p \in claim[i]}
  /\ UNCHANGED <<claim, reference, rooms>>

Next ==
  \/ \E i \in Intents : Change(i) \/ Settle(i) \/ \E P \in SUBSET Pages : Take(i, P)
  \/ \E S \in SUBSET Intents, R \in SUBSET rooms : Abandon(S, R)
  \/ \E p \in Pages : Write(p) \/ Freeze(p) \/ Thaw(p) \/ \E r \in Runtimes : Enter(r, p)

Spec == Init /\ [][Next]_vars

-----------------------------------------------------------------------------

TypeOK ==
  /\ claim \in [Intents -> SUBSET Pages]
  /\ reference \subseteq Intents
  /\ rooms \subseteq Runtimes \X Pages
  /\ frozen \subseteq Pages
  /\ prepared \subseteq Pages
  /\ overtaken \subseteq Intents

\* No page has two claims.
Exclusive == \A i, j \in Intents : i # j => claim[i] \cap claim[j] = {}

\* A frozen page is its baseline, and has no writer.
FrozenIdle ==
  \A p \in frozen :
    /\ p \in prepared
    /\ NoRoom(p)
    /\ \A i \in Intents : p \in claim[i] => i \in reference

\* Only references can be overtaken.
OvertakenAreReferences == overtaken \subseteq reference

\* The rules are inductive together: a freeze needs the claims to be exclusive
\* of rooms, and a thaw overtakes no claim but references because no other
\* claim covers a frozen page.
Inv == TypeOK /\ Exclusive /\ FrozenIdle /\ OvertakenAreReferences

=============================================================================
