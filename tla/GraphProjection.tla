-------------------------- MODULE GraphProjection ---------------------------
(***************************************************************************)
(* The live projection protocol of the cloud graph store (graph.nodes,     *)
(* graph.relations and graph.claims behind GraphStore): concurrent upserts *)
(* of single rows and replacements of a whole workspace.  Each call is one *)
(* READ COMMITTED transaction and takes one step per statement, or per row *)
(* lock a statement waits for.  A statement sees what was committed when   *)
(* it began; a row it had to wait for is looked at again once it is free.  *)
(* A call's own writes reach `rows` when it commits.                       *)
(* Definitions marked "Fault" are not part of the specification.           *)
(***************************************************************************)
EXTENDS Naturals, FiniteSets

CONSTANTS
  Ids,          \* logical ids of one workspace
  TableOf,      \* the number of the table an id belongs to
  Upserts,      \* upsert_live_* calls, each made at most once
  Replaces,     \* replace_live_projection calls, each made at most once
  about,        \* ids that each call may write
  Seed,         \* stands for the call that wrote the rows found at the start
  MaxVersion    \* bound on valid_from

\* nodes, relations, claims
Tables == 1 .. 3
Calls == Upserts \cup Replaces

ASSUME TableOfAssumption == TableOf \in [Ids -> Tables]
ASSUME CallsAssumption == Upserts \cap Replaces = {} /\ Seed \notin Calls
ASSUME AboutAssumption == about \in [Calls -> SUBSET Ids]
ASSUME MaxVersionAssumption == MaxVersion \in Nat \ {0}

VARIABLES
  rows,   \* committed rows
  call    \* each call's transaction

vars == <<rows, call>>

\* NULL in valid_to.
Live == 0

Versions == 1 .. MaxVersion

\* `by` is the call that inserted the row; a call inserts an id at most once.
Row == [id : Ids, from : Versions, to : Versions \cup {Live}, by : Calls \cup {Seed}]

Steps == {"idle", "lock", "close", "insert", "commit", "done", "conflict", "failed"}

Transaction ==
  [step : Steps,
   ids : SUBSET Ids,          \* what the call will insert
   version : Versions,
   table : Tables,            \* the table its statement works on
   found : SUBSET Row,        \* rows its statement found and has yet to lock
   locked : SUBSET Row,       \* rows it has locked
   closed : SUBSET Row,       \* those of them it has closed
   inserted : SUBSET Ids]     \* ids it has inserted

LiveRows(t) == {r \in rows : r.to = Live /\ TableOf[r.id] = t}
LiveOf(id) == {r \in rows : r.to = Live /\ r.id = id}

TypeOK ==
  /\ rows \subseteq Row
  /\ call \in [Calls -> Transaction]
  /\ \A c \in Calls : call[c].closed \subseteq call[c].locked
  /\ \A c, d \in Calls : c # d => call[c].locked \cap call[d].locked = {}

Idle == [step |-> "idle", ids |-> {}, version |-> 1, table |-> 1,
         found |-> {}, locked |-> {}, closed |-> {}, inserted |-> {}]

Init ==
  /\ \E seeded \in SUBSET Ids :
       rows = {[id |-> i, from |-> 1, to |-> Live, by |-> Seed] : i \in seeded}
  /\ call = [c \in Calls |-> Idle]

-----------------------------------------------------------------------------
(* What a transaction waits for, and how it ends.                          *)

Active(c) == call[c].step \in {"lock", "close", "insert", "commit"}
Others(c) == {d \in Calls \ {c} : Active(d)}

\* No other transaction has locked the row.
Free(c, r) == \A d \in Others(c) : r \notin call[d].locked

\* Another transaction has changed the live entry of this id in the unique
\* index and has not ended.
Contended(c, id) ==
  \E d \in Others(c) :
    \/ id \in call[d].inserted
    \/ LiveOf(id) \cap call[d].closed # {}

\* The unique index still holds a live row that this call did not close.
Occupied(c, id) == LiveOf(id) \ call[c].closed # {}

\* Rolled back, or committed and remembered for what it wrote.
Ends(c, how) ==
  IF how = "done"
  THEN [Idle EXCEPT !.step = how, !.ids = call[c].ids, !.version = call[c].version]
  ELSE [Idle EXCEPT !.step = how]

\* A statement that selects the live rows of a table for locking.
Selects(c, step, t, found) ==
  [call[c] EXCEPT !.step = step, !.table = t, !.found = found]

-----------------------------------------------------------------------------
(* Starting: BEGIN and the first SELECT ... FOR UPDATE.                    *)

StartUpsert(c, id, v) ==
  /\ call[c].step = "idle"
  /\ call' = [call EXCEPT ![c] =
       [Idle EXCEPT !.step = "lock", !.ids = {id}, !.version = v,
                    !.table = TableOf[id], !.found = LiveOf(id)]]
  /\ UNCHANGED rows

StartReplace(c, ids, v) ==
  /\ call[c].step = "idle"
  /\ call' = [call EXCEPT ![c] =
       [Idle EXCEPT !.step = "lock", !.ids = ids, !.version = v,
                    !.found = LiveRows(1)]]
  /\ UNCHANGED rows

-----------------------------------------------------------------------------
(* Locking.                                                                *)

\* Fault: the SELECT lacks FOR UPDATE and waits for nobody.
LockRowUnlocked(c) ==
  /\ call[c].step \in {"lock", "close"}
  /\ \E r \in call[c].found :
       call' = [call EXCEPT ![c].found = @ \ {r}, ![c].locked = @ \cup {r}]
  /\ UNCHANGED rows

\* The statement gets one of its rows, at once or after the transaction that
\* held it has ended, and drops it if it is no longer live.
LockRow(c) ==
  /\ call[c].step \in {"lock", "close"}
  /\ \E r \in call[c].found :
       /\ Free(c, r)
       /\ call' = [call EXCEPT
            ![c].found = @ \ {r},
            ![c].locked = IF r \in rows THEN @ \cup {r} ELSE @]
  /\ UNCHANGED rows

\* Faults: the check lets an equal version through; there is no check.
NotEvenAsNew(c, found) == \E r \in found : call[c].version < r.from
NeverTooOld(c, found) == FALSE

\* The live rows just locked are not all older than the call's version.
NotNewer(c, found) == \E r \in found : call[c].version <= r.from

\* An upsert that locked its live row, or found none, checks and closes it.
CloseLiveRow(c) ==
  /\ c \in Upserts
  /\ call[c].step = "lock" /\ call[c].found = {}
  /\ call' = [call EXCEPT ![c] =
       IF NotNewer(c, call[c].locked) THEN Ends(c, "conflict")
       ELSE [@ EXCEPT !.step = "insert", !.closed = call[c].locked]]
  /\ UNCHANGED rows

\* A replacement checks the rows it locked in a table; its UPDATE then looks
\* for live rows afresh.
CheckAllLive(c) ==
  /\ c \in Replaces
  /\ call[c].step = "lock" /\ call[c].found = {}
  /\ LET t == call[c].table
         here == {r \in call[c].locked : TableOf[r.id] = t} IN
     call' = [call EXCEPT ![c] =
       IF NotNewer(c, here) THEN Ends(c, "conflict")
       ELSE Selects(c, "close", t, LiveRows(t))]
  /\ UNCHANGED rows

\* Fault: a replacement by nothing has no last insert to commit after.
CloseAllLiveThenInsert(c) ==
  /\ c \in Replaces
  /\ call[c].step = "close" /\ call[c].found = {}
  /\ LET t == call[c].table
         here == {r \in call[c].locked : TableOf[r.id] = t}
         next == IF t + 1 \in Tables THEN Selects(c, "lock", t + 1, LiveRows(t + 1))
                 ELSE [call[c] EXCEPT !.step = "insert"] IN
     call' = [call EXCEPT ![c] =
       IF \E r \in here : call[c].version < r.from THEN Ends(c, "failed")
       ELSE [next EXCEPT !.closed = @ \cup here]]
  /\ UNCHANGED rows

\* It closes the rows found live, unless the valid_to >= valid_from check of
\* the table refuses one, and goes on to the next table or to its inserts.
CloseAllLive(c) ==
  /\ c \in Replaces
  /\ call[c].step = "close" /\ call[c].found = {}
  /\ LET t == call[c].table
         here == {r \in call[c].locked : TableOf[r.id] = t}
         next == IF t + 1 \in Tables THEN Selects(c, "lock", t + 1, LiveRows(t + 1))
                 ELSE [call[c] EXCEPT !.step = IF call[c].ids = {} THEN "commit"
                                               ELSE "insert"] IN
     call' = [call EXCEPT ![c] =
       IF \E r \in here : call[c].version < r.from THEN Ends(c, "failed")
       ELSE [next EXCEPT !.closed = @ \cup here]]
  /\ UNCHANGED rows

-----------------------------------------------------------------------------
(* Inserting and committing.                                               *)

\* Fault: an insert does not wait for what other transactions have pending.
InsertWithoutWaiting(c) ==
  /\ call[c].step = "insert"
  /\ \E id \in call[c].ids \ call[c].inserted :
       call' = [call EXCEPT ![c] =
         IF Occupied(c, id) THEN Ends(c, "conflict")
         ELSE [@ EXCEPT !.inserted = @ \cup {id},
                        !.step = IF call[c].ids = call[c].inserted \cup {id}
                                 THEN "commit" ELSE @]]
  /\ UNCHANGED rows

\* Fault: an insert refused by the index is tried until it succeeds.
InsertUntilAccepted(c) ==
  /\ call[c].step = "insert"
  /\ \E id \in call[c].ids \ call[c].inserted :
       /\ ~Contended(c, id) /\ ~Occupied(c, id)
       /\ call' = [call EXCEPT ![c].inserted = @ \cup {id},
                               ![c].step = IF call[c].ids = call[c].inserted \cup {id}
                                           THEN "commit" ELSE @]
  /\ UNCHANGED rows

\* Rows go in table by table.
Following(c) ==
  LET rest == call[c].ids \ call[c].inserted IN
  {id \in rest : \A other \in rest : TableOf[id] <= TableOf[other]}

\* The partial unique index makes an insert wait for a transaction that has
\* the id's live entry pending, and refuses it if a live row remains.
InsertLive(c) ==
  /\ call[c].step = "insert"
  /\ \E id \in Following(c) :
       /\ ~Contended(c, id)
       /\ call' = [call EXCEPT ![c] =
            IF Occupied(c, id) THEN Ends(c, "conflict")
            ELSE [call[c] EXCEPT !.inserted = @ \cup {id},
                                 !.step = IF call[c].ids = call[c].inserted \cup {id}
                                          THEN "commit" ELSE @]]
  /\ UNCHANGED rows

Commit(c) ==
  /\ call[c].step = "commit"
  /\ rows' = (rows \ call[c].closed)
               \cup {[r EXCEPT !.to = call[c].version] : r \in call[c].closed}
               \cup {[id |-> i, from |-> call[c].version, to |-> Live, by |-> c] :
                       i \in call[c].inserted}
  /\ call' = [call EXCEPT ![c] = Ends(c, "done")]

\* The connection is lost, or the server picks the call as deadlock victim.
Fail(c) ==
  /\ Active(c)
  /\ call' = [call EXCEPT ![c] = Ends(c, "failed")]
  /\ UNCHANGED rows

\* A statement of `c` waits for something that `d` holds.
WaitsFor(c, d) ==
  /\ d \in Others(c)
  /\ \/ /\ call[c].step \in {"lock", "close"}
        /\ \A r \in call[c].found : ~Free(c, r)
        /\ call[c].found \cap call[d].locked # {}
     \/ /\ call[c].step = "insert"
        /\ \A id \in Following(c) : Contended(c, id)
        /\ \E id \in Following(c) :
             id \in call[d].inserted \/ LiveOf(id) \cap call[d].closed # {}

\* Replacements that wait for each other in a circle, until the server fails
\* one of them.
Deadlocked(c) ==
  \E ring \in SUBSET Replaces :
    c \in ring /\ \A d \in ring : \E e \in ring : WaitsFor(d, e)

BreakDeadlock(c) == Deadlocked(c) /\ Fail(c)

Progress(c) ==
  \/ LockRow(c)
  \/ CloseLiveRow(c)
  \/ CheckAllLive(c)
  \/ CloseAllLive(c)
  \/ InsertLive(c)
  \/ Commit(c)

Next ==
  \/ \E c \in Upserts : \E id \in about[c], v \in Versions : StartUpsert(c, id, v)
  \/ \E c \in Replaces : \E ids \in SUBSET about[c], v \in Versions : StartReplace(c, ids, v)
  \/ \E c \in Calls : Progress(c)
  \/ \E c \in Calls : Fail(c)

\* A started transaction goes on unless it waits for another.  The server
\* ends deadlocks; it is only relied upon for those of replacements.
Fairness ==
  /\ \A c \in Calls : WF_vars(Progress(c))
  /\ \A c \in Replaces : WF_vars(BreakDeadlock(c))

Spec == Init /\ [][Next]_vars /\ Fairness

-----------------------------------------------------------------------------
(* Properties.                                                             *)

\* No replacement has changed the rows so far.
OnlyUpserted == \A c \in Replaces : call[c].step # "done"

\* The versions of an id form a chain: one live row exactly, and every closed
\* row ends, later than it began, where one other row begins.
IsChain(id) ==
  LET versions == {r \in rows : r.id = id} IN
  versions # {} =>
    /\ Cardinality(LiveOf(id)) = 1
    /\ \A r, s \in versions : r.from = s.from => r = s
    /\ \A r \in versions : r.to # Live =>
         /\ r.to > r.from
         /\ \E s \in versions : s.from = r.to

\* Upserts keep the history of every id a chain, however their statements
\* interleave and whichever of them fail, and so do replacements under way.
HistoryIsAChain == OnlyUpserted => \A id \in Ids : IsChain(id)

Accepted(id) ==
  {call[c].version : c \in {d \in Upserts : call[d].step = "done" /\ id \in call[d].ids}}
    \cup {r.from : r \in {s \in rows : s.id = id /\ s.by = Seed}}

\* The live version of an id is the newest one accepted: no accepted write is
\* overtaken by an older one that reached the database later.
NewestAcceptedIsLive ==
  OnlyUpserted =>
    \A id \in Ids : \A r \in LiveOf(id) :
      r.from \in Accepted(id) /\ \A v \in Accepted(id) : v <= r.from

\* At most one live row per id, replacements or not, and every call that
\* committed left its rows behind, live or closed.
CommittedRowsStay ==
  /\ \A id \in Ids : Cardinality(LiveOf(id)) <= 1
  /\ \A c \in Calls : call[c].step = "done" =>
       \A id \in call[c].ids :
         \E r \in rows : r.id = id /\ r.by = c /\ r.from = call[c].version

\* Started calls end: upserts wait for each other and for a replacement, but
\* never in a circle, and only replacements need the server to end theirs.
\* A call is made once, so from some time on none is under way.
EveryCallEnds == <>[](\A c \in Calls : ~Active(c))

\* What close_all_live says it does: a row is closed only by a strictly
\* greater version.
ClosedStrictlyLater == \A r \in rows : r.to # Live => r.to > r.from
=============================================================================
