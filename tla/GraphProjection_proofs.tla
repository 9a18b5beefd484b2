------------------------ MODULE GraphProjection_proofs ------------------------
(***************************************************************************)
(* Proofs about GraphProjection, for any ids, versions and calls: what the *)
(* row locks and the unique index are for.  Upserts keep the history of an *)
(* id a chain that ends in the newest accepted version, and no committed   *)
(* row is lost, in whatever order statements find, wait, check and fail.   *)
(***************************************************************************)
EXTENDS GraphProjection, FiniteSetTheorems, TLAPS

-----------------------------------------------------------------------------
(* The invariant.                                                          *)

Under == {"lock", "close", "insert", "commit"}

\* What a transaction `t` of call `c` has found, locked and closed.
WellFormed(c, t) ==
  /\ t.step \notin Under => t.locked = {} /\ t.inserted = {}
  /\ t.closed \subseteq t.locked
  /\ t.locked \subseteq rows
  /\ \A r \in t.locked \cup t.found : r.to = Live
  /\ t.step \in {"lock", "close"} => t.inserted = {}
  /\ t.step = "commit" => t.inserted = t.ids
  /\ c \in Upserts /\ t.step \in Under =>
       \E id \in Ids : t.ids = {id} /\ \A r \in t.locked \cup t.found : r.id = id
  /\ c \in Upserts => \A r \in t.closed : r.from < t.version

\* An id that a call has inserted is its own: no live row is left of it but
\* those the call has closed, and nobody else has inserted it.
OwnsInserts(c, t) ==
  \A id \in t.inserted :
    /\ LiveOf(id) \subseteq t.closed
    /\ \A d \in Calls : d # c => id \notin call[d].inserted

LocksAlone(c, t) == \A d \in Calls : d # c => t.locked \cap call[d].locked = {}

OneLive(id) == \A r, s \in LiveOf(id) : r = s

LeftItsRows(c) ==
  call[c].step = "done" =>
    \A id \in call[c].ids : \E r \in rows : r.id = id /\ r.by = c /\ r.from = call[c].version

VersionsOf(id) == {r \in rows : r.id = id}

\* The chain of an id, by its rows.  The live one is the newest.
Chained(id) ==
  VersionsOf(id) # {} =>
    /\ \E l \in LiveOf(id) : \A r \in VersionsOf(id) : r.from <= l.from
    /\ \A r, s \in VersionsOf(id) : r.from = s.from => r = s
    /\ \A r \in VersionsOf(id) : r.to # Live =>
         r.to > r.from /\ \E s \in VersionsOf(id) : s.from = r.to

LiveIsNewest(id) ==
  \A r \in LiveOf(id) : r.from \in Accepted(id) /\ \A v \in Accepted(id) : v <= r.from

IInv ==
  /\ TypeOK
  /\ \A c \in Calls : /\ WellFormed(c, call[c])
                      /\ OwnsInserts(c, call[c])
                      /\ LocksAlone(c, call[c])
                      /\ LeftItsRows(c)
  /\ \A id \in Ids : OneLive(id)
  /\ OnlyUpserted => \A id \in Ids : Chained(id) /\ LiveIsNewest(id)

\* A transaction that is not under way.
LEMMA IdleIsTransaction == Idle \in Transaction
  BY MaxVersionAssumption DEF Idle, Transaction, Steps, Versions, Tables

\* At first every id has one row or none.
LEMMA InitIInv == Init => IInv
  <1> SUFFICES ASSUME Init PROVE IInv
    OBVIOUS
  <1>1. PICK seeded \in SUBSET Ids :
          rows = {[id |-> i, from |-> 1, to |-> Live, by |-> Seed] : i \in seeded}
    BY DEF Init
  <1>2. \A r \in rows : r.id \in Ids /\ r.from = 1 /\ r.to = Live /\ r.by = Seed
    BY <1>1
  <1>3. \A r, s \in rows : r.id = s.id => r = s
    BY <1>1
  <1>4. rows \subseteq Row
    BY <1>1, MaxVersionAssumption DEF Row, Versions
  <1>5. \A c \in Calls : call[c] = Idle
    BY DEF Init
  <1>6. /\ Idle.step = "idle" /\ Idle.found = {} /\ Idle.locked = {}
        /\ Idle.closed = {} /\ Idle.inserted = {}
    BY DEF Idle
  <1>7. TypeOK
    <2>1. call \in [Calls -> Transaction]
      BY IdleIsTransaction DEF Init
    <2> QED BY <1>4, <1>5, <1>6, <2>1 DEF TypeOK
  <1>8. \A c \in Calls : /\ WellFormed(c, call[c]) /\ OwnsInserts(c, call[c])
                         /\ LocksAlone(c, call[c]) /\ LeftItsRows(c)
    BY <1>5, <1>6 DEF WellFormed, OwnsInserts, LocksAlone, LeftItsRows, Under
  <1>9. \A id \in Ids : OneLive(id)
    BY <1>3 DEF OneLive, LiveOf
  <1>10. \A id \in Ids : Chained(id)
    BY <1>2, <1>3 DEF Chained, VersionsOf, LiveOf
  <1>11. \A id \in Ids : LiveIsNewest(id)
    <2> SUFFICES ASSUME NEW id \in Ids PROVE LiveIsNewest(id)
      OBVIOUS
    <2>1. \A v \in Accepted(id) : v = 1
      BY <1>2, <1>5, <1>6 DEF Accepted, Calls
    <2>2. \A r \in LiveOf(id) : r.from \in Accepted(id) /\ r.from = 1
      BY <1>2 DEF Accepted, LiveOf
    <2> QED BY <2>1, <2>2 DEF LiveIsNewest
  <1> QED BY <1>7, <1>8, <1>9, <1>10, <1>11 DEF IInv

-----------------------------------------------------------------------------
(* Steps that commit nothing.                                              *)

\* The transaction of `c` becomes `t` and commits nothing.
LEMMA QuietStep ==
  ASSUME IInv, NEW c \in Calls, NEW t \in Transaction,
         rows' = rows, call' = [call EXCEPT ![c] = t],
         call[c].step # "done", t.step # "done",
         WellFormed(c, t), OwnsInserts(c, t), LocksAlone(c, t)
  PROVE  IInv'
  <1>0. TypeOK
    BY DEF IInv
  <1>1. call'[c] = t /\ \A d \in Calls : d # c => call'[d] = call[d]
    BY <1>0 DEF TypeOK
  <1>2. \A id : LiveOf(id)' = LiveOf(id) /\ VersionsOf(id)' = VersionsOf(id)
    BY DEF LiveOf, VersionsOf
  <1>3. ASSUME NEW d \in Calls PROVE WellFormed(d, call[d])'
    <2>1. CASE d = c
      BY <1>1, <2>1 DEF WellFormed
    <2>2. CASE d # c
      BY <1>1, <2>2 DEF IInv, WellFormed
    <2> QED BY <2>1, <2>2
  <1>4. ASSUME NEW d \in Calls PROVE OwnsInserts(d, call[d])'
    <2>1. ASSUME NEW id \in call'[d].inserted PROVE LiveOf(id)' \subseteq call'[d].closed
      BY <1>1, <1>2, <2>1 DEF IInv, OwnsInserts
    <2>2. ASSUME NEW id \in call'[d].inserted, NEW e \in Calls, e # d
          PROVE  id \notin call'[e].inserted
      <3>1. CASE d = c
        BY <1>1, <2>2, <3>1 DEF OwnsInserts
      <3>2. CASE d # c /\ e # c
        BY <1>1, <2>2, <3>2 DEF IInv, OwnsInserts
      <3>3. CASE d # c /\ e = c
        BY <1>1, <2>2, <3>3 DEF OwnsInserts
      <3> QED BY <3>1, <3>2, <3>3
    <2> QED BY <2>1, <2>2 DEF OwnsInserts
  <1>5. ASSUME NEW d \in Calls PROVE LocksAlone(d, call[d])'
    <2>1. ASSUME NEW e \in Calls, e # d PROVE call'[d].locked \cap call'[e].locked = {}
      <3>1. CASE d = c
        BY <1>1, <2>1, <3>1 DEF LocksAlone
      <3>2. CASE d # c /\ e # c
        BY <1>1, <2>1, <3>2 DEF IInv, LocksAlone
      <3>3. CASE d # c /\ e = c
        BY <1>1, <2>1, <3>3 DEF LocksAlone
      <3> QED BY <3>1, <3>2, <3>3
    <2> QED BY <2>1 DEF LocksAlone
  <1>6. TypeOK'
    <2>1. call' \in [Calls -> Transaction]
      BY <1>0 DEF TypeOK
    <2>2. \A d \in Calls : call'[d].closed \subseteq call'[d].locked
      BY <1>3 DEF WellFormed
    <2>3. \A d, e \in Calls : d # e => call'[d].locked \cap call'[e].locked = {}
      BY <1>5 DEF LocksAlone
    <2> QED BY <1>0, <2>1, <2>2, <2>3 DEF TypeOK
  <1>7. \A d \in Calls : LeftItsRows(d)'
    BY <1>1 DEF IInv, LeftItsRows
  <1>8. \A id \in Ids : OneLive(id)'
    BY <1>2 DEF IInv, OneLive
  <1>9. ASSUME OnlyUpserted', NEW id \in Ids PROVE (Chained(id) /\ LiveIsNewest(id))'
    <2>1. OnlyUpserted
      BY <1>1, <1>9 DEF OnlyUpserted, Calls
    <2>2. Chained(id) /\ LiveIsNewest(id)
      BY <2>1 DEF IInv
    <2>3. Accepted(id)' = Accepted(id)
      <3>1. \A d \in Calls : /\ call'[d].step = "done" <=> call[d].step = "done"
                             /\ call[d].step = "done" => call'[d] = call[d]
        BY <1>1
      <3> QED BY <3>1 DEF Accepted, Calls
    <2> QED BY <1>2, <2>2, <2>3 DEF Chained, LiveIsNewest
  <1> QED BY <1>3, <1>4, <1>5, <1>6, <1>7, <1>8, <1>9 DEF IInv

\* A call that ends without committing leaves nothing behind.
LEMMA EndStep ==
  ASSUME IInv, NEW c \in Calls, NEW how \in {"conflict", "failed"},
         rows' = rows, call' = [call EXCEPT ![c] = Ends(c, how)], call[c].step # "done"
  PROVE  IInv'
  <1> DEFINE t == Ends(c, how)
  <1>1. t \in Transaction
    BY IdleIsTransaction DEF Ends, Transaction, Steps
  <1>2. /\ t.step = how /\ t.found = {} /\ t.locked = {} /\ t.closed = {} /\ t.inserted = {}
    BY DEF Ends, Idle
  <1> HIDE DEF t
  <1>3. WellFormed(c, t) /\ OwnsInserts(c, t) /\ LocksAlone(c, t)
    BY <1>2 DEF WellFormed, OwnsInserts, LocksAlone, Under
  <1>4. call' = [call EXCEPT ![c] = t] /\ t.step # "done"
    BY <1>2 DEF t
  <1> QED BY <1>1, <1>3, <1>4, QuietStep

\* What every step may use of its own transaction.
LEMMA Own ==
  ASSUME IInv, NEW c \in Calls
  PROVE  /\ TypeOK /\ rows \subseteq Row /\ call[c] \in Transaction
         /\ WellFormed(c, call[c]) /\ OwnsInserts(c, call[c]) /\ LocksAlone(c, call[c])
  BY DEF IInv, TypeOK

\* The live rows of an id, or of a table, are rows.
LEMMA LiveRowsAreRows ==
  ASSUME TypeOK
  PROVE  /\ \A id : LiveOf(id) \subseteq rows /\ \A r \in LiveOf(id) : r.to = Live /\ r.id = id
         /\ \A t : LiveRows(t) \subseteq rows /\ \A r \in LiveRows(t) : r.to = Live
         /\ \A r \in rows : r \in Row /\ r.from \in Nat /\ r.from >= 1 /\ r.id \in Ids
  BY MaxVersionAssumption DEF TypeOK, LiveOf, LiveRows, Row, Versions

LEMMA StartUpsertStep ==
  ASSUME IInv, NEW c \in Upserts, NEW id \in Ids, NEW v \in Versions, StartUpsert(c, id, v)
  PROVE  IInv'
  <1> DEFINE t == [Idle EXCEPT !.step = "lock", !.ids = {id}, !.version = v,
                               !.table = TableOf[id], !.found = LiveOf(id)]
  <1>0. c \in Calls /\ TypeOK
    BY DEF Calls, IInv
  <1>1. LiveOf(id) \subseteq Row /\ TableOf[id] \in Tables
    BY <1>0, LiveRowsAreRows, TableOfAssumption
  <1>2. t \in Transaction
    BY <1>1, IdleIsTransaction DEF Transaction, Steps
  <1>3. /\ t.step = "lock" /\ t.ids = {id} /\ t.found = LiveOf(id)
        /\ t.locked = {} /\ t.closed = {} /\ t.inserted = {}
    BY DEF Idle
  <1>4. call' = [call EXCEPT ![c] = t] /\ rows' = rows /\ call[c].step = "idle"
    BY DEF StartUpsert
  <1> HIDE DEF t
  <1>5. WellFormed(c, t) /\ OwnsInserts(c, t) /\ LocksAlone(c, t)
    BY <1>0, <1>3, LiveRowsAreRows DEF WellFormed, OwnsInserts, LocksAlone, Under
  <1> QED BY <1>0, <1>2, <1>3, <1>4, <1>5, QuietStep

LEMMA StartReplaceStep ==
  ASSUME IInv, NEW c \in Replaces, NEW ids \in SUBSET Ids, NEW v \in Versions,
         StartReplace(c, ids, v)
  PROVE  IInv'
  <1> DEFINE t == [Idle EXCEPT !.step = "lock", !.ids = ids, !.version = v,
                               !.found = LiveRows(1)]
  <1>0. c \in Calls /\ TypeOK /\ c \notin Upserts
    BY CallsAssumption DEF Calls, IInv
  <1>1. LiveRows(1) \subseteq Row
    BY <1>0, LiveRowsAreRows
  <1>2. t \in Transaction
    BY <1>1, IdleIsTransaction DEF Transaction, Steps
  <1>3. /\ t.step = "lock" /\ t.found = LiveRows(1)
        /\ t.locked = {} /\ t.closed = {} /\ t.inserted = {}
    BY DEF Idle
  <1>4. call' = [call EXCEPT ![c] = t] /\ rows' = rows /\ call[c].step = "idle"
    BY DEF StartReplace
  <1> HIDE DEF t
  <1>5. WellFormed(c, t) /\ OwnsInserts(c, t) /\ LocksAlone(c, t)
    BY <1>0, <1>3, LiveRowsAreRows DEF WellFormed, OwnsInserts, LocksAlone, Under
  <1> QED BY <1>0, <1>2, <1>3, <1>4, <1>5, QuietStep

\* A row is locked only when nobody else has it, and only if it is still live.
LEMMA LockRowStep ==
  ASSUME IInv, NEW c \in Calls, LockRow(c)
  PROVE  IInv'
  <1>0. /\ TypeOK /\ call[c] \in Transaction
        /\ WellFormed(c, call[c]) /\ OwnsInserts(c, call[c]) /\ LocksAlone(c, call[c])
    BY Own
  <1>1. PICK r \in call[c].found :
          /\ Free(c, r)
          /\ call' = [call EXCEPT
               ![c].found = @ \ {r},
               ![c].locked = IF r \in rows THEN @ \cup {r} ELSE @]
    BY DEF LockRow
  <1> DEFINE now == IF r \in rows THEN call[c].locked \cup {r} ELSE call[c].locked
             t == [call[c] EXCEPT !.found = @ \ {r}, !.locked = now]
  <1>2. t \in Transaction
    BY <1>0 DEF Transaction
  <1>3. /\ t.step = call[c].step /\ t.ids = call[c].ids /\ t.version = call[c].version
        /\ t.found \subseteq call[c].found /\ t.locked = now
        /\ t.closed = call[c].closed /\ t.inserted = call[c].inserted
    BY <1>0 DEF Transaction
  <1>4. call' = [call EXCEPT ![c] = t] /\ rows' = rows /\ call[c].step \in {"lock", "close"}
    BY <1>1 DEF LockRow
  <1>5. \A d \in Calls : d # c => r \notin call[d].locked
    <2> SUFFICES ASSUME NEW d \in Calls, d # c PROVE r \notin call[d].locked
      OBVIOUS
    <2>1. CASE call[d].step \in Under
      BY <1>1, <2>1 DEF Free, Others, Active, Under
    <2>2. CASE call[d].step \notin Under
      BY <2>2 DEF IInv, WellFormed
    <2> QED BY <2>1, <2>2
  <1>6. call[c].locked \subseteq now /\ now \subseteq call[c].locked \cup {r} /\ now \subseteq rows
    BY <1>0 DEF WellFormed
  <1> HIDE DEF t, now
  <1>7. WellFormed(c, t)
    BY <1>0, <1>1, <1>3, <1>4, <1>6 DEF WellFormed, Under
  <1>8. OwnsInserts(c, t)
    BY <1>0, <1>3 DEF OwnsInserts
  <1>9. LocksAlone(c, t)
    BY <1>0, <1>3, <1>5, <1>6 DEF LocksAlone
  <1> QED BY <1>2, <1>3, <1>4, <1>7, <1>8, <1>9, QuietStep

\* An upsert closes what it has locked only if its own version is newer.
LEMMA CloseLiveRowStep ==
  ASSUME IInv, NEW c \in Calls, CloseLiveRow(c)
  PROVE  IInv'
  <1>0. /\ TypeOK /\ call[c] \in Transaction /\ rows \subseteq Row
        /\ WellFormed(c, call[c]) /\ OwnsInserts(c, call[c]) /\ LocksAlone(c, call[c])
    BY Own
  <1>1. rows' = rows /\ call[c].step = "lock" /\ call[c].found = {}
    BY DEF CloseLiveRow
  <1>2. CASE NotNewer(c, call[c].locked)
    <2>1. call' = [call EXCEPT ![c] = Ends(c, "conflict")]
      BY <1>2 DEF CloseLiveRow
    <2> QED BY <1>1, <2>1, EndStep
  <1>3. CASE ~NotNewer(c, call[c].locked)
    <2> DEFINE t == [call[c] EXCEPT !.step = "insert", !.closed = call[c].locked]
    <2>1. t \in Transaction
      BY <1>0 DEF Transaction, Steps
    <2>2. /\ t.step = "insert" /\ t.ids = call[c].ids /\ t.version = call[c].version
          /\ t.found = {} /\ t.locked = call[c].locked
          /\ t.closed = call[c].locked /\ t.inserted = call[c].inserted
      BY <1>0, <1>1 DEF Transaction
    <2>3. call' = [call EXCEPT ![c] = t]
      BY <1>3 DEF CloseLiveRow
    <2>4. \A r \in call[c].locked : r.from < call[c].version
      <3> SUFFICES ASSUME NEW r \in call[c].locked PROVE r.from < call[c].version
        OBVIOUS
      <3>1. r.from \in Nat /\ call[c].version \in Nat
        BY <1>0, LiveRowsAreRows DEF WellFormed, Transaction, Versions
      <3>2. ~(call[c].version <= r.from)
        BY <1>3 DEF NotNewer
      <3> QED BY <3>1, <3>2
    <2> HIDE DEF t
    <2>5. WellFormed(c, t)
      BY <1>0, <1>1, <2>2, <2>4 DEF WellFormed, Under
    <2>6. OwnsInserts(c, t)
      BY <1>0, <2>2 DEF OwnsInserts, WellFormed
    <2>7. LocksAlone(c, t)
      BY <1>0, <2>2 DEF LocksAlone
    <2> QED BY <1>1, <2>1, <2>2, <2>3, <2>5, <2>6, <2>7, QuietStep
  <1> QED BY <1>2, <1>3

LEMMA CheckAllLiveStep ==
  ASSUME IInv, NEW c \in Calls, CheckAllLive(c)
  PROVE  IInv'
  <1>0. /\ TypeOK /\ call[c] \in Transaction /\ rows \subseteq Row
        /\ WellFormed(c, call[c]) /\ OwnsInserts(c, call[c]) /\ LocksAlone(c, call[c])
    BY Own
  <1>1. rows' = rows /\ call[c].step = "lock" /\ c \notin Upserts
    BY CallsAssumption DEF CheckAllLive
  <1> DEFINE now == call[c].table
             t == [call[c] EXCEPT !.step = "close", !.table = now, !.found = LiveRows(now)]
  <1>2. \/ call' = [call EXCEPT ![c] = Ends(c, "conflict")]
        \/ call' = [call EXCEPT ![c] = t]
    BY DEF CheckAllLive, Selects
  <1>3. CASE call' = [call EXCEPT ![c] = Ends(c, "conflict")]
    BY <1>1, <1>3, EndStep
  <1>4. CASE call' = [call EXCEPT ![c] = t]
    <2>1. LiveRows(now) \subseteq Row /\ \A r \in LiveRows(now) : r.to = Live
      BY <1>0, LiveRowsAreRows
    <2>2. t \in Transaction
      BY <1>0, <2>1 DEF Transaction, Steps
    <2>3. /\ t.step = "close" /\ t.found = LiveRows(now) /\ t.locked = call[c].locked
          /\ t.closed = call[c].closed /\ t.inserted = call[c].inserted
      BY <1>0 DEF Transaction
    <2> HIDE DEF t
    <2>4. WellFormed(c, t)
      BY <1>0, <1>1, <2>1, <2>3 DEF WellFormed, Under
    <2>5. OwnsInserts(c, t) /\ LocksAlone(c, t)
      BY <1>0, <2>3 DEF OwnsInserts, LocksAlone
    <2> QED BY <1>1, <1>4, <2>2, <2>3, <2>4, <2>5, QuietStep
  <1> QED BY <1>2, <1>3, <1>4

LEMMA CloseAllLiveStep ==
  ASSUME IInv, NEW c \in Calls, CloseAllLive(c)
  PROVE  IInv'
  <1>0. /\ TypeOK /\ call[c] \in Transaction /\ rows \subseteq Row
        /\ WellFormed(c, call[c]) /\ OwnsInserts(c, call[c]) /\ LocksAlone(c, call[c])
    BY Own
  <1>1. rows' = rows /\ call[c].step = "close" /\ call[c].found = {} /\ c \notin Upserts
    BY CallsAssumption DEF CloseAllLive
  <1>2. CASE call' = [call EXCEPT ![c] = Ends(c, "failed")]
    BY <1>1, <1>2, EndStep
  <1> DEFINE u == call[c].table
             here == {r \in call[c].locked : TableOf[r.id] = u}
  <1>3. CASE /\ u + 1 \in Tables
             /\ call' = [call EXCEPT ![c] =
                  [call[c] EXCEPT !.step = "lock", !.table = u + 1, !.found = LiveRows(u + 1),
                                  !.closed = call[c].closed \cup here]]
    <2> DEFINE t == [call[c] EXCEPT !.step = "lock", !.table = u + 1, !.found = LiveRows(u + 1),
                                    !.closed = call[c].closed \cup here]
    <2>1. LiveRows(u + 1) \subseteq Row /\ \A r \in LiveRows(u + 1) : r.to = Live
      BY <1>0, LiveRowsAreRows
    <2>2. here \subseteq call[c].locked
      OBVIOUS
    <2> HIDE DEF here
    <2>3. t \in Transaction
      BY <1>0, <1>3, <2>1, <2>2 DEF Transaction, Steps
    <2>4. /\ t.step = "lock" /\ t.found = LiveRows(u + 1) /\ t.locked = call[c].locked
          /\ t.closed = call[c].closed \cup here /\ t.inserted = call[c].inserted
      BY <1>0 DEF Transaction
    <2>5. call' = [call EXCEPT ![c] = t]
      BY <1>3
    <2> HIDE DEF t
    <2>6. WellFormed(c, t)
      BY <1>0, <1>1, <2>1, <2>2, <2>4 DEF WellFormed, Under
    <2>7. OwnsInserts(c, t) /\ LocksAlone(c, t)
      BY <1>0, <2>4 DEF OwnsInserts, LocksAlone
    <2> QED BY <1>1, <2>3, <2>4, <2>5, <2>6, <2>7, QuietStep
  <1>4. CASE call' = [call EXCEPT ![c] =
               [call[c] EXCEPT !.step = IF call[c].ids = {} THEN "commit" ELSE "insert",
                               !.closed = call[c].closed \cup here]]
    <2> DEFINE step == IF call[c].ids = {} THEN "commit" ELSE "insert"
               t == [call[c] EXCEPT !.step = step, !.closed = call[c].closed \cup here]
    <2>1. here \subseteq call[c].locked
      OBVIOUS
    <2>2. step \in {"commit", "insert"} /\ (step = "commit" => call[c].ids = {})
      OBVIOUS
    <2>3. call' = [call EXCEPT ![c] = t]
      BY <1>4
    <2> HIDE DEF here, step
    <2>4. t \in Transaction
      BY <1>0, <2>1, <2>2 DEF Transaction, Steps
    <2>5. /\ t.step = step /\ t.found = {} /\ t.locked = call[c].locked /\ t.ids = call[c].ids
          /\ t.closed = call[c].closed \cup here /\ t.inserted = call[c].inserted
      BY <1>0, <1>1 DEF Transaction
    <2> HIDE DEF t
    <2>6. step = "commit" => t.inserted = t.ids
      BY <1>0, <1>1, <2>2, <2>5 DEF WellFormed
    <2>7. WellFormed(c, t)
      BY <1>0, <1>1, <2>1, <2>2, <2>5, <2>6 DEF WellFormed, Under
    <2>8. OwnsInserts(c, t) /\ LocksAlone(c, t)
      BY <1>0, <2>5 DEF OwnsInserts, LocksAlone
    <2> QED BY <1>1, <2>2, <2>3, <2>4, <2>5, <2>7, <2>8, QuietStep
  <1>5. CASE \E r \in here : call[c].version < r.from
    <2>1. call' = [call EXCEPT ![c] = Ends(c, "failed")]
      BY <1>5 DEF CloseAllLive
    <2> QED BY <1>2, <2>1
  <1>6. CASE ~(\E r \in here : call[c].version < r.from) /\ u + 1 \in Tables
    <2>1. call' = [call EXCEPT ![c] =
                     [Selects(c, "lock", u + 1, LiveRows(u + 1)) EXCEPT !.closed = @ \cup here]]
      BY <1>6 DEF CloseAllLive
    <2> QED BY <1>3, <1>6, <2>1 DEF Selects
  <1>7. CASE ~(\E r \in here : call[c].version < r.from) /\ u + 1 \notin Tables
    <2>1. call' = [call EXCEPT ![c] =
                     [[call[c] EXCEPT !.step = IF call[c].ids = {} THEN "commit" ELSE "insert"]
                        EXCEPT !.closed = @ \cup here]]
      BY <1>7 DEF CloseAllLive
    <2> QED BY <1>4, <2>1
  <1> QED BY <1>5, <1>6, <1>7

\* The index lets an id in that nobody else has pending, and whose live row
\* the call has closed.
LEMMA InsertLiveStep ==
  ASSUME IInv, NEW c \in Calls, InsertLive(c)
  PROVE  IInv'
  <1>0. /\ TypeOK /\ call[c] \in Transaction /\ rows \subseteq Row
        /\ WellFormed(c, call[c]) /\ OwnsInserts(c, call[c]) /\ LocksAlone(c, call[c])
    BY Own
  <1>1. rows' = rows /\ call[c].step = "insert"
    BY DEF InsertLive
  <1>2. PICK id \in call[c].ids \ call[c].inserted :
          /\ ~Contended(c, id)
          /\ call' = [call EXCEPT ![c] =
               IF Occupied(c, id) THEN Ends(c, "conflict")
               ELSE [call[c] EXCEPT !.inserted = @ \cup {id},
                         !.step = IF call[c].ids = call[c].inserted \cup {id}
                                  THEN "commit" ELSE @]]
    BY DEF InsertLive, Following
  <1>3. CASE Occupied(c, id)
    <2>1. call' = [call EXCEPT ![c] = Ends(c, "conflict")]
      BY <1>2, <1>3
    <2> QED BY <1>1, <2>1, EndStep
  <1>4. CASE ~Occupied(c, id)
    <2> DEFINE step == IF call[c].ids = call[c].inserted \cup {id} THEN "commit" ELSE "insert"
               t == [call[c] EXCEPT !.inserted = call[c].inserted \cup {id}, !.step = step]
    <2>1. call' = [call EXCEPT ![c] = t]
      <3>1. [call[c] EXCEPT !.inserted = @ \cup {id},
                            !.step = IF call[c].ids = call[c].inserted \cup {id}
                                     THEN "commit" ELSE @] = t
        BY <1>0, <1>1 DEF Transaction
      <3>2. call' = [call EXCEPT ![c] =
               [call[c] EXCEPT !.inserted = @ \cup {id},
                               !.step = IF call[c].ids = call[c].inserted \cup {id}
                                        THEN "commit" ELSE @]]
        BY <1>2, <1>4
      <3> HIDE DEF t
      <3> QED BY <3>1, <3>2
    <2>2. /\ step \in {"commit", "insert"}
          /\ step = "commit" => call[c].ids = call[c].inserted \cup {id}
      OBVIOUS
    <2> HIDE DEF step
    <2>3. t \in Transaction
      BY <1>0, <2>2 DEF Transaction, Steps
    <2>4. /\ t.step = step /\ t.found = call[c].found /\ t.locked = call[c].locked
          /\ t.ids = call[c].ids /\ t.version = call[c].version
          /\ t.closed = call[c].closed /\ t.inserted = call[c].inserted \cup {id}
      BY <1>0 DEF Transaction
    <2> HIDE DEF t
    <2>5. WellFormed(c, t)
      BY <1>0, <1>1, <2>2, <2>4 DEF WellFormed, Under
    <2>6. LiveOf(id) \subseteq call[c].closed
      BY <1>4 DEF Occupied
    <2>7. ASSUME NEW d \in Calls, d # c PROVE id \notin call[d].inserted
      <3>1. CASE call[d].step \in Under
        BY <1>2, <2>7, <3>1 DEF Contended, Others, Active, Under
      <3>2. CASE call[d].step \notin Under
        BY <3>2 DEF IInv, WellFormed
      <3> QED BY <3>1, <3>2
    <2>8. OwnsInserts(c, t)
      BY <1>0, <2>4, <2>6, <2>7 DEF OwnsInserts
    <2>9. LocksAlone(c, t)
      BY <1>0, <2>4 DEF LocksAlone
    <2> QED BY <1>1, <2>1, <2>2, <2>3, <2>4, <2>5, <2>8, <2>9, QuietStep
  <1> QED BY <1>3, <1>4

LEMMA FailStep ==
  ASSUME IInv, NEW c \in Calls, Fail(c)
  PROVE  IInv'
  <1>1. call[c].step # "done" /\ rows' = rows /\ call' = [call EXCEPT ![c] = Ends(c, "failed")]
    BY DEF Fail, Active
  <1> QED BY <1>1, EndStep

-----------------------------------------------------------------------------
(* The step that commits.                                                  *)

\* What `c` leaves in the tables: rows it did not close, those it closed,
\* and those it inserted.
LEMMA CommitRows ==
  ASSUME IInv, NEW c \in Calls, Commit(c)
  PROVE  /\ call[c].inserted = call[c].ids /\ call[c].ids \subseteq Ids
         /\ call[c].version \in Versions /\ call[c].version \in Nat /\ call[c].version # Live
         /\ call[c].closed \subseteq rows /\ \A r \in call[c].closed : r.to = Live
         /\ rows' \subseteq Row
         /\ \A r \in rows : r \notin call[c].closed => r \in rows'
         /\ \A r \in call[c].closed : \E s \in rows' :
              s.id = r.id /\ s.from = r.from /\ s.by = r.by /\ s.to = call[c].version
         /\ \A id \in call[c].ids : \E s \in rows' :
              s.id = id /\ s.from = call[c].version /\ s.by = c /\ s.to = Live
         /\ \A s \in rows' :
              \/ s \in rows \ call[c].closed
              \/ \E r \in call[c].closed :
                   s.id = r.id /\ s.from = r.from /\ s.by = r.by /\ s.to = call[c].version
              \/ s.id \in call[c].ids /\ s.from = call[c].version /\ s.by = c /\ s.to = Live
         /\ \A s, u \in rows' : s.id = u.id /\ s.from = u.from /\ s.by = u.by /\ s.to = u.to => s = u
  <1>0. /\ TypeOK /\ rows \subseteq Row /\ call[c] \in Transaction /\ WellFormed(c, call[c])
    BY Own
  <1> DEFINE v == call[c].version
             closed == call[c].closed
             ended == {[r EXCEPT !.to = v] : r \in closed}
             new == {[id |-> i, from |-> v, to |-> Live, by |-> c] : i \in call[c].inserted}
  <1>1. call[c].inserted = call[c].ids /\ call[c].ids \subseteq Ids
    BY <1>0 DEF Commit, WellFormed, Transaction
  <1>2. v \in Versions /\ v \in Nat /\ v # Live
    BY <1>0, MaxVersionAssumption DEF Transaction, Versions, Live
  <1>3. closed \subseteq rows /\ \A r \in closed : r.to = Live
    BY <1>0 DEF WellFormed
  <1>4. rows' = (rows \ closed) \cup ended \cup new
    BY DEF Commit
  <1>5. \A r \in closed : LET s == [r EXCEPT !.to = v] IN
          /\ s \in Row /\ s.id = r.id /\ s.from = r.from /\ s.by = r.by /\ s.to = v
    BY <1>0, <1>2, <1>3 DEF Row
  <1>6. \A i \in call[c].ids : LET s == [id |-> i, from |-> v, to |-> Live, by |-> c] IN
          /\ s \in Row /\ s.id = i /\ s.from = v /\ s.by = c /\ s.to = Live
    BY <1>1, <1>2 DEF Row
  <1>7. \A s \in ended : s \in Row /\ \E r \in closed :
          s.id = r.id /\ s.from = r.from /\ s.by = r.by /\ s.to = v
    <2> SUFFICES ASSUME NEW s \in ended
                 PROVE  s \in Row /\ \E r \in closed :
                          s.id = r.id /\ s.from = r.from /\ s.by = r.by /\ s.to = v
      OBVIOUS
    <2>1. PICK r \in closed : s = [r EXCEPT !.to = v]
      OBVIOUS
    <2> HIDE DEF closed, v, ended
    <2> QED BY <1>5, <2>1
  <1>8. \A s \in new : s \in Row /\ s.id \in call[c].ids /\ s.from = v /\ s.by = c /\ s.to = Live
    BY <1>1, <1>6
  <1>9. \A r \in closed : \E s \in ended :
          s.id = r.id /\ s.from = r.from /\ s.by = r.by /\ s.to = v
    BY <1>5
  <1>10. \A i \in call[c].ids : \E s \in new :
          s.id = i /\ s.from = v /\ s.by = c /\ s.to = Live
    BY <1>1, <1>6
  <1> HIDE DEF ended, new, closed, v
  <1>11. rows' \subseteq Row
    BY <1>0, <1>4, <1>7, <1>8
  <1>12. \A s, u \in Row : s.id = u.id /\ s.from = u.from /\ s.by = u.by /\ s.to = u.to => s = u
    BY DEF Row
  <1>13. \A r \in rows : r \notin closed => r \in rows'
    BY <1>4
  <1>14. \A r \in closed : \E s \in rows' :
              s.id = r.id /\ s.from = r.from /\ s.by = r.by /\ s.to = v
    BY <1>4, <1>9
  <1>15. \A id \in call[c].ids : \E s \in rows' :
              s.id = id /\ s.from = v /\ s.by = c /\ s.to = Live
    BY <1>4, <1>10
  <1>16. \A s \in rows' :
              \/ s \in rows \ closed
              \/ \E r \in closed :
                   s.id = r.id /\ s.from = r.from /\ s.by = r.by /\ s.to = v
              \/ s.id \in call[c].ids /\ s.from = v /\ s.by = c /\ s.to = Live
    BY <1>4, <1>7, <1>8
  <1>17. \A s, u \in rows' : s.id = u.id /\ s.from = u.from /\ s.by = u.by /\ s.to = u.to => s = u
    BY <1>11, <1>12
  <1> QED BY <1>1, <1>2, <1>3, <1>11, <1>13, <1>14, <1>15, <1>16, <1>17 DEF v, closed

\* What that means for the live rows of an id.
LEMMA CommitLive ==
  ASSUME IInv, NEW c \in Calls, Commit(c), NEW id \in Ids
  PROVE  /\ id \notin call[c].ids => LiveOf(id)' = LiveOf(id) \ call[c].closed
         /\ id \in call[c].ids =>
              /\ LiveOf(id) \subseteq call[c].closed
              /\ \A s \in LiveOf(id)' : s.from = call[c].version /\ s.by = c
              /\ LiveOf(id)' # {}
         /\ OneLive(id)'
  <1>0. OwnsInserts(c, call[c]) /\ OneLive(id)
    BY DEF IInv
  <1>1. id \notin call[c].ids => LiveOf(id)' = LiveOf(id) \ call[c].closed
    BY CommitRows DEF LiveOf
  <1>2. ASSUME id \in call[c].ids
        PROVE  /\ LiveOf(id) \subseteq call[c].closed
               /\ \A s \in LiveOf(id)' : s.from = call[c].version /\ s.by = c
               /\ LiveOf(id)' # {}
    <2>1. LiveOf(id) \subseteq call[c].closed
      BY <1>0, <1>2, CommitRows DEF OwnsInserts
    <2>2. \A s \in LiveOf(id)' : s.from = call[c].version /\ s.by = c
      BY <2>1, CommitRows DEF LiveOf
    <2>3. LiveOf(id)' # {}
      BY <1>2, CommitRows DEF LiveOf
    <2> QED BY <2>1, <2>2, <2>3
  <1>3. OneLive(id)'
    <2>1. CASE id \notin call[c].ids
      BY <1>0, <1>1, <2>1 DEF OneLive
    <2>2. CASE id \in call[c].ids
      <3>1. \A s \in LiveOf(id)' : s \in rows' /\ s.id = id /\ s.to = Live
        BY DEF LiveOf
      <3> QED BY <1>2, <2>2, <3>1, CommitRows DEF OneLive
    <2> QED BY <2>1, <2>2
  <1> QED BY <1>1, <1>2, <1>3

\* The committed call is remembered, the others go on.
LEMMA CommitCalls ==
  ASSUME IInv, NEW c \in Calls, Commit(c)
  PROVE  /\ call' \in [Calls -> Transaction]
         /\ call'[c].step = "done" /\ call'[c].ids = call[c].ids
         /\ call'[c].version = call[c].version
         /\ call'[c].found = {} /\ call'[c].locked = {}
         /\ call'[c].closed = {} /\ call'[c].inserted = {}
         /\ \A d \in Calls : d # c => call'[d] = call[d]
  <1>0. TypeOK /\ call[c] \in Transaction
    BY Own
  <1> DEFINE t == [Idle EXCEPT !.step = "done", !.ids = call[c].ids, !.version = call[c].version]
  <1>1. t \in Transaction
    BY <1>0, IdleIsTransaction DEF Transaction, Steps
  <1>2. /\ t.step = "done" /\ t.ids = call[c].ids /\ t.version = call[c].version
        /\ t.found = {} /\ t.locked = {} /\ t.closed = {} /\ t.inserted = {}
    BY DEF Idle
  <1>3. call' = [call EXCEPT ![c] = t]
    BY DEF Commit, Ends
  <1> HIDE DEF t
  <1> QED BY <1>0, <1>1, <1>2, <1>3 DEF TypeOK

\* The history of an id that an upsert adds a version to.
LEMMA CommitChain ==
  ASSUME IInv, NEW c \in Upserts, Commit(c), OnlyUpserted, NEW id \in Ids, call[c].ids = {id}
  PROVE  (Chained(id) /\ LiveIsNewest(id))'
  <1> DEFINE v == call[c].version
  <1>0. c \in Calls /\ WellFormed(c, call[c]) /\ Chained(id) /\ LiveIsNewest(id) /\ TypeOK
    BY DEF Calls, IInv
  <1>1. \A r \in call[c].closed : r.from < v
    BY <1>0 DEF WellFormed
  <1>2. v \in Nat /\ \A r \in rows : r.from \in Nat
    BY <1>0, CommitRows, LiveRowsAreRows
  <1>3. \A l \in LiveOf(id) : l \in call[c].closed /\ l.from < v
    BY <1>0, <1>1, CommitLive
  <1>4. \A r \in VersionsOf(id) : r.from < v
    <2> SUFFICES ASSUME NEW r \in VersionsOf(id) PROVE r.from < v
      OBVIOUS
    <2>1. PICK l \in LiveOf(id) : r.from <= l.from
      BY <1>0 DEF Chained
    <2>2. l.from < v /\ r \in rows /\ l \in rows
      BY <1>3 DEF VersionsOf, LiveOf
    <2> QED BY <1>2, <2>1, <2>2
  <1>5. \A r \in call[c].closed : r.id = id
    BY <1>0 DEF WellFormed, Commit, Under
  \* A version is one that was there, with its end, or the new one.
  <1>6. \A s \in VersionsOf(id)' :
          \/ s \in VersionsOf(id) \ call[c].closed
          \/ \E r \in call[c].closed \cap VersionsOf(id) :
               s.from = r.from /\ s.by = r.by /\ s.to = v
          \/ s.from = v /\ s.by = c /\ s.to = Live
    <2>1. call[c].closed \subseteq VersionsOf(id)
      BY <1>0, <1>5, CommitRows DEF VersionsOf
    <2> QED BY <1>0, <2>1, CommitRows DEF VersionsOf
  <1>7. \A r \in VersionsOf(id) : \E s \in VersionsOf(id)' :
          s.from = r.from /\ s.by = r.by
    BY <1>0, CommitRows DEF VersionsOf
  <1>8. PICK l \in LiveOf(id)' : l \in VersionsOf(id)' /\ l.from = v /\ l.by = c
    BY <1>0, CommitLive DEF LiveOf, VersionsOf
  <1>9. Chained(id)'
    <2>1. \A s \in VersionsOf(id)' : s.from <= v
      BY <1>2, <1>4, <1>6 DEF VersionsOf
    <2>2. \E k \in LiveOf(id)' : \A s \in VersionsOf(id)' : s.from <= k.from
      BY <1>8, <2>1
    <2>3. ASSUME NEW s \in VersionsOf(id)', NEW u \in VersionsOf(id)', s.from = u.from
          PROVE  s = u
      <3>1. s \in rows' /\ u \in rows' /\ s.id = u.id
        BY DEF VersionsOf
      <3>2. CASE s.from = v
        <4>0. \A r \in VersionsOf(id) : r.from # v
          BY <1>2, <1>4 DEF VersionsOf
        <4>1. s.by = c /\ s.to = Live /\ u.by = c /\ u.to = Live
          BY <1>6, <2>3, <3>2, <4>0
        <4> QED BY <1>0, <2>3, <3>1, <4>1, CommitRows
      <3>3. CASE s.from # v
        <4>1. PICK r \in VersionsOf(id) :
                /\ s.from = r.from
                /\ \/ s = r /\ r \notin call[c].closed
                   \/ r \in call[c].closed /\ s.by = r.by /\ s.to = v
          BY <1>6, <3>3
        <4>2. PICK q \in VersionsOf(id) :
                /\ u.from = q.from
                /\ \/ u = q /\ q \notin call[c].closed
                   \/ q \in call[c].closed /\ u.by = q.by /\ u.to = v
          BY <1>6, <2>3, <3>3
        <4>3. r = q
          BY <1>0, <2>3, <4>1, <4>2 DEF Chained
        <4> QED BY <1>0, <2>3, <3>1, <4>1, <4>2, <4>3, CommitRows
      <3> QED BY <3>2, <3>3
    <2>4. ASSUME NEW s \in VersionsOf(id)', s.to # Live
          PROVE  s.to > s.from /\ \E u \in VersionsOf(id)' : u.from = s.to
      <3>1. CASE s \in VersionsOf(id)
        <4>1. s.to > s.from /\ \E u \in VersionsOf(id) : u.from = s.to
          BY <1>0, <2>4, <3>1 DEF Chained
        <4> QED BY <1>7, <4>1
      <3>2. CASE s \notin VersionsOf(id)
        <4>1. PICK r \in call[c].closed \cap VersionsOf(id) : s.from = r.from /\ s.to = v
          BY <1>6, <2>4, <3>2
        <4>2. r.from < v /\ r.from \in Nat
          BY <1>1, <1>2, <4>1 DEF VersionsOf
        <4> QED BY <1>2, <1>8, <4>1, <4>2
      <3> QED BY <3>1, <3>2
    <2>5. \A r, s \in VersionsOf(id)' : r.from = s.from => r = s
      BY <2>3
    <2>6. \A r \in VersionsOf(id)' : r.to # Live =>
             r.to > r.from /\ \E s \in VersionsOf(id)' : s.from = r.to
      BY <2>4
    <2> QED BY <2>2, <2>5, <2>6 DEF Chained
  <1>10. LiveIsNewest(id)'
    <2>1. \A s \in LiveOf(id)' : s.from = v
      BY <1>0, CommitLive
    <2>2. v \in Accepted(id)'
      BY <1>0, CommitCalls DEF Accepted
    <2>3. \A w \in Accepted(id) : w \in Nat /\ w < v
      <3> SUFFICES ASSUME NEW w \in Accepted(id) PROVE w \in Nat /\ w < v
        OBVIOUS
      <3>1. \E r \in VersionsOf(id) : r.from = w
        <4>1. CASE \E d \in Upserts : call[d].step = "done" /\ id \in call[d].ids /\ w = call[d].version
          BY <4>1 DEF IInv, LeftItsRows, VersionsOf, Calls
        <4>2. CASE \E r \in rows : r.id = id /\ r.from = w
          BY <4>2 DEF VersionsOf
        <4> QED BY <4>1, <4>2 DEF Accepted
      <3> QED BY <1>2, <1>4, <3>1 DEF VersionsOf
    <2>4. \A w \in Accepted(id)' : w = v \/ w \in Accepted(id)
      <3> SUFFICES ASSUME NEW w \in Accepted(id)' PROVE w = v \/ w \in Accepted(id)
        OBVIOUS
      <3>1. CASE \E d \in Upserts : call'[d].step = "done" /\ id \in call'[d].ids /\ w = call'[d].version
        <4>1. PICK d \in Upserts : call'[d].step = "done" /\ id \in call'[d].ids /\ w = call'[d].version
          BY <3>1
        <4>2. d = c => w = v
          BY <1>0, <4>1, CommitCalls
        <4>3. d # c => call'[d] = call[d]
          BY <1>0, CommitCalls DEF Calls
        <4> QED BY <4>1, <4>2, <4>3 DEF Accepted
      <3>2. CASE \E s \in rows' : s.id = id /\ s.by = Seed /\ w = s.from
        <4>1. PICK s \in rows' : s.id = id /\ s.by = Seed /\ w = s.from
          BY <3>2
        <4>2. \E r \in VersionsOf(id) : r.by = Seed /\ r.from = w
          BY <1>0, <1>6, <4>1, CallsAssumption DEF VersionsOf
        <4> QED BY <4>2 DEF Accepted, VersionsOf
      <3> QED BY <3>1, <3>2 DEF Accepted
    <2> QED BY <1>2, <2>1, <2>2, <2>3, <2>4 DEF LiveIsNewest
  <1> QED BY <1>9, <1>10

\* The history of the other ids is as it was.
LEMMA CommitElsewhere ==
  ASSUME IInv, NEW c \in Upserts, Commit(c), OnlyUpserted, NEW id \in Ids, id \notin call[c].ids
  PROVE  (Chained(id) /\ LiveIsNewest(id))'
  <1>0. c \in Calls /\ WellFormed(c, call[c]) /\ Chained(id) /\ LiveIsNewest(id)
    BY DEF Calls, IInv
  <1>1. \A r \in call[c].closed : r.id # id
    BY <1>0 DEF WellFormed, Commit, Under
  <1>2. VersionsOf(id)' = VersionsOf(id)
    BY <1>0, <1>1, CommitRows DEF VersionsOf
  <1>3. LiveOf(id)' = LiveOf(id)
    BY <1>0, <1>1, CommitLive DEF LiveOf
  <1>4. Accepted(id)' = Accepted(id)
    <2>1. \A d \in Upserts : (call'[d].step = "done" /\ id \in call'[d].ids)
                               <=> (call[d].step = "done" /\ id \in call[d].ids)
      BY <1>0, CommitCalls DEF Calls, Commit
    <2>2. \A d \in Upserts : call[d].step = "done" => call'[d] = call[d]
      BY <1>0, CommitCalls DEF Calls, Commit
    <2>3. {s \in rows' : s.id = id /\ s.by = Seed} = {s \in rows : s.id = id /\ s.by = Seed}
      BY <1>2 DEF VersionsOf
    <2>4. {call'[d].version : d \in {e \in Upserts : call'[e].step = "done" /\ id \in call'[e].ids}}
            = {call[d].version : d \in {e \in Upserts : call[e].step = "done" /\ id \in call[e].ids}}
      BY <2>1, <2>2
    <2> QED BY <2>3, <2>4 DEF Accepted
  <1> QED BY <1>0, <1>2, <1>3, <1>4 DEF Chained, LiveIsNewest

LEMMA CommitStep ==
  ASSUME IInv, NEW c \in Calls, Commit(c)
  PROVE  IInv'
  <1>0. /\ TypeOK /\ call[c] \in Transaction /\ WellFormed(c, call[c])
        /\ LocksAlone(c, call[c]) /\ call[c].step = "commit"
    BY Own DEF Commit
  <1>1. ASSUME NEW d \in Calls PROVE WellFormed(d, call[d])'
    <2>1. CASE d = c
      BY <2>1, CommitCalls DEF WellFormed, Under
    <2>2. CASE d # c
      <3>1. call'[d] = call[d] /\ WellFormed(d, call[d])
        BY <2>2, CommitCalls DEF IInv
      <3>2. call[d].locked \cap call[c].closed = {}
        BY <1>0, <2>2 DEF LocksAlone, WellFormed
      <3>3. call[d].locked \subseteq rows'
        BY <3>1, <3>2, CommitRows DEF WellFormed
      <3> QED BY <3>1, <3>3 DEF WellFormed
    <2> QED BY <2>1, <2>2
  <1>2. ASSUME NEW d \in Calls PROVE OwnsInserts(d, call[d])'
    <2>1. CASE d = c
      BY <2>1, CommitCalls DEF OwnsInserts
    <2>2. CASE d # c
      <3>1. call'[d] = call[d] /\ OwnsInserts(d, call[d]) /\ call[d].inserted \subseteq Ids
        BY <1>0, <2>2, CommitCalls DEF IInv, TypeOK, Transaction
      <3>2. \A id \in call[d].inserted : id \notin call[c].ids
        BY <2>2, <3>1, CommitRows DEF OwnsInserts
      <3>3. \A id \in call[d].inserted : LiveOf(id)' \subseteq LiveOf(id)
        BY <3>1, <3>2, CommitLive
      <3>4. \A e \in Calls : call'[e].inserted \subseteq call[e].inserted
        BY CommitCalls
      <3> QED BY <3>1, <3>3, <3>4 DEF OwnsInserts
    <2> QED BY <2>1, <2>2
  <1>3. \A d \in Calls : LocksAlone(d, call[d])'
    BY CommitCalls DEF IInv, LocksAlone
  <1>4. ASSUME NEW d \in Calls PROVE LeftItsRows(d)'
    <2>1. CASE d = c
      BY <2>1, CommitCalls, CommitRows DEF LeftItsRows
    <2>2. CASE d # c
      <3>1. call'[d] = call[d] /\ LeftItsRows(d)
        BY <2>2, CommitCalls DEF IInv
      <3>2. \A r \in rows : \E s \in rows' : s.id = r.id /\ s.from = r.from /\ s.by = r.by
        BY CommitRows
      <3> QED BY <3>1, <3>2 DEF LeftItsRows
    <2> QED BY <2>1, <2>2
  <1>5. TypeOK'
    <2>1. \A d \in Calls : call'[d].closed \subseteq call'[d].locked
      BY <1>1 DEF WellFormed
    <2>2. \A d, e \in Calls : d # e => call'[d].locked \cap call'[e].locked = {}
      BY <1>3 DEF LocksAlone
    <2> QED BY <2>1, <2>2, CommitRows, CommitCalls DEF TypeOK
  <1>6. \A id \in Ids : OneLive(id)'
    BY CommitLive
  <1>7. ASSUME OnlyUpserted', NEW id \in Ids PROVE (Chained(id) /\ LiveIsNewest(id))'
    <2>1. c \in Upserts
      BY <1>7, CommitCalls DEF OnlyUpserted, Calls
    <2>2. OnlyUpserted
      BY <1>0, <1>7, CommitCalls DEF OnlyUpserted, Calls
    <2>3. PICK only \in Ids : call[c].ids = {only}
      BY <1>0, <2>1 DEF WellFormed, Under
    <2> QED BY <2>1, <2>2, <2>3, CommitChain, CommitElsewhere
  <1> QED BY <1>1, <1>2, <1>3, <1>4, <1>5, <1>6, <1>7 DEF IInv

-----------------------------------------------------------------------------
(* The theorems.                                                           *)

\* The invariant is inductive.
LEMMA NextIInv == IInv /\ [Next]_vars => IInv'
  <1> SUFFICES ASSUME IInv, [Next]_vars PROVE IInv'
    OBVIOUS
  <1>1. ASSUME NEW c \in Calls, Progress(c) PROVE IInv'
    BY <1>1, LockRowStep, CloseLiveRowStep, CheckAllLiveStep, CloseAllLiveStep,
       InsertLiveStep, CommitStep DEF Progress
  <1>2. CASE UNCHANGED vars
    <2>1. /\ TypeOK' /\ \A id \in Ids : OneLive(id)'
          /\ \A c \in Calls : WellFormed(c, call[c])' /\ LocksAlone(c, call[c])'
                              /\ LeftItsRows(c)'
      BY <1>2 DEF IInv, vars, TypeOK, OneLive, LiveOf, WellFormed, LocksAlone, LeftItsRows
    <2>2. \A c \in Calls : OwnsInserts(c, call[c])'
      BY <1>2 DEF IInv, vars, OwnsInserts, LiveOf
    <2>3. OnlyUpserted' => \A id \in Ids : (Chained(id) /\ LiveIsNewest(id))'
      BY <1>2 DEF IInv, vars, OnlyUpserted, Chained, LiveIsNewest, VersionsOf, LiveOf, Accepted
    <2> QED BY <2>1, <2>2, <2>3 DEF IInv
  <1>3. ASSUME NEW c \in Calls, Fail(c) PROVE IInv'
    BY <1>3, FailStep
  <1>4. ASSUME NEW c \in Upserts, NEW id \in about[c], NEW v \in Versions, StartUpsert(c, id, v)
        PROVE  IInv'
    <2>1. id \in Ids
      BY AboutAssumption DEF Calls
    <2> QED BY <1>4, <2>1, StartUpsertStep
  <1>5. ASSUME NEW c \in Replaces, NEW ids \in SUBSET about[c], NEW v \in Versions,
               StartReplace(c, ids, v)
        PROVE  IInv'
    <2>1. about[c] \in SUBSET Ids
      BY AboutAssumption DEF Calls
    <2>2. ids \in SUBSET Ids
      BY <2>1
    <2> QED BY <1>5, <2>2, StartReplaceStep
  <1> QED BY <1>1, <1>2, <1>3, <1>4, <1>5 DEF Next

\* The invariant holds throughout.
THEOREM Invariance == Spec => []IInv
  <1> QED BY InitIInv, NextIInv, PTL DEF Spec

\* Every variable keeps its type, a call closes only what it has locked, and
\* a row is locked by one call at a time.
THEOREM TypeCorrect == Spec => []TypeOK
  <1>1. IInv => TypeOK
    BY DEF IInv
  <1> QED BY <1>1, Invariance, PTL

\* A set whose members are all equal has one member, or none.
LEMMA AtMostOne ==
  ASSUME NEW S, \A r, s \in S : r = s
  PROVE  Cardinality(S) <= 1 /\ (S # {} => Cardinality(S) = 1)
  <1>1. ASSUME S = {} PROVE Cardinality(S) = 0
    BY <1>1, FS_EmptySet
  <1>2. ASSUME S # {} PROVE Cardinality(S) = 1
    <2>1. PICK r \in S : S = {r}
      BY <1>2
    <2> QED BY <2>1, FS_Singleton
  <1> QED BY <1>1, <1>2

\* However the statements of upserts interleave, the versions of every id
\* form a chain, for any number of ids, calls and versions.
THEOREM HistoryChains == Spec => []HistoryIsAChain
  <1>1. IInv => HistoryIsAChain
    <2> SUFFICES ASSUME IInv, OnlyUpserted, NEW id \in Ids PROVE IsChain(id)
      BY DEF HistoryIsAChain
    <2>1. Chained(id) /\ OneLive(id)
      BY DEF IInv
    <2>2. VersionsOf(id) # {} => Cardinality(LiveOf(id)) = 1
      BY <2>1, AtMostOne DEF Chained, OneLive
    <2> QED BY <2>1, <2>2 DEF IsChain, Chained, VersionsOf
  <1> QED BY <1>1, Invariance, PTL

\* The live version is the newest accepted, whichever call committed last.
THEOREM NewestIsLive == Spec => []NewestAcceptedIsLive
  <1>1. IInv => NewestAcceptedIsLive
    BY DEF IInv, NewestAcceptedIsLive, LiveIsNewest
  <1> QED BY <1>1, Invariance, PTL

\* No id has two live rows, and no committed row is lost, over any mixture of
\* upserts, replacements and failures.
THEOREM RowsStay == Spec => []CommittedRowsStay
  <1>1. IInv => CommittedRowsStay
    <2> SUFFICES ASSUME IInv PROVE CommittedRowsStay
      OBVIOUS
    <2>1. \A id \in Ids : Cardinality(LiveOf(id)) <= 1
      BY AtMostOne DEF IInv, OneLive
    <2> QED BY <2>1 DEF IInv, LeftItsRows, CommittedRowsStay
  <1> QED BY <1>1, Invariance, PTL

-----------------------------------------------------------------------------
(* Who waits for whom.                                                     *)

\* An upsert has found one row or none, and locks it once.  A call that
\* inserts has something left to insert; an upsert, all of it.
FewRows(c, t) ==
  /\ c \in Upserts => /\ \A r, s \in t.found \cup t.locked : r = s
                      /\ t.found \cap t.locked = {}
  /\ t.step = "insert" => t.inserted \subseteq t.ids /\ t.inserted # t.ids
  /\ c \in Upserts /\ t.step = "insert" => t.inserted = {}

WaitInv == IInv /\ \A c \in Calls : FewRows(c, call[c])

\* A step is about one call.
LEMMA OneCallSteps ==
  ASSUME TypeOK, NEW c \in Calls, NEW t, call' = [call EXCEPT ![c] = t],
         \A d \in Calls : FewRows(d, call[d]), FewRows(c, t)
  PROVE  \A d \in Calls : FewRows(d, call[d])'
  <1>1. call'[c] = t /\ \A d \in Calls : d # c => call'[d] = call[d]
    BY DEF TypeOK
  <1> QED BY <1>1 DEF FewRows

\* A call that ends holds nothing.
LEMMA EndedIsFew ==
  ASSUME NEW c \in Calls, NEW how \in {"done", "conflict", "failed"}
  PROVE  FewRows(c, Ends(c, how))
  <1> DEFINE t == Ends(c, how)
  <1>1. t.step = how /\ t.found = {} /\ t.locked = {}
    BY DEF Ends, Idle
  <1> HIDE DEF t
  <1>2. FewRows(c, t)
    BY <1>1 DEF FewRows
  <1> QED BY <1>2 DEF t

LEMMA ProgressIsFew ==
  ASSUME WaitInv, NEW c \in Calls, Progress(c)
  PROVE  \A d \in Calls : FewRows(d, call[d])'
  <1> DEFINE old == call[c]
  <1>0. /\ TypeOK /\ old \in Transaction /\ WellFormed(c, old) /\ FewRows(c, old)
        /\ \A d \in Calls : FewRows(d, call[d])
    BY Own DEF WaitInv
  <1>1. CASE LockRow(c)
    <2>1. PICK r \in old.found :
            call' = [call EXCEPT
              ![c].found = @ \ {r},
              ![c].locked = IF r \in rows THEN @ \cup {r} ELSE @]
      BY <1>1 DEF LockRow
    <2> DEFINE now == IF r \in rows THEN old.locked \cup {r} ELSE old.locked
               t == [old EXCEPT !.found = @ \ {r}, !.locked = now]
    <2>2. /\ t.step = old.step /\ t.found = old.found \ {r} /\ t.locked = now
          /\ t.inserted = old.inserted /\ t.ids = old.ids
      BY <1>0 DEF Transaction
    <2>3. call' = [call EXCEPT ![c] = t]
      BY <2>1
    <2>4. now \subseteq old.locked \cup {r}
      OBVIOUS
    <2> HIDE DEF t, now
    <2>5. FewRows(c, t)
      BY <1>0, <2>2, <2>4 DEF FewRows
    <2> QED BY <1>0, <2>3, <2>5, OneCallSteps
  <1>2. CASE CloseLiveRow(c)
    <2> DEFINE t == [old EXCEPT !.step = "insert", !.closed = old.locked]
    <2>1. call' = [call EXCEPT ![c] = Ends(c, "conflict")] \/ call' = [call EXCEPT ![c] = t]
      BY <1>2 DEF CloseLiveRow
    <2>2. /\ t.step = "insert" /\ t.found = old.found /\ t.locked = old.locked
          /\ t.inserted = old.inserted /\ t.ids = old.ids
      BY <1>0 DEF Transaction
    <2>3. old.inserted = {} /\ \E id \in Ids : old.ids = {id}
      BY <1>0, <1>2 DEF CloseLiveRow, WellFormed, Under
    <2> HIDE DEF t
    <2>4. FewRows(c, t)
      BY <1>0, <2>2, <2>3 DEF FewRows
    <2> QED BY <1>0, <2>1, <2>4, EndedIsFew, OneCallSteps
  <1>3. CASE CheckAllLive(c) \/ CloseAllLive(c)
    <2>1. c \notin Upserts /\ old.step \in {"lock", "close"}
      BY <1>3, CallsAssumption DEF CheckAllLive, CloseAllLive
    <2>2. old.inserted = {}
      BY <1>0, <2>1 DEF WellFormed
    <2>3. ASSUME NEW t, call' = [call EXCEPT ![c] = t],
                 t.step = "insert" => t.inserted = {} /\ t.ids # {}
          PROVE  \A d \in Calls : FewRows(d, call[d])'
      <3>1. FewRows(c, t)
        BY <2>1, <2>3 DEF FewRows
      <3> QED BY <1>0, <2>3, <3>1, OneCallSteps
    <2>4. ASSUME NEW how \in {"conflict", "failed"}, call' = [call EXCEPT ![c] = Ends(c, how)]
          PROVE  \A d \in Calls : FewRows(d, call[d])'
      BY <1>0, <2>4, EndedIsFew, OneCallSteps
    <2>5. CASE CheckAllLive(c)
      <3> DEFINE t == Selects(c, "close", old.table, LiveRows(old.table))
      <3>1. call' = [call EXCEPT ![c] = Ends(c, "conflict")] \/ call' = [call EXCEPT ![c] = t]
        BY <2>5 DEF CheckAllLive
      <3>2. t.step = "close"
        BY <1>0 DEF Selects, Transaction
      <3> HIDE DEF t
      <3> QED BY <2>3, <2>4, <3>1, <3>2
    <2>6. CASE CloseAllLive(c)
      <3> DEFINE here == {r \in old.locked : TableOf[r.id] = old.table}
                 last == IF old.ids = {} THEN "commit" ELSE "insert"
                 next == IF old.table + 1 \in Tables
                         THEN Selects(c, "lock", old.table + 1, LiveRows(old.table + 1))
                         ELSE [old EXCEPT !.step = last]
                 t == [next EXCEPT !.closed = @ \cup here]
      <3>1. call' = [call EXCEPT ![c] = Ends(c, "failed")] \/ call' = [call EXCEPT ![c] = t]
        BY <2>6 DEF CloseAllLive
      <3>2. /\ next.step = IF old.table + 1 \in Tables THEN "lock" ELSE last
            /\ next.inserted = old.inserted /\ next.ids = old.ids /\ next \in Transaction
        <4>1. CASE old.table + 1 \in Tables
          <5>1. LiveRows(old.table + 1) \subseteq Row
            BY <1>0, LiveRowsAreRows DEF TypeOK
          <5>2. next = [old EXCEPT !.step = "lock", !.table = old.table + 1,
                                   !.found = LiveRows(old.table + 1)]
            BY <4>1 DEF Selects
          <5> QED BY <1>0, <4>1, <5>1, <5>2 DEF Transaction, Steps
        <4>2. CASE old.table + 1 \notin Tables
          <5>1. next = [old EXCEPT !.step = last] /\ last \in Steps
            BY <4>2 DEF Steps
          <5> HIDE DEF last, next
          <5> QED BY <1>0, <4>2, <5>1 DEF Transaction
        <4> QED BY <4>1, <4>2
      <3> HIDE DEF next, here
      <3>3. t.step = next.step /\ t.inserted = next.inserted /\ t.ids = next.ids
        BY <3>2 DEF Transaction
      <3>4. t.step = "insert" => t.inserted = {} /\ t.ids # {}
        BY <2>2, <3>2, <3>3
      <3> HIDE DEF t
      <3> QED BY <2>3, <2>4, <3>1, <3>4
    <2> QED BY <1>3, <2>5, <2>6
  <1>4. CASE InsertLive(c)
    <2>1. PICK id \in Following(c) :
            call' = [call EXCEPT ![c] =
              IF Occupied(c, id) THEN Ends(c, "conflict")
              ELSE [old EXCEPT !.inserted = @ \cup {id},
                               !.step = IF old.ids = old.inserted \cup {id}
                                        THEN "commit" ELSE @]]
      BY <1>4 DEF InsertLive
    <2>2. id \in old.ids /\ old.step = "insert"
      BY <1>4 DEF Following, InsertLive
    <2>3. CASE old.ids = old.inserted \cup {id}
      <3> DEFINE t == [old EXCEPT !.inserted = @ \cup {id}, !.step = "commit"]
      <3>1. call' = [call EXCEPT ![c] = Ends(c, "conflict")] \/ call' = [call EXCEPT ![c] = t]
        BY <2>1, <2>3
      <3>2. t.step = "commit" /\ t.found = old.found /\ t.locked = old.locked
        BY <1>0 DEF Transaction
      <3> HIDE DEF t
      <3>3. FewRows(c, t)
        BY <1>0, <3>2 DEF FewRows
      <3> QED BY <1>0, <3>1, <3>3, EndedIsFew, OneCallSteps
    <2>4. CASE old.ids # old.inserted \cup {id}
      <3> DEFINE t == [old EXCEPT !.inserted = @ \cup {id}]
      <3>1. call' = [call EXCEPT ![c] = Ends(c, "conflict")]
            \/ call' = [call EXCEPT ![c] = [old EXCEPT !.inserted = @ \cup {id}, !.step = @]]
        BY <2>1, <2>4
      <3>2. t = [old EXCEPT !.inserted = @ \cup {id}, !.step = @]
        BY <1>0 DEF Transaction
      <3>3. /\ t.step = old.step /\ t.found = old.found /\ t.locked = old.locked
            /\ t.inserted = old.inserted \cup {id} /\ t.ids = old.ids
        BY <1>0 DEF Transaction
      <3>4. c \notin Upserts
        BY <1>0, <2>2, <2>4 DEF FewRows, WellFormed, Under
      <3> HIDE DEF t
      <3>5. FewRows(c, t)
        BY <1>0, <2>2, <2>4, <3>3, <3>4 DEF FewRows
      <3>6. call' = [call EXCEPT ![c] = Ends(c, "conflict")] \/ call' = [call EXCEPT ![c] = t]
        BY <3>1, <3>2
      <3> QED BY <1>0, <3>5, <3>6, EndedIsFew, OneCallSteps
    <2> QED BY <2>3, <2>4
  <1>5. CASE Commit(c)
    BY <1>0, <1>5, EndedIsFew, OneCallSteps DEF Commit
  <1> QED BY <1>1, <1>2, <1>3, <1>4, <1>5 DEF Progress

LEMMA WaitStep == WaitInv /\ [Next]_vars => WaitInv'
  <1> SUFFICES ASSUME WaitInv, [Next]_vars PROVE \A d \in Calls : FewRows(d, call[d])'
    BY NextIInv DEF WaitInv
  <1>0. IInv /\ TypeOK /\ \A d \in Calls : FewRows(d, call[d])
    BY DEF WaitInv, IInv
  <1>1. ASSUME NEW c \in Calls, Progress(c) PROVE \A d \in Calls : FewRows(d, call[d])'
    BY <1>1, ProgressIsFew
  <1>2. CASE UNCHANGED vars
    BY <1>0, <1>2 DEF vars, FewRows
  <1>3. ASSUME NEW c \in Calls, Fail(c) PROVE \A d \in Calls : FewRows(d, call[d])'
    BY <1>0, <1>3, EndedIsFew, OneCallSteps DEF Fail
  <1>4. ASSUME NEW c \in Upserts, NEW id \in about[c], NEW v \in Versions, StartUpsert(c, id, v)
        PROVE  \A d \in Calls : FewRows(d, call[d])'
    <2> DEFINE t == [Idle EXCEPT !.step = "lock", !.ids = {id}, !.version = v,
                                 !.table = TableOf[id], !.found = LiveOf(id)]
    <2>1. c \in Calls /\ id \in Ids
      BY AboutAssumption DEF Calls
    <2>2. t.step = "lock" /\ t.found = LiveOf(id) /\ t.locked = {}
      BY DEF Idle
    <2>3. call' = [call EXCEPT ![c] = t]
      BY <1>4 DEF StartUpsert
    <2> HIDE DEF t
    <2>4. FewRows(c, t)
      BY <1>0, <2>1, <2>2 DEF FewRows, IInv, OneLive
    <2> QED BY <1>0, <2>1, <2>3, <2>4, OneCallSteps
  <1>5. ASSUME NEW c \in Replaces, NEW ids \in SUBSET about[c], NEW v \in Versions,
               StartReplace(c, ids, v)
        PROVE  \A d \in Calls : FewRows(d, call[d])'
    <2> DEFINE t == [Idle EXCEPT !.step = "lock", !.ids = ids, !.version = v,
                                 !.found = LiveRows(1)]
    <2>1. c \in Calls /\ c \notin Upserts
      BY CallsAssumption DEF Calls
    <2>2. t.step = "lock" /\ call' = [call EXCEPT ![c] = t]
      BY <1>5 DEF StartReplace, Idle
    <2> HIDE DEF t
    <2>3. FewRows(c, t)
      BY <2>1, <2>2 DEF FewRows
    <2> QED BY <1>0, <2>1, <2>2, <2>3, OneCallSteps
  <1> QED BY <1>1, <1>2, <1>3, <1>4, <1>5 DEF Next

LEMMA InitWaitInv == Init => WaitInv
  <1> SUFFICES ASSUME Init, NEW c \in Calls PROVE FewRows(c, call[c])
    BY InitIInv DEF WaitInv
  <1>1. call[c] = Idle
    BY DEF Init
  <1> QED BY <1>1 DEF Idle, FewRows

\* An upsert that waits has locked nothing and inserted nothing: nobody waits
\* for it.
LEMMA WaitingUpsertHoldsNothing ==
  ASSUME WaitInv, NEW u \in Upserts, NEW d, WaitsFor(u, d), NEW c \in Calls
  PROVE  ~WaitsFor(c, u)
  <1>0. /\ u \in Calls /\ d \in Calls /\ d # u
        /\ IInv /\ WellFormed(u, call[u]) /\ FewRows(u, call[u])
    BY DEF Calls, WaitInv, IInv, WaitsFor, Others
  <1>1. call[u].locked = {} /\ call[u].inserted = {}
    <2>1. CASE call[u].step \in {"lock", "close"}
      <3>1. call[u].found # {}
        BY <2>1 DEF WaitsFor
      <3> QED BY <1>0, <2>1, <3>1 DEF WellFormed, FewRows
    <2>2. CASE call[u].step = "insert"
      <3>1. PICK id \in Following(u) :
              id \in call[d].inserted \/ LiveOf(id) \cap call[d].closed # {}
        BY <2>2 DEF WaitsFor
      <3>2. call[u].ids = {id} /\ \A r \in call[u].locked : r.id = id
        BY <1>0, <2>2, <3>1 DEF WellFormed, Under, Following
      <3>3. call[u].locked \subseteq LiveOf(id) /\ id \in Ids
        BY <1>0, <2>2, <3>2 DEF WellFormed, LiveOf, Under
      <3>4. call[d].closed \subseteq call[d].locked
            /\ call[u].locked \cap call[d].locked = {}
        BY <1>0 DEF IInv, WellFormed, LocksAlone
      <3>5. CASE id \in call[d].inserted
        <4>1. LiveOf(id) \subseteq call[d].closed
          BY <1>0, <3>5 DEF IInv, OwnsInserts
        <4> QED BY <1>0, <2>2, <3>3, <3>4, <4>1 DEF FewRows
      <3>6. CASE LiveOf(id) \cap call[d].closed # {}
        <4>1. \A r, s \in LiveOf(id) : r = s
          BY <1>0, <3>3 DEF IInv, OneLive
        <4> QED BY <1>0, <2>2, <3>3, <3>4, <3>6, <4>1 DEF FewRows
      <3> QED BY <3>1, <3>5, <3>6
    <2> QED BY <2>1, <2>2 DEF WaitsFor
  <1>2. call[u].closed = {}
    BY <1>0, <1>1 DEF WellFormed
  <1> QED BY <1>1, <1>2 DEF WaitsFor

\* Calls that wait for each other, and for nobody who does not.
Ring(calls) == calls # {} /\ \A c \in calls : \E d \in calls : WaitsFor(c, d)

\* Whenever calls wait for each other in a circle, replacements among them do
\* without the upserts: the only deadlocks are those the server must end for
\* replace_live_projection, and no upsert has a part in one.
NoUpsertInARing ==
  \A calls \in SUBSET Calls : Ring(calls) => \E c \in calls \cap Replaces : Deadlocked(c)

LEMMA RingHasReplacements == WaitInv => NoUpsertInARing
  <1> SUFFICES ASSUME WaitInv, NEW calls \in SUBSET Calls, Ring(calls)
               PROVE  \E c \in calls \cap Replaces : Deadlocked(c)
    BY DEF NoUpsertInARing
  <1> DEFINE waited == {d \in calls : \E c \in calls : WaitsFor(c, d)}
  <1>1. waited \subseteq Replaces
    <2> SUFFICES ASSUME NEW d \in waited, d \in Upserts PROVE FALSE
      BY DEF Calls
    <2>1. PICK e \in calls : WaitsFor(d, e)
      BY DEF Ring
    <2>2. PICK c \in calls : WaitsFor(c, d)
      OBVIOUS
    <2> QED BY <2>1, <2>2, WaitingUpsertHoldsNothing
  <1>2. \A d \in waited : \E e \in waited : WaitsFor(d, e)
    BY DEF Ring
  <1>3. waited # {}
    BY DEF Ring
  <1>4. waited \in SUBSET Replaces /\ waited \subseteq calls
    BY <1>1
  <1> HIDE DEF waited
  <1>5. \A d \in waited : Deadlocked(d)
    BY <1>2, <1>4 DEF Deadlocked
  <1> QED BY <1>3, <1>4, <1>5

\* For any ids and any number of calls, a circle of waiting calls has a
\* circle of replacements in it.
THEOREM OnlyReplacementsDeadlock == Spec => []NoUpsertInARing
  BY InitWaitInv, WaitStep, RingHasReplacements, PTL DEF Spec

\* The guards of Progress: a statement has nothing left to lock or a row that
\* is free, an insert that waits for nobody, or only the commit left.
CanMove(c) ==
  \/ /\ call[c].step \in {"lock", "close"}
     /\ call[c].found = {} \/ \E r \in call[c].found : Free(c, r)
  \/ /\ call[c].step = "insert"
     /\ \E id \in Following(c) : ~Contended(c, id)
  \/ call[c].step = "commit"

\* As long as a transaction is open, one can take a step, or replacements
\* have deadlocked and the server ends one of them.
SomebodyMoves ==
  (\E c \in Calls : Active(c)) =>
    \E c \in Calls : Active(c) /\ (CanMove(c) \/ Deadlocked(c))

\* Of what is left to insert, something comes first.
LEMMA SomethingFollows ==
  ASSUME WaitInv, NEW c \in Calls, call[c].step = "insert"
  PROVE  Following(c) # {}
  <1> DEFINE rest == call[c].ids \ call[c].inserted
  <1>0. call[c] \in Transaction /\ FewRows(c, call[c])
    BY Own DEF WaitInv
  <1>1. rest # {} /\ rest \subseteq Ids
    <2>1. call[c].ids \subseteq Ids
      BY <1>0 DEF Transaction
    <2>2. call[c].inserted \subseteq call[c].ids /\ call[c].inserted # call[c].ids
      BY <1>0 DEF FewRows
    <2> QED BY <2>1, <2>2
  <1>2. \A id \in rest : TableOf[id] \in 1 .. 3
    BY <1>1, TableOfAssumption DEF Tables
  <1> HIDE DEF rest
  <1>3. CASE \E id \in rest : TableOf[id] = 1
    BY <1>2, <1>3 DEF Following, rest
  <1>4. CASE (\A id \in rest : TableOf[id] # 1) /\ \E id \in rest : TableOf[id] = 2
    BY <1>2, <1>4 DEF Following, rest
  <1>5. CASE \A id \in rest : TableOf[id] # 1 /\ TableOf[id] # 2
    <2>1. \A id \in rest : TableOf[id] = 3
      BY <1>2, <1>5
    <2> QED BY <1>1, <2>1 DEF Following, rest
  <1> QED BY <1>3, <1>4, <1>5

\* One that cannot move waits for another.
LEMMA StuckWaits ==
  ASSUME WaitInv, NEW c \in Calls, Active(c), ~CanMove(c)
  PROVE  \E d \in Calls : Active(d) /\ WaitsFor(c, d)
  <1>1. CASE call[c].step \in {"lock", "close"}
    <2>1. PICK r \in call[c].found : ~Free(c, r)
      BY <1>1 DEF CanMove
    <2>2. PICK d \in Others(c) : r \in call[d].locked
      BY <2>1 DEF Free
    <2>3. WaitsFor(c, d)
      BY <1>1, <2>1, <2>2 DEF CanMove, WaitsFor
    <2> QED BY <2>2, <2>3 DEF Others
  <1>2. CASE call[c].step = "insert"
    <2>1. PICK id \in Following(c) : Contended(c, id)
      BY <1>2, SomethingFollows DEF CanMove
    <2>2. PICK d \in Others(c) : id \in call[d].inserted \/ LiveOf(id) \cap call[d].closed # {}
      BY <2>1 DEF Contended
    <2>3. WaitsFor(c, d)
      BY <1>2, <2>1, <2>2 DEF CanMove, WaitsFor
    <2> QED BY <2>2, <2>3 DEF Others
  <1> QED BY <1>1, <1>2 DEF Active, CanMove

\* However many calls wait, somebody moves: there is no circle of upserts, and
\* no call with nobody to wait for and nothing to do.
THEOREM CallsNeverStand == Spec => []SomebodyMoves
  <1>1. WaitInv => SomebodyMoves
    <2> SUFFICES ASSUME WaitInv, NEW a \in Calls, Active(a),
                        \A c \in Calls : Active(c) => ~CanMove(c)
                 PROVE  \E c \in Calls : Active(c) /\ Deadlocked(c)
      BY DEF SomebodyMoves
    <2> DEFINE open == {c \in Calls : Active(c)}
    <2>1. Ring(open)
      BY StuckWaits DEF Ring
    <2>2. PICK c \in open \cap Replaces : Deadlocked(c)
      BY <2>1, RingHasReplacements DEF NoUpsertInARing
    <2> QED BY <2>2
  <1> QED BY <1>1, InitWaitInv, WaitStep, PTL DEF Spec
=============================================================================
