------------------------ MODULE CloudServer_proofs --------------------------
(***************************************************************************)
(* Proofs about two parts of the cloud server that run beside each other.  *)
(*                                                                         *)
(* LoginSessions.  The inductive invariant says what a callback may rely   *)
(* on at each stage: its state is consumed and its own, its user is and    *)
(* stays the user of its identity, and an insertion in progress is the     *)
(* only one for its identity.                                              *)
(*                                                                         *)
(* UploadWorkers.  Whatever its handlers, tasks and recovery loop do to    *)
(* the table is a step of ImportJobs, and a task that holds its lease has  *)
(* its job to itself.                                                      *)
(***************************************************************************)
EXTENDS LoginSessions, UploadWorkers, FiniteSetTheorems, TLAPS

\* A callback that got past the state holds one that nobody else holds.
StatesAreTaken ==
  /\ \A c \in Callbacks : callbacks[c].state # None =>
       /\ callbacks[c].state \in States
       /\ states[callbacks[c].state].status = "consumed"
  /\ \A c, d \in Callbacks :
       callbacks[c].state # None /\ callbacks[c].state = callbacks[d].state => c = d
  /\ \A c \in Callbacks :
       callbacks[c].stage \notin {"idle", "refused"} => callbacks[c].state # None

\* What a callback knows of the identity and its user.
KnowsItsUser ==
  \A c \in Callbacks :
    LET r == callbacks[c] IN
    /\ r.stage \in {"profiled", "known", "orgless", "new", "inserted", "conflicted",
                    "upserted", "done"} => r.identity \in Identities
    /\ r.stage \in {"known", "orgless", "upserted", "done"} =>
         r.user # None /\ userOf[r.identity] = r.user
    /\ r.stage = "orgless" => r.identity \in Legacy
    /\ r.stage = "conflicted" => userOf[r.identity] # None
    /\ r.stage = "inserted" => inserting[r.identity] = c /\ userOf[r.identity] = None

\* Whoever holds the key of an identity is inserting it, and a user named
\* after a callback was committed by it.
OwnInsertion ==
  /\ \A i \in Identities : inserting[i] # None =>
       /\ callbacks[inserting[i]].stage = "inserted"
       /\ callbacks[inserting[i]].identity = i
  /\ \A c \in Callbacks : c \in users => callbacks[c].stage \in {"upserted", "done", "dropped"}

\* A session is opened by the last step of its callback.
SessionsAreDone ==
  \A c \in Callbacks : sessions[c].status # "absent" =>
    callbacks[c].stage = "done" /\ sessions[c].user = callbacks[c].user

IInv == /\ LoginTypeOK
        /\ StatesAreTaken
        /\ KnowsItsUser
        /\ OwnInsertion
        /\ SessionsAreDone
        /\ UsersAreIdentified
        /\ FirstLoginsConverge

-----------------------------------------------------------------------------

THEOREM InitIInv == LoginInit => IInv
<1> SUFFICES ASSUME LoginInit PROVE IInv
  OBVIOUS
<1> USE LegacyAssumption, NamesAssumption
<1>1. LoginTypeOK
  BY DEF LoginInit, LoginTypeOK, StateRows, SessionRows, Requests, Stages, Users
<1>2. StatesAreTaken /\ KnowsItsUser /\ OwnInsertion /\ SessionsAreDone
  BY DEF LoginInit, StatesAreTaken, KnowsItsUser, OwnInsertion, SessionsAreDone
<1>3. UsersAreIdentified /\ FirstLoginsConverge
  BY DEF LoginInit, UsersAreIdentified, FirstLoginsConverge
<1> QED
  BY <1>1, <1>2, <1>3 DEF IInv

\* What it means for a step to move callback c on to a stage, with what it
\* then knows, and to leave the other callbacks alone.
Moves(c, stage, state, identity, user) ==
  /\ callbacks' \in [Callbacks -> Requests]
  /\ callbacks'[c] = [stage |-> stage, state |-> state, identity |-> identity, user |-> user]
  /\ \A d \in Callbacks : d # c => callbacks'[d] = callbacks[d]

\* The three ways the actions within the login write the row of a callback.
LEMMA MovesTo ==
  ASSUME LoginTypeOK, NEW c \in Callbacks, NEW stage \in Stages
  PROVE  /\ callbacks' = [callbacks EXCEPT ![c].stage = stage] =>
              Moves(c, stage, callbacks[c].state, callbacks[c].identity, callbacks[c].user)
         /\ \A i \in Identities :
              callbacks' = [callbacks EXCEPT ![c].stage = stage, ![c].identity = i] =>
                Moves(c, stage, callbacks[c].state, i, callbacks[c].user)
         /\ \A u \in Users \cup {None} :
              callbacks' = [callbacks EXCEPT ![c].stage = stage, ![c].user = u] =>
                Moves(c, stage, callbacks[c].state, callbacks[c].identity, u)
  <1>1. callbacks \in [Callbacks -> Requests] /\ callbacks[c] \in Requests
    BY DEF LoginTypeOK
  <1>2. /\ callbacks[c] = [stage |-> callbacks[c].stage, state |-> callbacks[c].state,
                           identity |-> callbacks[c].identity, user |-> callbacks[c].user]
        /\ callbacks[c].state \in States \cup {None}
        /\ callbacks[c].identity \in Identities \cup {None}
        /\ callbacks[c].user \in Users \cup {None}
    BY <1>1 DEF Requests
  <1>3. CASE callbacks' = [callbacks EXCEPT ![c].stage = stage]
    BY <1>1, <1>2, <1>3 DEF Moves, Requests
  <1>4. ASSUME NEW i \in Identities,
               callbacks' = [callbacks EXCEPT ![c].stage = stage, ![c].identity = i]
        PROVE  Moves(c, stage, callbacks[c].state, i, callbacks[c].user)
    BY <1>1, <1>2, <1>4 DEF Moves, Requests
  <1>5. ASSUME NEW u \in Users \cup {None},
               callbacks' = [callbacks EXCEPT ![c].stage = stage, ![c].user = u]
        PROVE  Moves(c, stage, callbacks[c].state, callbacks[c].identity, u)
    BY <1>1, <1>2, <1>5 DEF Moves, Requests
  <1> QED
    BY <1>3, <1>4, <1>5

\* Steps that move a callback within the login and write nothing keep the
\* invariant when what the callback says it knows is true.
LEMMA MoveIInv ==
  ASSUME IInv, NEW c \in Callbacks, NEW stage \in Stages, NEW identity, NEW user,
         Moves(c, stage, callbacks[c].state, identity, user),
         UNCHANGED <<states, users, userOf, personal, inserting, sessions>>,
         callbacks[c].stage \notin {"idle", "refused", "inserted", "done"},
         stage \notin {"idle", "refused", "inserted"},
         c \in users => stage \in {"upserted", "done", "dropped"},
         stage \in {"profiled", "known", "orgless", "new", "conflicted", "upserted", "done"} =>
           identity \in Identities,
         stage \in {"known", "orgless", "upserted", "done"} =>
           user # None /\ userOf[identity] = user,
         stage = "orgless" => identity \in Legacy,
         stage = "conflicted" => userOf[identity] # None
  PROVE  IInv'
  <1>0. LoginTypeOK /\ StatesAreTaken /\ KnowsItsUser /\ OwnInsertion /\ SessionsAreDone
    BY DEF IInv
  <1>1. /\ callbacks'[c].stage = stage /\ callbacks'[c].state = callbacks[c].state
        /\ callbacks'[c].identity = identity /\ callbacks'[c].user = user
        /\ \A d \in Callbacks : d # c => callbacks'[d] = callbacks[d]
        /\ callbacks' \in [Callbacks -> Requests]
    BY DEF Moves
  <1>2. LoginTypeOK'
    BY <1>0, <1>1 DEF LoginTypeOK
  <1>3. StatesAreTaken'
    BY <1>0, <1>1 DEF StatesAreTaken
  <1>4. KnowsItsUser'
    BY <1>0, <1>1 DEF KnowsItsUser
  <1>5. OwnInsertion'
    BY <1>0, <1>1, NamesAssumption DEF OwnInsertion, LoginTypeOK
  <1>6. SessionsAreDone'
    BY <1>0, <1>1 DEF SessionsAreDone
  <1>7. UsersAreIdentified' /\ FirstLoginsConverge'
    BY DEF IInv, UsersAreIdentified, FirstLoginsConverge
  <1> QED
    BY <1>2, <1>3, <1>4, <1>5, <1>6, <1>7 DEF IInv

-----------------------------------------------------------------------------
(* Every action keeps the invariant.                                       *)

LEMMA StartsIInv ==
  ASSUME IInv, NEW s \in States,
         (\E b \in Browsers : BeginLogin(s, b)) \/ StateExpires(s)
  PROVE  IInv'
  <1>0. LoginTypeOK /\ StatesAreTaken
    BY DEF IInv
  <1>1. /\ UNCHANGED <<users, userOf, personal, inserting, sessions, callbacks>>
        /\ states[s].status # "consumed"
        /\ states' \in [States -> StateRows]
        /\ \A t \in States : t # s => states'[t] = states[t]
    BY <1>0 DEF BeginLogin, StateExpires, LoginTypeOK, StateRows
  <1>2. LoginTypeOK'
    BY <1>0, <1>1 DEF LoginTypeOK
  <1>3. StatesAreTaken'
    BY <1>0, <1>1 DEF StatesAreTaken
  <1>4. KnowsItsUser' /\ OwnInsertion' /\ SessionsAreDone'
    BY <1>1 DEF IInv, KnowsItsUser, OwnInsertion, SessionsAreDone
  <1>5. UsersAreIdentified' /\ FirstLoginsConverge'
    BY <1>1 DEF IInv, UsersAreIdentified, FirstLoginsConverge
  <1> QED
    BY <1>2, <1>3, <1>4, <1>5 DEF IInv

LEMMA ConsumeIInv ==
  ASSUME IInv, NEW c \in Callbacks, NEW s \in States, NEW b \in Browsers, Consume(c, s, b)
  PROVE  IInv'
  <1>0. LoginTypeOK /\ StatesAreTaken /\ KnowsItsUser /\ OwnInsertion /\ SessionsAreDone
    BY DEF IInv
  <1>1. /\ callbacks[c].stage = "idle" /\ callbacks[c] \in Requests
        /\ UNCHANGED <<users, userOf, personal, inserting, sessions>>
    BY <1>0 DEF Consume, At, LoginTypeOK
  <1>2. c \notin users /\ sessions[c].status = "absent" /\ \A i \in Identities : inserting[i] # c
    BY <1>0, <1>1, NamesAssumption DEF OwnInsertion, SessionsAreDone, LoginTypeOK
  <1>3. UsersAreIdentified' /\ FirstLoginsConverge'
    BY <1>1 DEF IInv, UsersAreIdentified, FirstLoginsConverge
  <1>4. CASE Redeemable(s, b)
    <2>1. /\ states' = [states EXCEPT ![s].status = "consumed"]
          /\ callbacks' = [callbacks EXCEPT ![c].stage = "consumed", ![c].state = s]
          /\ states[s].status = "issued"
      BY <1>4 DEF Consume, Redeemable
    <2>3. /\ callbacks'[c].stage = "consumed" /\ callbacks'[c].state = s
          /\ callbacks' \in [Callbacks -> Requests]
          /\ \A d \in Callbacks : d # c => callbacks'[d] = callbacks[d]
      BY <1>0, <1>1, <2>1 DEF LoginTypeOK, Requests, Stages
    <2>4. /\ states' \in [States -> StateRows] /\ states'[s].status = "consumed"
          /\ \A t \in States : t # s => states'[t] = states[t]
      BY <1>0, <2>1 DEF LoginTypeOK, StateRows
    <2>5. LoginTypeOK'
      BY <1>0, <1>1, <2>3, <2>4 DEF LoginTypeOK
    <2>6. StatesAreTaken'
      BY <1>0, <2>1, <2>3, <2>4, NamesAssumption DEF StatesAreTaken
    <2>7. KnowsItsUser' /\ OwnInsertion' /\ SessionsAreDone'
      BY <1>0, <1>1, <1>2, <2>3 DEF KnowsItsUser, OwnInsertion, SessionsAreDone, LoginTypeOK
    <2> QED
      BY <1>3, <2>5, <2>6, <2>7 DEF IInv
  <1>5. CASE ~Redeemable(s, b)
    <2>1. callbacks' = [callbacks EXCEPT ![c].stage = "refused"] /\ UNCHANGED states
      BY <1>5 DEF Consume, To
    <2>2. /\ callbacks'[c].stage = "refused" /\ callbacks'[c].state = callbacks[c].state
          /\ callbacks' \in [Callbacks -> Requests]
          /\ \A d \in Callbacks : d # c => callbacks'[d] = callbacks[d]
      BY <1>0, <1>1, <2>1 DEF LoginTypeOK, Requests, Stages
    <2>3. LoginTypeOK' /\ StatesAreTaken'
      BY <1>0, <1>1, <2>1, <2>2 DEF LoginTypeOK, StatesAreTaken
    <2>4. KnowsItsUser' /\ OwnInsertion' /\ SessionsAreDone'
      BY <1>0, <1>1, <1>2, <2>2 DEF KnowsItsUser, OwnInsertion, SessionsAreDone, LoginTypeOK
    <2> QED
      BY <1>3, <2>3, <2>4 DEF IInv
  <1> QED
    BY <1>4, <1>5

\* The steps that only read: what they conclude holds until the next one.
LEMMA ReadsIInv ==
  ASSUME IInv, NEW c \in Callbacks,
         \/ \E i \in Identities : Exchange(c, i)
         \/ FindIdentity(c)
         \/ FindPersonalOrg(c)
         \/ CommitConflict(c)
  PROVE  IInv'
  <1>0. /\ LoginTypeOK /\ KnowsItsUser /\ OwnInsertion /\ FirstLoginsConverge
        /\ callbacks[c] \in Requests
    BY DEF IInv, LoginTypeOK
  <1>1. ASSUME NEW i \in Identities, Exchange(c, i)
        PROVE  IInv'
    <2>1. /\ callbacks[c].stage = "consumed"
          /\ callbacks' = [callbacks EXCEPT ![c].stage = "profiled", ![c].identity = i]
          /\ UNCHANGED <<states, users, userOf, personal, inserting, sessions>>
      BY <1>1 DEF Exchange, At
    <2>2. Moves(c, "profiled", callbacks[c].state, i, callbacks[c].user)
      BY <1>0, <2>1, MovesTo DEF Stages
    <2>3. c \notin users
      BY <1>0, <2>1 DEF OwnInsertion
    <2> QED
      BY <2>1, <2>2, <2>3, MoveIInv DEF Stages
  <1>2. CASE FindIdentity(c)
    <2> DEFINE i == callbacks[c].identity
               u == userOf[i]
               stage == IF u = None THEN "new" ELSE "known"
    <2>1. /\ callbacks[c].stage = "profiled" /\ i \in Identities
          /\ callbacks' = [callbacks EXCEPT ![c].stage = stage, ![c].user = u]
          /\ UNCHANGED <<states, users, userOf, personal, inserting, sessions>>
      BY <1>0, <1>2 DEF FindIdentity, At, KnowsItsUser
    <2>2. u \in Users \cup {None} /\ stage \in Stages
      BY <1>0, <2>1 DEF LoginTypeOK, Stages
    <2>3. Moves(c, stage, callbacks[c].state, i, u)
      BY <1>0, <2>1, <2>2, MovesTo
    <2>4. c \notin users
      BY <1>0, <2>1 DEF OwnInsertion
    <2> QED
      BY <2>1, <2>2, <2>3, <2>4, MoveIInv
  <1>3. CASE FindPersonalOrg(c)
    <2> DEFINE i == callbacks[c].identity
               u == callbacks[c].user
               stage == IF personal[u] = {} THEN "orgless" ELSE "upserted"
    <2>1. /\ callbacks[c].stage = "known" /\ i \in Identities
          /\ u # None /\ userOf[i] = u
          /\ callbacks' = [callbacks EXCEPT ![c].stage = stage]
          /\ UNCHANGED <<states, users, userOf, personal, inserting, sessions>>
      BY <1>0, <1>3 DEF FindPersonalOrg, At, KnowsItsUser, To
    <2>2. stage \in Stages
      BY DEF Stages
    <2>3. Moves(c, stage, callbacks[c].state, i, u)
      BY <1>0, <2>1, <2>2, MovesTo
    <2>4. c \notin users
      BY <1>0, <2>1 DEF OwnInsertion
    <2>5. personal[u] = {} => i \in Legacy
      <3>1. Cardinality({}) # 1
        BY FS_EmptySet
      <3>2. i \notin Legacy => Cardinality(personal[userOf[i]]) = 1
        BY <1>0, <2>1 DEF FirstLoginsConverge
      <3> QED
        BY <2>1, <3>1, <3>2
    <2> QED
      BY <2>1, <2>2, <2>3, <2>4, <2>5, MoveIInv DEF Stages
  <1>4. CASE CommitConflict(c)
    <2> DEFINE i == callbacks[c].identity
               u == userOf[i]
    <2>1. /\ callbacks[c].stage = "conflicted" /\ i \in Identities /\ u # None
          /\ callbacks' = [callbacks EXCEPT ![c].stage = "upserted", ![c].user = u]
          /\ UNCHANGED <<states, users, userOf, personal, inserting, sessions>>
      BY <1>0, <1>4 DEF CommitConflict, At, KnowsItsUser
    <2>2. u \in Users \cup {None} /\ "upserted" \in Stages
      BY <1>0, <2>1 DEF LoginTypeOK, Stages
    <2>3. Moves(c, "upserted", callbacks[c].state, i, u)
      BY <1>0, <2>1, <2>2, MovesTo
    <2> QED
      BY <2>1, <2>2, <2>3, MoveIInv
  <1> QED
    BY <1>1, <1>2, <1>3, <1>4

LEMMA CommitMissingOrgIInv ==
  ASSUME IInv, NEW c \in Callbacks, CommitMissingOrg(c)
  PROVE  IInv'
  <1>0. /\ LoginTypeOK /\ StatesAreTaken /\ KnowsItsUser /\ OwnInsertion /\ SessionsAreDone
        /\ UsersAreIdentified /\ FirstLoginsConverge /\ callbacks[c] \in Requests
    BY DEF IInv, LoginTypeOK
  <1> DEFINE i == callbacks[c].identity
             u == callbacks[c].user
  <1>1. /\ callbacks[c].stage = "orgless" /\ i \in Legacy /\ i \in Identities
        /\ userOf[i] = u /\ u # None /\ u \in Users
        /\ personal' = [personal EXCEPT ![u] = @ \cup {c}]
        /\ callbacks' = [callbacks EXCEPT ![c].stage = "upserted"]
        /\ UNCHANGED <<states, users, userOf, inserting, sessions>>
    BY <1>0 DEF CommitMissingOrg, At, KnowsItsUser, To, LoginTypeOK, Requests
  <1>2. Moves(c, "upserted", callbacks[c].state, i, u)
    BY <1>0, <1>1, MovesTo DEF Stages
  <1>3. /\ callbacks'[c].stage = "upserted" /\ callbacks'[c].state = callbacks[c].state
        /\ callbacks'[c].identity = i /\ callbacks'[c].user = u
        /\ \A d \in Callbacks : d # c => callbacks'[d] = callbacks[d]
        /\ callbacks' \in [Callbacks -> Requests]
    BY <1>2 DEF Moves
  <1>4. LoginTypeOK'
    BY <1>0, <1>1, <1>3 DEF LoginTypeOK
  <1>5. StatesAreTaken' /\ KnowsItsUser' /\ SessionsAreDone'
    BY <1>0, <1>1, <1>3 DEF StatesAreTaken, KnowsItsUser, SessionsAreDone
  <1>6. OwnInsertion'
    BY <1>0, <1>1, <1>3 DEF OwnInsertion, LoginTypeOK
  <1>7. UsersAreIdentified'
    BY <1>0, <1>1 DEF UsersAreIdentified
  <1>8. FirstLoginsConverge'
    <2>1. ASSUME NEW k \in Identities \ Legacy, userOf[k] # None
          PROVE  personal'[userOf[k]] = personal[userOf[k]]
      <3>1. userOf[k] # u /\ userOf[k] \in Users
        BY <1>0, <1>1, <2>1 DEF UsersAreIdentified, LoginTypeOK
      <3> QED
        BY <1>0, <1>1, <3>1 DEF LoginTypeOK
    <2> QED
      BY <1>0, <1>1, <2>1 DEF FirstLoginsConverge
  <1> QED
    BY <1>4, <1>5, <1>6, <1>7, <1>8 DEF IInv

LEMMA InsertIdentityIInv ==
  ASSUME IInv, NEW c \in Callbacks, InsertIdentity(c)
  PROVE  IInv'
  <1>0. /\ LoginTypeOK /\ StatesAreTaken /\ KnowsItsUser /\ OwnInsertion /\ SessionsAreDone
        /\ callbacks[c] \in Requests
    BY DEF IInv, LoginTypeOK
  <1> DEFINE i == callbacks[c].identity
  <1>1. /\ callbacks[c].stage = "new" /\ i \in Identities /\ inserting[i] = None
        /\ UNCHANGED <<states, users, userOf, personal, sessions>>
        /\ c \notin users
    BY <1>0 DEF InsertIdentity, At, KnowsItsUser, OwnInsertion
  <1>2. CASE userOf[i] # None
    <2>1. callbacks' = [callbacks EXCEPT ![c].stage = "conflicted"] /\ UNCHANGED inserting
      BY <1>2 DEF InsertIdentity, To
    <2>2. Moves(c, "conflicted", callbacks[c].state, i, callbacks[c].user)
      BY <1>0, <2>1, MovesTo DEF Stages
    <2> QED
      BY <1>1, <1>2, <2>1, <2>2, MoveIInv DEF Stages
  <1>3. CASE userOf[i] = None
    <2>1. /\ callbacks' = [callbacks EXCEPT ![c].stage = "inserted"]
          /\ inserting' = [inserting EXCEPT ![i] = c]
      BY <1>3 DEF InsertIdentity, To
    <2>2. Moves(c, "inserted", callbacks[c].state, i, callbacks[c].user)
      BY <1>0, <2>1, MovesTo DEF Stages
    <2>3. /\ callbacks'[c].stage = "inserted" /\ callbacks'[c].state = callbacks[c].state
          /\ callbacks'[c].identity = i
          /\ \A d \in Callbacks : d # c => callbacks'[d] = callbacks[d]
          /\ callbacks' \in [Callbacks -> Requests]
      BY <2>2 DEF Moves
    <2>4. /\ inserting' \in [Identities -> Callbacks \cup {None}] /\ inserting'[i] = c
          /\ \A k \in Identities : k # i => inserting'[k] = inserting[k]
      BY <1>0, <1>1, <2>1 DEF LoginTypeOK
    <2>5. LoginTypeOK'
      BY <1>0, <1>1, <2>3, <2>4 DEF LoginTypeOK
    <2>6. StatesAreTaken' /\ SessionsAreDone'
      BY <1>0, <1>1, <2>3 DEF StatesAreTaken, SessionsAreDone
    <2>7. KnowsItsUser'
      BY <1>0, <1>1, <1>3, <2>3, <2>4, NamesAssumption DEF KnowsItsUser
    <2>8. OwnInsertion'
      BY <1>0, <1>1, <2>3, <2>4 DEF OwnInsertion, LoginTypeOK
    <2>9. UsersAreIdentified' /\ FirstLoginsConverge'
      BY <1>1 DEF IInv, UsersAreIdentified, FirstLoginsConverge
    <2> QED
      BY <2>5, <2>6, <2>7, <2>8, <2>9 DEF IInv
  <1> QED
    BY <1>2, <1>3

LEMMA CommitFirstLoginIInv ==
  ASSUME IInv, NEW c \in Callbacks, CommitFirstLogin(c)
  PROVE  IInv'
  <1>0. /\ LoginTypeOK /\ StatesAreTaken /\ KnowsItsUser /\ OwnInsertion /\ SessionsAreDone
        /\ UsersAreIdentified /\ FirstLoginsConverge /\ callbacks[c] \in Requests
    BY DEF IInv, LoginTypeOK
  <1> DEFINE i == callbacks[c].identity
  <1>1. /\ callbacks[c].stage = "inserted" /\ i \in Identities
        /\ inserting[i] = c /\ userOf[i] = None
        /\ users' = users \cup {c}
        /\ userOf' = [userOf EXCEPT ![i] = c]
        /\ personal' = [personal EXCEPT ![c] = {c}]
        /\ inserting' = [inserting EXCEPT ![i] = None]
        /\ callbacks' = [callbacks EXCEPT ![c].stage = "upserted", ![c].user = c]
        /\ UNCHANGED <<states, sessions>>
    BY <1>0 DEF CommitFirstLogin, At, KnowsItsUser
  <1>2. c \in Users /\ c # None /\ c \notin users
    BY <1>0, <1>1, NamesAssumption DEF Users, OwnInsertion
  <1>3. Moves(c, "upserted", callbacks[c].state, i, c)
    BY <1>0, <1>1, <1>2, MovesTo DEF Stages
  <1>4. /\ callbacks'[c].stage = "upserted" /\ callbacks'[c].state = callbacks[c].state
        /\ callbacks'[c].identity = i /\ callbacks'[c].user = c
        /\ \A d \in Callbacks : d # c => callbacks'[d] = callbacks[d]
        /\ callbacks' \in [Callbacks -> Requests]
    BY <1>3 DEF Moves
  <1>5. /\ userOf' \in [Identities -> Users \cup {None}] /\ userOf'[i] = c
        /\ \A k \in Identities : k # i => userOf'[k] = userOf[k]
        /\ inserting' \in [Identities -> Callbacks \cup {None}] /\ inserting'[i] = None
        /\ \A k \in Identities : k # i => inserting'[k] = inserting[k]
        /\ personal' \in [Users -> SUBSET Callbacks] /\ personal'[c] = {c}
        /\ \A u \in Users : u # c => personal'[u] = personal[u]
    BY <1>0, <1>1, <1>2 DEF LoginTypeOK
  <1>6. LoginTypeOK'
    BY <1>0, <1>1, <1>2, <1>4, <1>5 DEF LoginTypeOK
  <1>7. StatesAreTaken' /\ SessionsAreDone'
    BY <1>0, <1>1, <1>4 DEF StatesAreTaken, SessionsAreDone
  <1>8. KnowsItsUser'
    BY <1>0, <1>1, <1>2, <1>4, <1>5 DEF KnowsItsUser
  <1>9. OwnInsertion'
    BY <1>0, <1>1, <1>4, <1>5 DEF OwnInsertion, LoginTypeOK
  <1>10. \A k \in Identities : userOf[k] # c
    BY <1>0, <1>2 DEF UsersAreIdentified
  <1>11. UsersAreIdentified'
    <2>1. ASSUME NEW u \in users'
          PROVE  \E k \in Identities : userOf'[k] = u
      <3>1. CASE u = c
        BY <1>1, <1>5, <3>1
      <3>2. CASE u \in users
        <4>1. PICK k \in Identities : userOf[k] = u
          BY <1>0, <3>2 DEF UsersAreIdentified
        <4>2. u # None
          BY <1>0, <3>2, NamesAssumption, LegacyAssumption DEF LoginTypeOK, Users
        <4> QED
          BY <1>1, <1>5, <4>1, <4>2
      <3> QED
        BY <1>1, <2>1, <3>1, <3>2
    <2>2. ASSUME NEW k \in Identities, userOf'[k] # None
          PROVE  userOf'[k] \in users'
      BY <1>0, <1>1, <1>5, <2>2 DEF UsersAreIdentified
    <2>3. ASSUME NEW k \in Identities, NEW l \in Identities,
                 userOf'[k] = userOf'[l], userOf'[k] # None
          PROVE  k = l
      BY <1>0, <1>1, <1>5, <1>10, <2>3 DEF UsersAreIdentified
    <2> QED
      BY <2>1, <2>2, <2>3 DEF UsersAreIdentified
  <1>12. FirstLoginsConverge'
    <2>1. Cardinality(personal'[c]) = 1
      BY <1>5, FS_Singleton
    <2>2. ASSUME NEW k \in Identities \ Legacy, userOf'[k] # None, k # i
          PROVE  Cardinality(personal'[userOf'[k]]) = 1
      <3>1. userOf'[k] = userOf[k] /\ userOf[k] \in Users /\ userOf[k] # c
        BY <1>0, <1>5, <1>10, <2>2 DEF LoginTypeOK
      <3> QED
        BY <1>0, <1>5, <2>2, <3>1 DEF FirstLoginsConverge
    <2> QED
      BY <1>5, <2>1, <2>2 DEF FirstLoginsConverge
  <1> QED
    BY <1>6, <1>7, <1>8, <1>9, <1>11, <1>12 DEF IInv

LEMMA SessionsIInv ==
  ASSUME IInv, NEW c \in Callbacks, CreateSession(c) \/ Logout(c) \/ SessionExpires(c)
  PROVE  IInv'
  <1>0. /\ LoginTypeOK /\ StatesAreTaken /\ KnowsItsUser /\ OwnInsertion /\ SessionsAreDone
        /\ callbacks[c] \in Requests
    BY DEF IInv, LoginTypeOK
  <1>1. CASE CreateSession(c)
    <2>1. /\ callbacks[c].stage = "upserted" /\ callbacks[c].user \in Users \cup {None}
          /\ sessions' = [sessions EXCEPT ![c] = [status |-> "live", user |-> callbacks[c].user]]
          /\ callbacks' = [callbacks EXCEPT ![c].stage = "done"]
          /\ UNCHANGED <<states, users, userOf, personal, inserting>>
      BY <1>0, <1>1 DEF CreateSession, At, To, Requests
    <2>2. /\ callbacks'[c].stage = "done" /\ callbacks'[c].state = callbacks[c].state
          /\ callbacks'[c].identity = callbacks[c].identity /\ callbacks'[c].user = callbacks[c].user
          /\ \A d \in Callbacks : d # c => callbacks'[d] = callbacks[d]
          /\ callbacks' \in [Callbacks -> Requests]
      <3>1. Moves(c, "done", callbacks[c].state, callbacks[c].identity, callbacks[c].user)
        BY <1>0, <2>1, MovesTo DEF Stages
      <3> QED
        BY <3>1 DEF Moves
    <2>3. /\ sessions' \in [Callbacks -> SessionRows] /\ sessions'[c].user = callbacks[c].user
          /\ \A d \in Callbacks : d # c => sessions'[d] = sessions[d]
      BY <1>0, <2>1 DEF LoginTypeOK, SessionRows
    <2>4. LoginTypeOK' /\ StatesAreTaken' /\ KnowsItsUser' /\ SessionsAreDone'
      BY <1>0, <2>1, <2>2, <2>3 DEF LoginTypeOK, StatesAreTaken, KnowsItsUser, SessionsAreDone
    <2>5. OwnInsertion' /\ UsersAreIdentified' /\ FirstLoginsConverge'
      BY <1>0, <2>1, <2>2 DEF IInv, OwnInsertion, UsersAreIdentified, FirstLoginsConverge, LoginTypeOK
    <2> QED
      BY <2>4, <2>5 DEF IInv
  <1>2. CASE Logout(c) \/ SessionExpires(c)
    <2>1. /\ UNCHANGED <<states, users, userOf, personal, inserting, callbacks>>
          /\ sessions[c].status = "live" /\ sessions' \in [Callbacks -> SessionRows]
          /\ sessions'[c].user = sessions[c].user
          /\ \A d \in Callbacks : d # c => sessions'[d] = sessions[d]
      <3>0. sessions \in [Callbacks -> SessionRows] /\ sessions[c] \in SessionRows
        BY <1>0 DEF LoginTypeOK
      <3>1. CASE Logout(c)
        <4>1. /\ UNCHANGED <<states, users, userOf, personal, inserting, callbacks>>
              /\ sessions[c].status = "live"
              /\ sessions' = [sessions EXCEPT ![c].status = "revoked"]
          BY <3>1 DEF Logout
        <4> QED
          BY <3>0, <4>1 DEF SessionRows
      <3>2. CASE SessionExpires(c)
        <4>1. /\ UNCHANGED <<states, users, userOf, personal, inserting, callbacks>>
              /\ sessions[c].status = "live"
              /\ sessions' = [sessions EXCEPT ![c].status = "expired"]
          BY <3>2 DEF SessionExpires
        <4> QED
          BY <3>0, <4>1 DEF SessionRows
      <3> QED
        BY <1>2, <3>1, <3>2
    <2>2. SessionsAreDone'
      BY <1>0, <2>1 DEF SessionsAreDone
    <2> QED
      BY <1>0, <2>1, <2>2 DEF IInv, LoginTypeOK, StatesAreTaken, KnowsItsUser, OwnInsertion,
         UsersAreIdentified, FirstLoginsConverge
  <1> QED
    BY <1>1, <1>2

LEMMA DropIInv ==
  ASSUME IInv, NEW c \in Callbacks, Drop(c)
  PROVE  IInv'
  <1>0. /\ LoginTypeOK /\ StatesAreTaken /\ KnowsItsUser /\ OwnInsertion /\ SessionsAreDone
        /\ callbacks[c] \in Requests
    BY DEF IInv, LoginTypeOK
  <1>1. /\ callbacks[c].stage \notin {"idle", "done", "refused", "dropped"}
        /\ callbacks' = [callbacks EXCEPT ![c].stage = "dropped"]
        /\ inserting' = [i \in Identities |-> IF inserting[i] = c THEN None ELSE inserting[i]]
        /\ UNCHANGED <<states, users, userOf, personal, sessions>>
    BY DEF Drop, To
  <1>2. /\ callbacks'[c].stage = "dropped" /\ callbacks'[c].state = callbacks[c].state
        /\ \A d \in Callbacks : d # c => callbacks'[d] = callbacks[d]
        /\ callbacks' \in [Callbacks -> Requests]
    <2>1. Moves(c, "dropped", callbacks[c].state, callbacks[c].identity, callbacks[c].user)
      BY <1>0, <1>1, MovesTo DEF Stages
    <2> QED
      BY <2>1 DEF Moves
  <1>3. LoginTypeOK' /\ StatesAreTaken' /\ SessionsAreDone'
    BY <1>0, <1>1, <1>2 DEF LoginTypeOK, StatesAreTaken, SessionsAreDone
  <1>4. KnowsItsUser'
    BY <1>0, <1>1, <1>2 DEF KnowsItsUser, LoginTypeOK
  <1>5. OwnInsertion' /\ UsersAreIdentified' /\ FirstLoginsConverge'
    BY <1>0, <1>1, <1>2 DEF IInv, OwnInsertion, UsersAreIdentified, FirstLoginsConverge, LoginTypeOK
  <1> QED
    BY <1>3, <1>4, <1>5 DEF IInv

THEOREM NextIInv == IInv /\ [LoginNext]_loginVars => IInv'
<1> SUFFICES ASSUME IInv, [LoginNext]_loginVars PROVE IInv'
  OBVIOUS
<1>1. ASSUME NEW s \in States, (\E b \in Browsers : BeginLogin(s, b)) \/ StateExpires(s)
      PROVE  IInv'
  BY <1>1, StartsIInv
<1>2. ASSUME NEW c \in Callbacks, NEW s \in States, NEW b \in Browsers, Consume(c, s, b)
      PROVE  IInv'
  BY <1>2, ConsumeIInv
<1>3. ASSUME NEW c \in Callbacks, Advance(c)
      PROVE  IInv'
  BY <1>3, ReadsIInv, CommitMissingOrgIInv, InsertIdentityIInv, CommitFirstLoginIInv,
     SessionsIInv DEF Advance
<1>4. ASSUME NEW c \in Callbacks, Drop(c)
      PROVE  IInv'
  BY <1>4, DropIInv
<1>5. ASSUME NEW c \in Callbacks, Logout(c) \/ SessionExpires(c)
      PROVE  IInv'
  BY <1>5, SessionsIInv
<1>6. CASE UNCHANGED loginVars
  BY <1>6 DEF loginVars, IInv, LoginTypeOK, StatesAreTaken, KnowsItsUser, OwnInsertion, SessionsAreDone,
     UsersAreIdentified, FirstLoginsConverge
<1> QED
  BY <1>1, <1>2, <1>3, <1>4, <1>5, <1>6 DEF LoginNext

THEOREM SpecIInv == LoginSpec => []IInv
  BY InitIInv, NextIInv, PTL DEF LoginSpec

\* A state opens at most one session: callbacks that got past it differ in it.
THEOREM OneSessionPerState == LoginSpec => []StateOpensOneSession
<1>1. IInv => StateOpensOneSession
  BY DEF IInv, StatesAreTaken, SessionsAreDone, StateOpensOneSession
<1> QED
  BY <1>1, SpecIInv, PTL

\* Every user is that of exactly one identity, whatever races and whatever
\* is rolled back.
THEOREM NoOrphanUsers == LoginSpec => []UsersAreIdentified
<1>1. IInv => UsersAreIdentified
  BY DEF IInv
<1> QED
  BY <1>1, SpecIInv, PTL

\* Concurrent first logins end with one personal organization.
THEOREM OnePersonalOrg == LoginSpec => []FirstLoginsConverge
<1>1. IInv => FirstLoginsConverge
  BY DEF IInv
<1> QED
  BY <1>1, SpecIInv, PTL

\* A session is for the user of the identity its callback was vouched for.
THEOREM VouchedSessions == LoginSpec => []SessionsAreVouchedFor
<1>1. ASSUME IInv
      PROVE  SessionsAreVouchedFor
  BY <1>1 DEF IInv, SessionsAreDone, KnowsItsUser, UsersAreIdentified, SessionsAreVouchedFor
<1> QED
  BY <1>1, SpecIInv, PTL

-----------------------------------------------------------------------------
(* Tasks work under leases the table has handed out.                       *)

LeasesKnown ==
  /\ issued \in Nat
  /\ leases \subseteq Table!Lease
  /\ working \subseteq leases

\* What a claim by `j`'s task does to the leases.
LEMMA GrantLeases ==
  ASSUME LeasesKnown, NEW j \in Jobs, NEW rows, Table!Grant(rows, j, Owner)
  PROVE  /\ issued' \in Nat
         /\ leases' \subseteq Table!Lease
         /\ leases \subseteq leases'
  <1>1. issued' = issued + 1
    BY DEF Table!Grant
  <1>2. leases' = leases \cup {[job |-> j, owner |-> Owner, token |-> issued + 1]}
    BY DEF Table!Grant
  <1>3. [job |-> j, owner |-> Owner, token |-> issued + 1] \in Table!Lease
    BY DEF Table!Lease, LeasesKnown
  <1> QED BY <1>1, <1>2, <1>3 DEF LeasesKnown

\* Claiming a job by its id, whether it wins or finalises, keeps the leases
\* well formed and forgets none.
LEMMA ClaimLeases ==
  ASSUME LeasesKnown, NEW j \in Jobs, Table!ClaimImportJobById(j, Owner)
  PROVE  /\ issued' \in Nat
         /\ leases' \subseteq Table!Lease
         /\ leases \subseteq leases'
  <1>1. CASE Table!Grant(Table!FinalizeExhausted({j}), j, Owner)
    BY <1>1, GrantLeases
  <1>2. CASE UNCHANGED <<now, issued, leases, settledBy>>
    BY <1>2 DEF LeasesKnown
  <1> QED BY <1>1, <1>2 DEF Table!ClaimImportJobById

\* A server that starts has no tasks and its table no leases.
LEMMA InitLeases == WorkersInit => LeasesKnown
  BY DEF WorkersInit, Table!Init, LeasesKnown

\* Tasks take to work only leases their claim has just brought into being.
LEMMA StepLeases == LeasesKnown /\ [WorkersNext]_workersVars => LeasesKnown'
  <1> SUFFICES ASSUME LeasesKnown, [WorkersNext]_workersVars PROVE LeasesKnown'
    OBVIOUS
  <1>1. ASSUME NEW j \in Jobs, NEW d \in Delays, Enqueue(j, d) PROVE LeasesKnown'
    BY <1>1 DEF Enqueue, Table!CreateImportJob, LeasesKnown
  <1>2. ASSUME NEW j \in Jobs, Spawn(j) PROVE LeasesKnown'
    BY <1>2 DEF Spawn, table, LeasesKnown
  <1>3. CASE ScanFinalizes
    BY <1>3 DEF ScanFinalizes, Table!FinalizeUploads, table, LeasesKnown
  <1>4. CASE ScanDispatches
    BY <1>4 DEF ScanDispatches, table, LeasesKnown
  <1>5. ASSUME NEW j \in Jobs, Claim(j) PROVE LeasesKnown'
    <2>1. /\ issued' \in Nat
          /\ leases' \subseteq Table!Lease
          /\ leases \subseteq leases'
      <3>1. CASE Table!ClaimImportJobById(j, Owner)
        BY <3>1, ClaimLeases
      <3>2. CASE UNCHANGED table
        BY <3>2 DEF table, LeasesKnown
      <3> QED BY <1>5, <3>1, <3>2 DEF Claim
    <2>2. working' = working \cup (leases' \ leases)
      BY <1>5 DEF Claim
    <2> QED BY <2>1, <2>2 DEF LeasesKnown
  <1>6. ASSUME NEW l \in working, Succeed(l) PROVE LeasesKnown'
    BY <1>6 DEF Succeed, Reports, Table!SucceedImportJob, Table!Settle, table, LeasesKnown
  <1>7. ASSUME NEW l \in working, Fail(l) PROVE LeasesKnown'
    BY <1>7 DEF Fail, Reports, Table!FailImportJob, Table!Settle, table, LeasesKnown
  <1>8. CASE TaskDies
    BY <1>8 DEF TaskDies, table, LeasesKnown
  <1>9. CASE ScanFails
    BY <1>9 DEF ScanFails, table, LeasesKnown
  <1>10. CASE Crash
    BY <1>10 DEF Crash, table, LeasesKnown
  <1>11. CASE TimePasses
    BY <1>11 DEF TimePasses, Table!Tick, LeasesKnown
  <1>12. CASE UNCHANGED workersVars
    BY <1>12 DEF workersVars, table, LeasesKnown
  <1> QED BY <1>1, <1>2, <1>3, <1>4, <1>5, <1>6, <1>7, <1>8, <1>9, <1>10, <1>11, <1>12 DEF WorkersNext

\* Every task at work, in any number and whatever has become of its lease,
\* works under a lease that run_upload_job got from a claim.
THEOREM TasksHaveLeases == WorkersSpec => []LeasesKnown
  BY InitLeases, StepLeases, PTL DEF WorkersSpec

-----------------------------------------------------------------------------
(* Types of the server's own state.                                        *)

\* The counters of waiting tasks and of faults stay within their bounds: every
\* step that adds one looks at the bound first, a whole batch of a scan too.
LEMMA StepTypes == LeasesKnown' /\ WorkersTypeOK /\ [WorkersNext]_workersVars => WorkersTypeOK'
  <1> SUFFICES ASSUME LeasesKnown', WorkersTypeOK, [WorkersNext]_workersVars PROVE WorkersTypeOK'
    OBVIOUS
  <1> USE BoundsAssumption DEF WorkersTypeOK
  <1>0. working' \subseteq Table!Lease'
    BY DEF LeasesKnown
  <1>1. ASSUME NEW j \in Jobs, NEW d \in Delays, Enqueue(j, d) PROVE WorkersTypeOK'
    BY <1>0, <1>1 DEF Enqueue
  <1>2. ASSUME NEW j \in Jobs, Spawn(j) PROVE WorkersTypeOK'
    BY <1>0, <1>2 DEF Spawn
  <1>3. CASE ScanFinalizes
    BY <1>0, <1>3 DEF ScanFinalizes
  <1>4. CASE ScanDispatches
    <2>1. ASSUME NEW j \in Jobs PROVE dispatched'[j] \in 0 .. MaxDispatched
      BY <1>4 DEF ScanDispatches
    <2>2. dispatched' \in [Jobs -> 0 .. MaxDispatched]
      BY <1>4, <2>1 DEF ScanDispatches
    <2> QED BY <1>0, <1>4, <2>2 DEF ScanDispatches
  <1>5. ASSUME NEW j \in Jobs, Claim(j) PROVE WorkersTypeOK'
    BY <1>0, <1>5 DEF Claim
  <1>6. ASSUME NEW l \in working, Succeed(l) \/ Fail(l) PROVE WorkersTypeOK'
    BY <1>0, <1>6 DEF Succeed, Fail, Reports
  <1>7. CASE TaskDies
    BY <1>0, <1>7 DEF TaskDies
  <1>8. CASE ScanFails
    BY <1>0, <1>8 DEF ScanFails
  <1>9. CASE Crash
    BY <1>0, <1>9 DEF Crash
  <1>10. CASE TimePasses \/ UNCHANGED workersVars
    BY <1>0, <1>10 DEF TimePasses, workersVars
  <1> QED BY <1>1, <1>2, <1>3, <1>4, <1>5, <1>6, <1>7, <1>8, <1>9, <1>10 DEF WorkersNext

\* Requests, waiting and working tasks, scan and faults are what WorkersTypeOK says,
\* after any number of crashes.
THEOREM WorkersTypeCorrect == WorkersSpec => []WorkersTypeOK
  <1>1. WorkersInit => WorkersTypeOK
    BY BoundsAssumption DEF WorkersInit, WorkersTypeOK
  <1> QED BY <1>1, InitLeases, StepLeases, StepTypes, PTL DEF WorkersSpec

-----------------------------------------------------------------------------
(* Every step is a step of the table or leaves it alone.                   *)

\* One step of the server is a step of the table, action by action.
LEMMA StepOfTable == LeasesKnown /\ [WorkersNext]_workersVars => [Table!Next]_(Table!vars)
  <1> SUFFICES ASSUME LeasesKnown, [WorkersNext]_workersVars PROVE [Table!Next]_(Table!vars)
    OBVIOUS
  <1>0. ASSUME UNCHANGED table PROVE [Table!Next]_(Table!vars)
    BY <1>0 DEF table, Table!vars
  <1>1. ASSUME NEW j \in Jobs, NEW d \in Delays, Enqueue(j, d) PROVE Table!Next
    BY <1>1 DEF Enqueue, Table!Next
  <1>2. ASSUME NEW j \in Jobs, Spawn(j) PROVE UNCHANGED table
    BY <1>2 DEF Spawn
  <1>3. CASE ScanFinalizes
    BY <1>0, <1>3 DEF ScanFinalizes, Table!Next
  <1>4. CASE ScanDispatches
    BY <1>0, <1>4 DEF ScanDispatches
  <1>5. ASSUME NEW j \in Jobs, Claim(j) PROVE [Table!Next]_(Table!vars)
    <2>1. CASE Table!ClaimImportJobById(j, Owner)
      BY <2>1 DEF Table!Next
    <2> QED BY <1>0, <1>5, <2>1 DEF Claim
  <1>6. ASSUME NEW l \in working, Succeed(l) PROVE [Table!Next]_(Table!vars)
    BY <1>0, <1>6 DEF Succeed, Table!Next, LeasesKnown
  <1>7. ASSUME NEW l \in working, Fail(l) PROVE [Table!Next]_(Table!vars)
    BY <1>0, <1>7 DEF Fail, Table!Next, LeasesKnown
  <1>8. CASE TaskDies
    BY <1>0, <1>8 DEF TaskDies
  <1>9. CASE ScanFails
    BY <1>0, <1>9 DEF ScanFails
  <1>10. CASE Crash
    BY <1>0, <1>10 DEF Crash
  <1>11. CASE TimePasses
    BY <1>11 DEF TimePasses, Table!Next
  <1>12. CASE UNCHANGED workersVars
    BY <1>0, <1>12 DEF workersVars
  <1> QED BY <1>0, <1>1, <1>2, <1>3, <1>4, <1>5, <1>6, <1>7, <1>8, <1>9, <1>10, <1>11, <1>12 DEF WorkersNext

\* However many tasks, duplicates and crashes there are, the server's use of
\* the job table is one the table's specification allows, so what is proved
\* of the table holds of the server.
THEOREM ServerUsesTheTable == WorkersSpec => UsesTheTable
  <1>1. WorkersInit => Table!Init
    BY DEF WorkersInit
  <1> QED BY <1>1, InitLeases, StepLeases, StepOfTable, PTL DEF WorkersSpec, UsesTheTable, Table!Spec

-----------------------------------------------------------------------------
(* A task that holds its lease has its job to itself.                      *)

\* The jobs variable keeps one row per job.
OneRowPerJob == jobs = [j \in Jobs |-> jobs[j]]

\* No statement of the table adds or removes a row.
LEMMA StepOneRow == LeasesKnown /\ OneRowPerJob /\ [WorkersNext]_workersVars => OneRowPerJob'
  <1> SUFFICES ASSUME OneRowPerJob, [Table!Next]_(Table!vars) PROVE OneRowPerJob'
    BY StepOfTable
  <1>1. ASSUME NEW j \in Jobs, NEW d \in Delays, Table!CreateImportJob(j, d)
        PROVE  OneRowPerJob'
    BY <1>1 DEF Table!CreateImportJob, OneRowPerJob
  <1>2. ASSUME NEW S, NEW j, NEW o, Table!Grant(Table!FinalizeExhausted(S), j, o)
        PROVE  OneRowPerJob'
    BY <1>2 DEF Table!Grant, Table!FinalizeExhausted, OneRowPerJob
  <1>3. ASSUME NEW S, jobs' = Table!FinalizeExhausted(S) PROVE OneRowPerJob'
    BY <1>3 DEF Table!FinalizeExhausted, OneRowPerJob
  <1>4. ASSUME NEW j \in Jobs, NEW o, Table!ClaimImportJobById(j, o)
        PROVE  OneRowPerJob'
    BY <1>2, <1>3, <1>4 DEF Table!ClaimImportJobById
  <1>5. ASSUME NEW o, Table!ClaimImportJob(o) PROVE OneRowPerJob'
    BY <1>2, <1>3, <1>5 DEF Table!ClaimImportJob
  <1>6. CASE Table!FinalizeUploads
    BY <1>3, <1>6 DEF Table!FinalizeUploads
  <1>7. ASSUME NEW l \in leases, Table!SucceedImportJob(l) PROVE OneRowPerJob'
    BY <1>7 DEF Table!SucceedImportJob, Table!Settle, OneRowPerJob
  <1>8. ASSUME NEW l \in leases, Table!FailImportJob(l) PROVE OneRowPerJob'
    BY <1>8 DEF Table!FailImportJob, Table!Settle, OneRowPerJob
  <1>9. ASSUME NEW l \in leases, NEW d \in Delays, Table!RetryImportJob(l, d)
        PROVE  OneRowPerJob'
    BY <1>9 DEF Table!RetryImportJob, OneRowPerJob
  <1>10. CASE Table!Tick
    BY <1>10 DEF Table!Tick, OneRowPerJob
  <1>11. CASE UNCHANGED Table!vars
    BY <1>11 DEF Table!vars, OneRowPerJob
  <1> QED BY <1>1, <1>4, <1>5, <1>6, <1>7, <1>8, <1>9, <1>10, <1>11 DEF Table!Next

\* What lets no statement but the holder's report write a leased row.
LEMMA LeasedIsOutOfReach ==
  ASSUME NEW l, Table!HoldsLease(l)
  PROVE  /\ ~Table!Claimable(l.job)
         /\ ~Table!Exhausted(l.job)
         /\ jobs[l.job].status # "absent"
  BY DEF Table!HoldsLease, Table!Claimable, Table!Exhausted, Table!Expired

\* Giving up exhausted jobs, however many, leaves a leased row as it is.
LEMMA FinalizeSparesLeased ==
  ASSUME NEW l, l.job \in Jobs, Table!HoldsLease(l), NEW S
  PROVE  Table!FinalizeExhausted(S)[l.job] = jobs[l.job]
  BY LeasedIsOutOfReach DEF Table!FinalizeExhausted

\* A row is leased to one token, so two leases that both count are the same.
LEMMA OneLeaseCounts ==
  ASSUME NEW l \in Table!Lease, NEW k \in Table!Lease, l.job = k.job,
         Table!HoldsLease(l), Table!HoldsLease(k)
  PROVE  l = k
  BY DEF Table!HoldsLease, Table!Lease

\* A report that writes the row of a held job is the holder's, which ends it.
LEMMA ReportOfAnother ==
  ASSUME LeasesKnown, OneRowPerJob,
         NEW l \in working, Table!HoldsLease(l), jobs'[l.job] # jobs[l.job],
         NEW k \in working, Reports(k),
         NEW status, NEW error, Table!Settle(k, status, error)
  PROVE  l \notin working'
  <1>1. l \in Table!Lease /\ k \in Table!Lease
    BY DEF LeasesKnown
  <1>2. k.job = l.job
    BY <1>1 DEF Table!Settle, OneRowPerJob, Table!Lease
  <1>3. k = l
    BY <1>1, <1>2, OneLeaseCounts DEF Table!Settle
  <1> QED BY <1>3 DEF Reports

\* One step of the server, action by action.
LEMMA StepHolder ==
  ASSUME LeasesKnown, OneRowPerJob, [WorkersNext]_workersVars,
         NEW l \in working, Table!HoldsLease(l), jobs'[l.job] # jobs[l.job]
  PROVE  l \notin working'
  <1>0. l \in Table!Lease /\ l.job \in Jobs
    BY DEF LeasesKnown, Table!Lease
  <1>1. ASSUME NEW j \in Jobs, NEW d \in Delays, Enqueue(j, d) PROVE FALSE
    BY <1>0, <1>1, LeasedIsOutOfReach DEF Enqueue, Table!CreateImportJob, OneRowPerJob
  <1>2. CASE ScanFinalizes
    BY <1>0, <1>2, FinalizeSparesLeased DEF ScanFinalizes, Table!FinalizeUploads, table
  <1>3. ASSUME NEW j \in Jobs, Claim(j) PROVE FALSE
    <2>1. CASE /\ Table!Claimable(j)
               /\ Table!Grant(Table!FinalizeExhausted({j}), j, Owner)
      <3>1. j # l.job
        BY <2>1, LeasedIsOutOfReach
      <3>2. jobs'[l.job] = Table!FinalizeExhausted({j})[l.job]
        BY <1>0, <2>1, <3>1 DEF Table!Grant, Table!FinalizeExhausted
      <3> QED BY <1>0, <3>2, FinalizeSparesLeased
    <2>2. CASE jobs' = Table!FinalizeExhausted({j})
      BY <1>0, <2>2, FinalizeSparesLeased
    <2> QED BY <1>3, <2>1, <2>2 DEF Claim, Table!ClaimImportJobById, table
  <1>4. ASSUME NEW k \in working, Succeed(k) PROVE l \notin working'
    BY <1>4, ReportOfAnother DEF Succeed, Table!SucceedImportJob, table
  <1>5. ASSUME NEW k \in working, Fail(k) PROVE l \notin working'
    BY <1>5, ReportOfAnother DEF Fail, Table!FailImportJob, table
  <1>6. ASSUME \/ \E j \in Jobs : Spawn(j)
               \/ ScanDispatches \/ TaskDies \/ ScanFails \/ Crash
               \/ TimePasses \/ UNCHANGED workersVars
        PROVE  FALSE
    BY <1>6 DEF Spawn, ScanDispatches, TaskDies, ScanFails, Crash, TimePasses,
                Table!Tick, workersVars, table
  <1> QED BY <1>1, <1>2, <1>3, <1>4, <1>5, <1>6 DEF WorkersNext

\* While a task at work holds its lease, only its own report changes the row
\* of its job, whatever duplicates of it do and however often the loop scans.
THEOREM HolderHasTheJob == WorkersSpec => HolderIsAlone
  <1>1. WorkersInit => OneRowPerJob
    BY DEF WorkersInit, Table!Init, OneRowPerJob
  <1>2. LeasesKnown /\ OneRowPerJob /\ [WorkersNext]_workersVars
          => [\A l \in working :
                Table!HoldsLease(l) /\ jobs'[l.job] # jobs[l.job] => l \notin working']_workersVars
    BY StepHolder
  <1> QED BY <1>1, <1>2, InitLeases, StepLeases, StepOneRow, PTL DEF WorkersSpec, HolderIsAlone

-----------------------------------------------------------------------------
(* What is proved of the table holds of the server.                       *)

\* The table's module and its proofs, under the substitution of Table.
Proved == INSTANCE ImportJobs_proofs WITH UploadJobs <- Jobs, Owners <- {Owner}

\* What the table's proofs assume of the constants.
LEMMA TableIsInstance == Jobs \subseteq Jobs /\ NoOwner \notin {Owner}
  BY TableAssumption

\* The two instances of the table are the same specification.
LEMMA OneTable == Table!Spec => Proved!Spec
  <1> USE DEF Table!NoToken, Proved!NoToken, Table!NoExpiry, Proved!NoExpiry,
              Table!Absent, Proved!Absent
  <1>1. Table!Init => Proved!Init
    BY DEF Table!Init, Proved!Init
  <1>2. [Table!Next]_(Table!vars) => [Proved!Next]_(Proved!vars)
    BY DEF Table!vars, Table!Next, Table!CreateImportJob, Table!ClaimImportJobById,
           Table!ClaimImportJob, Table!FinalizeUploads, Table!SucceedImportJob,
           Table!FailImportJob, Table!RetryImportJob, Table!Settle, Table!Tick,
           Table!Grant, Table!Claimed, Table!FinalizeExhausted, Table!Released,
           Table!HoldsLease, Table!Claimable, Table!Exhausted, Table!Expired,
           Proved!vars, Proved!Next, Proved!CreateImportJob, Proved!ClaimImportJobById,
           Proved!ClaimImportJob, Proved!FinalizeUploads, Proved!SucceedImportJob,
           Proved!FailImportJob, Proved!RetryImportJob, Proved!Settle, Proved!Tick,
           Proved!Grant, Proved!Claimed, Proved!FinalizeExhausted, Proved!Released,
           Proved!HoldsLease, Proved!Claimable, Proved!Exhausted, Proved!Expired
  <1> QED BY <1>1, <1>2, PTL DEF Table!Spec, Proved!Spec

\* And they count the same tokens of a job.
LEMMA OneTokens ==
  /\ \A S : Table!Cardinality(S) = Proved!Cardinality(S)
  /\ \A S : Table!Lifecycle!Cardinality(S) = Proved!Lifecycle!Cardinality(S)
  /\ \A j : Table!TokensOf(j) = Proved!TokensOf(j)
  BY DEF Table!TokensOf, Proved!TokensOf, Table!Cardinality, Proved!Cardinality,
         Table!Lifecycle!Cardinality, Proved!Lifecycle!Cardinality

\* Their states are judged alike.
LEMMA OneJudgement ==
  /\ Proved!LeaseColumns => Table!LeaseColumns
  /\ Proved!AttemptsCountLeases => Table!AttemptsCountLeases
  /\ Proved!SettledByNewestLease => Table!SettledByNewestLease
  /\ Proved!OutcomeHasACause => Table!OutcomeHasACause
  <1> USE OneTokens DEF Table!NoToken, Proved!NoToken, Table!NoExpiry, Proved!NoExpiry
  <1>1. Proved!LeaseColumns => Table!LeaseColumns
    BY DEF Table!LeaseColumns, Proved!LeaseColumns
  <1>2. Proved!AttemptsCountLeases => Table!AttemptsCountLeases
    BY DEF Table!AttemptsCountLeases, Proved!AttemptsCountLeases
  <1>3. Proved!SettledByNewestLease => Table!SettledByNewestLease
    BY DEF Table!SettledByNewestLease, Proved!SettledByNewestLease
  <1>4. Proved!OutcomeHasACause => Table!OutcomeHasACause
    BY DEF Table!OutcomeHasACause, Proved!OutcomeHasACause
  <1> QED BY <1>1, <1>2, <1>3, <1>4

\* And so are their steps.
LEMMA OneTakeover == Proved!TakenOverOnlyAfterExpiry => Table!TakenOverOnlyAfterExpiry
  <1> DEFINE Taken(j) == /\ jobs[j].status = "running"
                         /\ jobs'[j].status = "running"
                         /\ jobs'[j].leaseToken # jobs[j].leaseToken
  <1>1. [\A j \in Jobs : Taken(j) => Proved!Expired(j)]_(Proved!vars)
          => [\A j \in Jobs : Taken(j) => Table!Expired(j)]_(Table!vars)
    BY DEF Table!vars, Proved!vars, Table!Expired, Proved!Expired
  <1> QED BY <1>1, PTL DEF Table!TakenOverOnlyAfterExpiry, Proved!TakenOverOnlyAfterExpiry

LEMMA OneLifecycle == Proved!ImplementsLifecycle => Table!ImplementsLifecycle
  <1> USE DEF Table!NoToken, Proved!NoToken, Table!Lifecycle!Nobody, Proved!Lifecycle!Nobody
  <1>1. Proved!Lifecycle!Init => Table!Lifecycle!Init
    BY OneTokens DEF Table!Lifecycle!Init, Proved!Lifecycle!Init
  <1>2. \A j \in Jobs : /\ Table!TokensOf(j) = Proved!TokensOf(j)
                        /\ Table!TokensOf(j)' = Proved!TokensOf(j)'
    BY DEF Table!TokensOf, Proved!TokensOf
  <1>3. Proved!Lifecycle!Next => Table!Lifecycle!Next
    BY <1>2, OneTokens
       DEF Table!Lifecycle!Next, Table!Lifecycle!Create, Table!Lifecycle!Start,
           Table!Lifecycle!Report, Table!Lifecycle!GiveUp, Table!Lifecycle!Same,
           Proved!Lifecycle!Next, Proved!Lifecycle!Create, Proved!Lifecycle!Start,
           Proved!Lifecycle!Report, Proved!Lifecycle!GiveUp, Proved!Lifecycle!Same
  <1>4. UNCHANGED Proved!Lifecycle!vars => UNCHANGED Table!Lifecycle!vars
    BY <1>2 DEF Table!Lifecycle!vars, Proved!Lifecycle!vars
  <1> QED BY <1>1, <1>3, <1>4, PTL
          DEF Table!ImplementsLifecycle, Proved!ImplementsLifecycle,
              Table!Lifecycle!Spec, Proved!Lifecycle!Spec

\* Over crashes, duplicates and scans, the server's jobs live as JobLifecycle
\* says, under fenced leases, however many tasks work on one of them.
THEOREM ServersTableIsSound ==
  WorkersSpec =>
    /\ [](Table!LeaseColumns /\ Table!AttemptsCountLeases)
    /\ [](Table!SettledByNewestLease /\ Table!OutcomeHasACause)
    /\ Table!TakenOverOnlyAfterExpiry
    /\ Table!ImplementsLifecycle
  <1>1. Proved!Spec => []Proved!LeaseColumns
    BY TableAssumption, TableIsInstance, Proved!LeaseColumnsHold
  <1>2. Proved!Spec => []Proved!AttemptsCountLeases
    BY TableAssumption, TableIsInstance, Proved!AttemptsBounded
  <1>3. Proved!Spec => []Proved!SettledByNewestLease
    BY TableAssumption, TableIsInstance, Proved!Fencing
  <1>4. Proved!Spec => []Proved!OutcomeHasACause
    BY TableAssumption, TableIsInstance, Proved!OutcomesHaveCauses
  <1>5. Proved!Spec => Proved!TakenOverOnlyAfterExpiry
    BY TableAssumption, TableIsInstance, Proved!NoEarlyTakeover
  <1>6. Proved!Spec => Proved!ImplementsLifecycle
    BY TableAssumption, TableIsInstance, Proved!Implements
  <1>7. WorkersSpec => Table!Spec
    BY ServerUsesTheTable DEF UsesTheTable
  <1> QED BY <1>1, <1>2, <1>3, <1>4, <1>5, <1>6, <1>7,
             OneTable, OneJudgement, OneTakeover, OneLifecycle, PTL
=============================================================================
