--------------------------- MODULE LoginSessions ---------------------------
(***************************************************************************)
(* Human login to the cloud server: begin_login and finish_login of the    *)
(* OIDC service over the login states, users, identities, personal         *)
(* organizations and sessions of the control-plane store.                  *)
(* The provider may send the browser to the callback several times, with   *)
(* the same state, at once.  Each statement outside a transaction is one   *)
(* action; the transaction of upsert_oidc_identity is split where another  *)
(* one can be seen to have committed in between (READ COMMITTED).  A       *)
(* request may be dropped, and its transaction rolled back, at any await.  *)
(* Time only decides whether a state or a session has expired, so expiry   *)
(* is an action.  Definitions marked "Fault" are not part of the           *)
(* specification: each is a definition with one bug put in.                *)
(***************************************************************************)
EXTENDS Naturals, FiniteSets

CONSTANTS
  States,      \* login states, by the hash of their value
  Browsers,    \* browser bindings
  Callbacks,   \* callback requests; also names the user, the organization
               \* and the session a callback creates
  Identities,  \* (issuer, subject) pairs the provider vouches for
  Legacy,      \* those whose user was there before memberships
  None         \* NULL, or no row

ASSUME LegacyAssumption == Legacy \subseteq Identities
ASSUME NamesAssumption ==
  /\ Callbacks \cap Identities = {}
  /\ None \notin Callbacks \cup Identities \cup States \cup Browsers

\* A legacy user is named after the identity.
Users == Callbacks \cup Legacy

VARIABLES
  states,      \* control.oidc_login_states
  users,       \* ids in control.users
  userOf,      \* control.user_identities: the user of each identity, or None
  personal,    \* personal organizations each user owns
  inserting,   \* callback whose uncommitted row holds the unique key of
               \* each identity, or None
  sessions,    \* control.sessions
  callbacks    \* where each callback request is and what it knows

loginVars == <<states, users, userOf, personal, inserting, sessions, callbacks>>

StateRows == [status : {"absent", "issued", "consumed", "expired"}, browser : Browsers \cup {None}]
SessionRows == [status : {"absent", "live", "revoked", "expired"}, user : Users \cup {None}]

Stages == {"idle", "consumed", "profiled", "known", "orgless", "new", "inserted",
           "conflicted", "upserted", "done", "refused", "dropped"}

Requests == [stage : Stages, state : States \cup {None},
             identity : Identities \cup {None}, user : Users \cup {None}]

LoginTypeOK ==
  /\ states \in [States -> StateRows]
  /\ users \in SUBSET Users
  /\ userOf \in [Identities -> Users \cup {None}]
  /\ personal \in [Users -> SUBSET Callbacks]
  /\ inserting \in [Identities -> Callbacks \cup {None}]
  /\ sessions \in [Callbacks -> SessionRows]
  /\ callbacks \in [Callbacks -> Requests]

LoginInit ==
  /\ states = [s \in States |-> [status |-> "absent", browser |-> None]]
  /\ users = Legacy
  /\ userOf = [i \in Identities |-> IF i \in Legacy THEN i ELSE None]
  /\ personal = [u \in Users |-> {}]
  /\ inserting = [i \in Identities |-> None]
  /\ sessions = [c \in Callbacks |-> [status |-> "absent", user |-> None]]
  /\ callbacks = [c \in Callbacks |->
       [stage |-> "idle", state |-> None, identity |-> None, user |-> None]]

-----------------------------------------------------------------------------
(* The start of a login.                                                   *)

BeginLogin(s, b) ==
  /\ states[s].status = "absent"
  /\ states' = [states EXCEPT ![s] = [status |-> "issued", browser |-> b]]
  /\ UNCHANGED <<users, userOf, personal, inserting, sessions, callbacks>>

StateExpires(s) ==
  /\ states[s].status = "issued"
  /\ states' = [states EXCEPT ![s].status = "expired"]
  /\ UNCHANGED <<users, userOf, personal, inserting, sessions, callbacks>>

-----------------------------------------------------------------------------
(* finish_login.                                                           *)

At(c, stage) == callbacks[c].stage = stage

To(c, stage) == callbacks' = [callbacks EXCEPT ![c].stage = stage]

\* Fault: a state that was consumed is good until it expires.
RedeemableTwice(s, b) ==
  states[s].status \in {"issued", "consumed"} /\ states[s].browser = b

\* What the UPDATE that consumes a state asks of its row.
Redeemable(s, b) == states[s].status = "issued" /\ states[s].browser = b

\* The browser comes back from the provider with a state and its cookie.
Consume(c, s, b) ==
  /\ At(c, "idle")
  /\ IF Redeemable(s, b)
     THEN /\ states' = [states EXCEPT ![s].status = "consumed"]
          /\ callbacks' = [callbacks EXCEPT ![c].stage = "consumed", ![c].state = s]
     ELSE /\ To(c, "refused")
          /\ UNCHANGED states
  /\ UNCHANGED <<users, userOf, personal, inserting, sessions>>

\* The provider exchanges the code for a profile.  (That it may refuse is
\* Drop: the state stays consumed.)
Exchange(c, i) ==
  /\ At(c, "consumed")
  /\ callbacks' = [callbacks EXCEPT ![c].stage = "profiled", ![c].identity = i]
  /\ UNCHANGED <<states, users, userOf, personal, inserting, sessions>>

\* The transaction begins by looking for the identity.
FindIdentity(c) ==
  /\ At(c, "profiled")
  /\ LET u == userOf[callbacks[c].identity] IN
     callbacks' = [callbacks EXCEPT ![c].stage = IF u = None THEN "new" ELSE "known",
                                    ![c].user = u]
  /\ UNCHANGED <<states, users, userOf, personal, inserting, sessions>>

\* A known user: has it a personal organization?
FindPersonalOrg(c) ==
  /\ At(c, "known")
  /\ To(c, IF personal[callbacks[c].user] = {} THEN "orgless" ELSE "upserted")
  /\ UNCHANGED <<states, users, userOf, personal, inserting, sessions>>

\* If not it gets one, committed with the refreshed profile.
CommitMissingOrg(c) ==
  /\ At(c, "orgless")
  /\ personal' = [personal EXCEPT ![callbacks[c].user] = @ \cup {c}]
  /\ To(c, "upserted")
  /\ UNCHANGED <<states, users, userOf, inserting, sessions>>

\* A new user and its identity are inserted.  An uncommitted row with the
\* same key makes the INSERT wait; a committed one makes it do nothing.
InsertIdentity(c) ==
  LET i == callbacks[c].identity IN
  /\ At(c, "new")
  /\ inserting[i] = None
  /\ IF userOf[i] = None
     THEN /\ inserting' = [inserting EXCEPT ![i] = c]
          /\ To(c, "inserted")
     ELSE /\ To(c, "conflicted")
          /\ UNCHANGED inserting
  /\ UNCHANGED <<states, users, userOf, personal, sessions>>

\* The first login gets its personal organization and commits.
CommitFirstLogin(c) ==
  LET i == callbacks[c].identity IN
  /\ At(c, "inserted")
  /\ users' = users \cup {c}
  /\ userOf' = [userOf EXCEPT ![i] = c]
  /\ personal' = [personal EXCEPT ![c] = {c}]
  /\ inserting' = [inserting EXCEPT ![i] = None]
  /\ callbacks' = [callbacks EXCEPT ![c].stage = "upserted", ![c].user = c]
  /\ UNCHANGED <<states, sessions>>

\* Faults: the loser keeps the user it inserted; it gives the user an
\* organization as the winner did; it goes on as the user it deleted.
CommitConflictKeepingUser(c) ==
  /\ At(c, "conflicted")
  /\ users' = users \cup {c}
  /\ callbacks' = [callbacks EXCEPT ![c].stage = "upserted",
                                    ![c].user = userOf[callbacks[c].identity]]
  /\ UNCHANGED <<states, userOf, personal, inserting, sessions>>
CommitConflictWithOrg(c) ==
  LET u == userOf[callbacks[c].identity] IN
  /\ At(c, "conflicted")
  /\ personal' = [personal EXCEPT ![u] = @ \cup {c}]
  /\ callbacks' = [callbacks EXCEPT ![c].stage = "upserted", ![c].user = u]
  /\ UNCHANGED <<states, users, userOf, inserting, sessions>>

CommitConflictAsLoser(c) ==
  /\ At(c, "conflicted")
  /\ callbacks' = [callbacks EXCEPT ![c].stage = "upserted", ![c].user = c]
  /\ UNCHANGED <<states, users, userOf, personal, inserting, sessions>>

\* The login that lost the race deletes the user it inserted before anyone
\* saw it, and goes on as the winner's user.
CommitConflict(c) ==
  /\ At(c, "conflicted")
  /\ callbacks' = [callbacks EXCEPT ![c].stage = "upserted",
                                    ![c].user = userOf[callbacks[c].identity]]
  /\ UNCHANGED <<states, users, userOf, personal, inserting, sessions>>

\* create_session, a statement of its own after the commit.
CreateSession(c) ==
  /\ At(c, "upserted")
  /\ sessions' = [sessions EXCEPT ![c] = [status |-> "live", user |-> callbacks[c].user]]
  /\ To(c, "done")
  /\ UNCHANGED <<states, users, userOf, personal, inserting>>

\* The request ends early: the provider or the database fails, the client
\* goes away or the server stops.  An open transaction is rolled back.
Drop(c) ==
  /\ callbacks[c].stage \notin {"idle", "done", "refused", "dropped"}
  /\ To(c, "dropped")
  /\ inserting' = [i \in Identities |-> IF inserting[i] = c THEN None ELSE inserting[i]]
  /\ UNCHANGED <<states, users, userOf, personal, sessions>>

-----------------------------------------------------------------------------
(* The end of a session.                                                   *)

Logout(c) ==
  /\ sessions[c].status = "live"
  /\ sessions' = [sessions EXCEPT ![c].status = "revoked"]
  /\ UNCHANGED <<states, users, userOf, personal, inserting, callbacks>>

SessionExpires(c) ==
  /\ sessions[c].status = "live"
  /\ sessions' = [sessions EXCEPT ![c].status = "expired"]
  /\ UNCHANGED <<states, users, userOf, personal, inserting, callbacks>>

\* What finish_login does by itself once its state is consumed.
Advance(c) ==
  \/ \E i \in Identities : Exchange(c, i)
  \/ FindIdentity(c)
  \/ FindPersonalOrg(c)
  \/ CommitMissingOrg(c)
  \/ InsertIdentity(c)
  \/ CommitFirstLogin(c)
  \/ CommitConflict(c)
  \/ CreateSession(c)

LoginNext ==
  \/ \E s \in States, b \in Browsers : BeginLogin(s, b)
  \/ \E s \in States : StateExpires(s)
  \/ \E c \in Callbacks :
       \/ \E s \in States, b \in Browsers : Consume(c, s, b)
       \/ Advance(c)
       \/ Drop(c)
       \/ Logout(c)
       \/ SessionExpires(c)

LoginSpec == LoginInit /\ [][LoginNext]_loginVars

-----------------------------------------------------------------------------
(* Properties.                                                             *)

\* A login state opens one session at most, however often and however
\* concurrently the browser is sent to the callback with it.
StateOpensOneSession ==
  \A c, d \in Callbacks :
    /\ c # d
    /\ sessions[c].status # "absent"
    /\ sessions[d].status # "absent"
    => callbacks[c].state # callbacks[d].state

\* Users and identities stay one to one over concurrent first logins and
\* requests dropped half way: no user is left that nobody can log in as.
UsersAreIdentified ==
  /\ \A u \in users : \E i \in Identities : userOf[i] = u
  /\ \A i \in Identities : userOf[i] # None => userOf[i] \in users
  /\ \A i, k \in Identities : userOf[i] = userOf[k] /\ userOf[i] # None => i = k

\* Concurrent first logins of an identity converge on one personal
\* organization, and later logins do not add to it.  (A legacy user without
\* one may get several: each login looks before any of them has committed.)
FirstLoginsConverge ==
  \A i \in Identities \ Legacy :
    userOf[i] # None => Cardinality(personal[userOf[i]]) = 1

\* Whoever won the race, a session is for the user of the identity that the
\* provider vouched for in that very callback.
SessionsAreVouchedFor ==
  \A c \in Callbacks : sessions[c].status # "absent" =>
    /\ sessions[c].user \in users
    /\ userOf[callbacks[c].identity] = sessions[c].user
=============================================================================
