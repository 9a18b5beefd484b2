--------------------------- MODULE EngineRuntime ---------------------------
(***************************************************************************)
(* The desktop application's EngineRuntime: requests wait in a queue, one  *)
(* at a time is written to an etyma-engine child process, and the child's  *)
(* next output line settles it.  The child may fail to start in four ways, *)
(* refuse a request it cannot decode, answer, or exit at any moment, with  *)
(* its last line cut short; resetEngineRuntime may replace the runtime at  *)
(* any moment, while the child it killed is still finishing.               *)
(* Each handler of the main process runs to its end before the next one,   *)
(* so each is one action.  Progress events are left out: they settle       *)
(* nothing.  Definitions marked "Fault" are not part of the specification: *)
(* each is a definition with one bug put in.                               *)
(***************************************************************************)
EXTENDS Naturals, Sequences

CONSTANTS
  Requests,    \* requests the application makes, each once
  Children,    \* child processes that may ever be spawned
  None         \* null

ASSUME NoneAssumption == None \notin Requests \cup Children

VARIABLES
  queue,       \* this.queue, requests not yet written
  active,      \* this.active, the request written and not settled, or None
  child,       \* this.child, or None
  stopping,    \* this.stopping
  partial,     \* whether this.stdoutBuffer holds a cut-off line
  heard,       \* children whose listeners belong to the present runtime
  proc,        \* what each child process is doing
  inbox,       \* requests each child has yet to read from its stdin
  outbox,      \* lines of each child's stdout not yet delivered
  outcome      \* how the promise of each request stands

runtime == <<queue, active, child, stopping, partial, heard>>
vars == <<queue, active, child, stopping, partial, heard, proc, inbox, outbox, outcome>>

\* "broken" has no streams, "stillborn" could not be executed; "exited" has
\* ended and "closed" was also announced by its close event.
ProcStates == {"unborn", "broken", "stillborn", "alive", "exited", "closed"}

Outcomes == {"new", "pending", "answered", "failed"}

\* A line carries the id of the request it answers; "refused" carries none,
\* and "torn" is cut off before its end.
LineKinds == {"ok", "error", "refused", "torn"}
Lines == [kind : LineKinds, id : Requests]

TypeOK ==
  /\ queue \in Seq(Requests)
  /\ active \in Requests \cup {None}
  /\ child \in Children \cup {None}
  /\ stopping \in BOOLEAN
  /\ partial \in BOOLEAN
  /\ heard \in SUBSET Children
  /\ proc \in [Children -> ProcStates]
  /\ inbox \in [Children -> Seq(Requests)]
  /\ outbox \in [Children -> Seq(Lines)]
  /\ outcome \in [Requests -> Outcomes]

Init ==
  /\ queue = << >>
  /\ active = None
  /\ child = None
  /\ stopping = FALSE
  /\ partial = FALSE
  /\ heard = {}
  /\ proc = [c \in Children |-> "unborn"]
  /\ inbox = [c \in Children |-> << >>]
  /\ outbox = [c \in Children |-> << >>]
  /\ outcome = [r \in Requests |-> "new"]

-----------------------------------------------------------------------------
(* What the handlers share.                                                *)

Queued == {queue[i] : i \in 1..Len(queue)}

Settle(r, result) == [outcome EXCEPT ![r] = result]

\* Fault: rejected requests get a state of their own that no caller knows.
FailedRuntimeAsStopped ==
  [r \in Requests |-> IF r = active \/ r \in Queued THEN "stopped" ELSE outcome[r]]

\* failRuntime: the active request and all the waiting ones are rejected.
FailedRuntime ==
  [r \in Requests |-> IF r = active \/ r \in Queued THEN "failed" ELSE outcome[r]]

FailRuntime ==
  /\ queue' = << >>
  /\ active' = None
  /\ outcome' = FailedRuntime

\* stop: the child is sent a signal and let go.
Stop ==
  /\ stopping' = TRUE
  /\ child' = None
  /\ FailRuntime

\* ensureStarted without a child.  A spawn that throws leaves no child; one
\* out of file descriptors leaves a child without streams and throws as well;
\* the error of a binary that cannot be executed comes later, as an event.
\* The application stops spawning when Children are used up.
SpawnThrows == UNCHANGED <<child, heard, proc>>

Spawns(c, state) ==
  /\ proc[c] = "unborn"
  /\ child' = c
  /\ proc' = [proc EXCEPT ![c] = state]

\* The head of `q` becomes active.  Only a running child will read it.
Written(q, c, o) ==
  /\ queue' = Tail(q)
  /\ active' = Head(q)
  /\ outcome' = o
  /\ inbox' = [inbox EXCEPT ![c] = IF proc'[c] = "alive" THEN Append(@, Head(q)) ELSE @]

\* Only the head of `q` is rejected; nothing is active.
Unstarted(q, o) ==
  /\ queue' = Tail(q)
  /\ active' = None
  /\ outcome' = [o EXCEPT ![Head(q)] = "failed"]
  /\ UNCHANGED inbox

\* A child without streams: the write throws and the whole queue is rejected.
Unwritable(q, o) ==
  /\ queue' = << >>
  /\ active' = None
  /\ outcome' = [r \in Requests |-> IF \E i \in 1..Len(q) : q[i] = r THEN "failed" ELSE o[r]]
  /\ UNCHANGED inbox

\* pump, when nothing is active, with queue q and promises o.  (A new child
\* also clears the buffer, which the callers do.)
Pump(q, o) ==
  \/ /\ q = << >>
     /\ queue' = q
     /\ active' = None
     /\ outcome' = o
     /\ UNCHANGED <<child, stopping, heard, proc, inbox>>
  \/ /\ q # << >>
     /\ child # None
     /\ UNCHANGED <<child, stopping, heard, proc>>
     /\ IF proc[child] = "broken" THEN Unwritable(q, o) ELSE Written(q, child, o)
  \/ /\ q # << >>
     /\ child = None
     /\ stopping' = FALSE
     /\ \/ SpawnThrows /\ Unstarted(q, o)
        \/ \E c \in Children : Spawns(c, "broken") /\ UNCHANGED heard /\ Unstarted(q, o)
        \/ \E c \in Children, state \in {"alive", "stillborn"} :
             Spawns(c, state) /\ heard' = heard \cup {c} /\ Written(q, c, o)

-----------------------------------------------------------------------------
(* The application.                                                        *)

Run(r) ==
  /\ outcome[r] = "new"
  /\ IF active # None
     THEN /\ queue' = Append(queue, r)
          /\ outcome' = Settle(r, "pending")
          /\ UNCHANGED <<active, child, stopping, partial, heard, proc, inbox>>
     ELSE /\ Pump(Append(queue, r), Settle(r, "pending"))
          /\ partial' = (partial /\ child' = child)
  /\ UNCHANGED outbox

\* Fault: the runtime is stopped but not replaced, so the listeners of the
\* killed child still reach the object the next command uses.
ResetInPlace ==
  /\ child # None \/ active # None
  /\ Stop
  /\ UNCHANGED <<partial, heard, proc, inbox, outbox>>

\* resetEngineRuntime: an import is cancelled, a chat is stopped, the binary
\* changed or the application quits.  The next command makes a new runtime.
Reset ==
  /\ child # None \/ active # None
  /\ child' = None
  /\ FailRuntime
  /\ stopping' = FALSE
  /\ partial' = FALSE
  /\ heard' = {}
  /\ UNCHANGED <<proc, inbox, outbox>>

-----------------------------------------------------------------------------
(* The child process: one request read, one line written.  A child that    *)
(* was sent a signal goes on until it exits.                               *)

Serve(c) ==
  /\ proc[c] = "alive"
  /\ inbox[c] # << >>
  /\ inbox' = [inbox EXCEPT ![c] = Tail(@)]
  /\ \E kind \in {"ok", "error", "refused"} :
       outbox' = [outbox EXCEPT ![c] = Append(@, [kind |-> kind, id |-> Head(inbox[c])])]
  /\ UNCHANGED <<runtime, proc, outcome>>

Exit(c) ==
  /\ proc[c] = "alive"
  /\ proc' = [proc EXCEPT ![c] = "exited"]
  /\ inbox' = [inbox EXCEPT ![c] = << >>]
  /\ \/ UNCHANGED outbox
     \/ /\ outbox[c] # << >>
        /\ outbox' = [outbox EXCEPT ![c][Len(outbox[c])].kind = "torn"]
  /\ UNCHANGED <<runtime, outcome>>

-----------------------------------------------------------------------------
(* Events of the child.                                                    *)

\* Fault: the request is settled but stays active.
CompleteActiveKept(result) ==
  /\ outcome' = Settle(active, result)
  /\ UNCHANGED <<queue, active, child, stopping, heard, proc, inbox>>

CompleteActive(result) == Pump(queue, Settle(active, result))

\* handleStdout and completeActive for one chunk.  A line that begins in the
\* rest of a torn one does not decode; the id of a refusal matches no request.
Hear(line) ==
  IF line.kind = "torn"
  THEN /\ partial' = TRUE
       /\ UNCHANGED <<queue, active, child, stopping, heard, proc, inbox, outcome>>
  ELSE /\ partial' = FALSE
       /\ IF active = None
          THEN UNCHANGED <<queue, active, child, stopping, heard, proc, inbox, outcome>>
          ELSE IF partial THEN CompleteActive("failed")
          ELSE IF line.kind = "refused" \/ line.id # active
          THEN Stop /\ UNCHANGED <<heard, proc, inbox>>
          ELSE CompleteActive(IF line.kind = "ok" THEN "answered" ELSE "failed")

Deliver(c) ==
  /\ outbox[c] # << >>
  /\ outbox' = [outbox EXCEPT ![c] = Tail(@)]
  /\ IF c \in heard
     THEN Hear(Head(outbox[c]))
     ELSE UNCHANGED <<runtime, proc, inbox, outcome>>

\* The error event of a binary that could not be executed.
Error(c) ==
  /\ proc[c] = "stillborn"
  /\ proc' = [proc EXCEPT ![c] = "exited"]
  /\ IF c \in heard /\ child = c
     THEN FailRuntime /\ UNCHANGED <<child, stopping, partial, heard>>
     ELSE UNCHANGED <<runtime, outcome>>
  /\ UNCHANGED <<inbox, outbox>>

\* Fault: the close event only drops the child.
CloseQuietly(c) ==
  /\ proc[c] = "exited"
  /\ outbox[c] = << >>
  /\ proc' = [proc EXCEPT ![c] = "closed"]
  /\ child' = IF child = c THEN None ELSE child
  /\ UNCHANGED <<queue, active, stopping, partial, heard, inbox, outbox, outcome>>

\* The close event follows the last line.
Close(c) ==
  /\ proc[c] = "exited"
  /\ outbox[c] = << >>
  /\ proc' = [proc EXCEPT ![c] = "closed"]
  /\ IF c \in heard /\ child = c
     THEN /\ child' = None
          /\ partial' = FALSE
          /\ IF stopping THEN UNCHANGED <<queue, active, outcome>> ELSE FailRuntime
     ELSE UNCHANGED <<queue, active, child, partial, outcome>>
  /\ UNCHANGED <<stopping, heard, inbox, outbox>>

Next ==
  \/ \E r \in Requests : Run(r)
  \/ Reset
  \/ \E c \in Children : \/ Serve(c)
                         \/ Exit(c)
                         \/ Deliver(c)
                         \/ Error(c)
                         \/ Close(c)

\* A running engine works through its stdin, answering every line it reads
\* unless it exits, and node delivers the output and the events of a child.
Fairness ==
  \A c \in Children : /\ WF_vars(Serve(c))
                      /\ WF_vars(Deliver(c))
                      /\ WF_vars(Error(c))
                      /\ WF_vars(Close(c))

Spec == Init /\ [][Next]_vars /\ Fairness

-----------------------------------------------------------------------------
(* Properties.                                                             *)

\* Whatever the children the runtime listens to have still to read or to
\* say is about the active request: the line that settles a request was
\* never written for an earlier one, over stops, exits and restarts.
OnlyActiveInFlight ==
  \A c \in heard :
    /\ c # child => inbox[c] = << >> /\ outbox[c] = << >>
    /\ Len(inbox[c]) + Len(outbox[c]) <= 1
    /\ inbox[c] # << >> => inbox[c][1] = active
    /\ outbox[c] # << >> => outbox[c][1].id = active

\* A promise is settled once: no later exit, stop or reset rejects a request
\* that was answered, or the other way round.
SettledStays ==
  [][\A r \in Requests :
       outcome[r] \in {"answered", "failed"} => outcome'[r] = outcome[r]]_vars

\* No request waits in the queue while nothing is active: only the settling
\* of an active request would ever write it.
NothingIsParked == queue # << >> => active # None

\* No caller waits for ever, whether the engine answers, refuses, exits or
\* cannot be started, and whatever was queued before or is reset meanwhile.
EveryRequestSettles ==
  \A r \in Requests : outcome[r] = "pending" ~> outcome[r] \in {"answered", "failed"}
=============================================================================
