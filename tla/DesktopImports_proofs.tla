----------------------- MODULE DesktopImports_proofs -----------------------
(***************************************************************************)
(* Proofs about DesktopImports.  A promise that is rejected fails the job  *)
(* that is active, whichever that is; what makes this harmless is that no  *)
(* handler outlives its job.  The inductive invariant says so, and that    *)
(* the status of the active job follows from what it is waiting for.       *)
(***************************************************************************)
EXTENDS DesktopImports, TLAPS

Job == [id : Jobs, status : Statuses]

\* A job has one request in the runtime, and only while its handler waits.
OneRequestEach ==
  /\ \A j \in Jobs : j \in ToSet(runtime) => waits[j] # None
  /\ \A i, k \in 1..Len(runtime) : runtime[i] = runtime[k] /\ runtime[i] \in Jobs => i = k

\* Only jobs that began have left traces.
OnlyBegun ==
  /\ activeJob # None => activeJob.id <= begun
  /\ \A j \in Jobs : j \in ToSet(rebuilds) => j <= begun
  /\ \A j \in Jobs : j > begun => shown[j] = None

\* The status of the active job, and that the user has seen it.
StatusFollows ==
  activeJob # None =>
    LET w == waits[activeJob.id] IN
    /\ shown[activeJob.id] = activeJob.status
    /\ w = None => activeJob.status = "citation_ready"
    /\ w = "refused" => activeJob.status = "failed"
    /\ w \notin {None, "refused"} => activeJob.status \in {"imported", "parsing", "packaging"}

IInv == /\ TypeOK
        /\ ActiveJobIsWorkedOn
        /\ OneRequestEach
        /\ OnlyBegun
        /\ StatusFollows
        /\ rebuilding => rebuilds # << >>

-----------------------------------------------------------------------------
(* Queues.                                                                 *)

\* No job has two requests in q.
Distinct(q) == \A i, k \in 1..Len(q) : q[i] = q[k] /\ q[i] \in Jobs => i = k

LEMMA EmptyQueue == ToSet(<< >>) = {} /\ Distinct(<< >>) /\ Len(<< >>) = 0
<1>1. Len(<< >>) = 0
  OBVIOUS
<1> QED
  BY <1>1 DEF ToSet, Distinct

LEMMA SingleQueue ==
  ASSUME NEW C, NEW c \in C
  PROVE  <<c>> \in Seq(C) /\ ToSet(<<c>>) = {c} /\ Distinct(<<c>>)
  BY DEF ToSet, Distinct

LEMMA LongerQueue ==
  ASSUME NEW C, NEW q \in Seq(C), NEW c \in C
  PROVE  /\ Append(q, c) \in Seq(C)
         /\ ToSet(Append(q, c)) = ToSet(q) \cup {c}
         /\ Distinct(q) /\ (c \in Jobs => c \notin ToSet(q)) => Distinct(Append(q, c))
<1>1. /\ Append(q, c) \in Seq(C)
      /\ Len(Append(q, c)) = Len(q) + 1
      /\ \A i \in 1..Len(q) : Append(q, c)[i] = q[i]
      /\ Append(q, c)[Len(q) + 1] = c
  OBVIOUS
<1>2. DOMAIN Append(q, c) = 1..(Len(q) + 1) /\ DOMAIN q = 1..Len(q) /\ Len(q) \in Nat
  OBVIOUS
<1>3. ToSet(Append(q, c)) = ToSet(q) \cup {c}
  BY <1>1, <1>2 DEF ToSet
<1>4. ASSUME Distinct(q), c \in Jobs => c \notin ToSet(q),
             NEW i \in 1..Len(Append(q, c)), NEW k \in 1..Len(Append(q, c)),
             Append(q, c)[i] = Append(q, c)[k], Append(q, c)[i] \in Jobs
      PROVE  i = k
  <2>1. CASE i \in 1..Len(q) /\ k \in 1..Len(q)
    BY <2>1, <1>1, <1>4 DEF Distinct
  <2>2. CASE i \in 1..Len(q) /\ k = Len(q) + 1
    BY <2>2, <1>1, <1>2, <1>4 DEF ToSet
  <2>3. CASE i = Len(q) + 1 /\ k \in 1..Len(q)
    BY <2>3, <1>1, <1>2, <1>4 DEF ToSet
  <2>4. CASE i = Len(q) + 1 /\ k = Len(q) + 1
    BY <2>4
  <2> QED
    BY <2>1, <2>2, <2>3, <2>4, <1>1, <1>2
<1> QED
  BY <1>1, <1>3, <1>4 DEF Distinct

LEMMA ShorterQueue ==
  ASSUME NEW C, NEW q \in Seq(C), q # << >>
  PROVE  /\ Tail(q) \in Seq(C)
         /\ Head(q) \in C
         /\ ToSet(q) = ToSet(Tail(q)) \cup {Head(q)}
         /\ Distinct(q) => Distinct(Tail(q))
         /\ Distinct(q) /\ Head(q) \in Jobs => Head(q) \notin ToSet(Tail(q))
<1>1. /\ Tail(q) \in Seq(C)
      /\ Head(q) = q[1]
      /\ Len(q) \in Nat /\ Len(q) >= 1
      /\ Len(Tail(q)) = Len(q) - 1
      /\ \A i \in 1..Len(Tail(q)) : Tail(q)[i] = q[i + 1]
      /\ DOMAIN q = 1..Len(q) /\ DOMAIN Tail(q) = 1..Len(Tail(q))
      /\ q[1] \in C
  OBVIOUS
<1>2. ToSet(q) \subseteq ToSet(Tail(q)) \cup {Head(q)}
  <2> SUFFICES ASSUME NEW i \in 1..Len(q) PROVE q[i] \in ToSet(Tail(q)) \cup {Head(q)}
    BY <1>1 DEF ToSet
  <2>1. CASE i = 1
    BY <2>1, <1>1
  <2>2. CASE i # 1
    <3>1. i - 1 \in 1..Len(Tail(q)) /\ (i - 1) + 1 = i
      BY <2>2, <1>1
    <3> QED
      BY <3>1, <1>1 DEF ToSet
  <2> QED
    BY <2>1, <2>2
<1>3. ToSet(Tail(q)) \cup {Head(q)} \subseteq ToSet(q)
  <2>1. \A i \in 1..Len(Tail(q)) : i + 1 \in 1..Len(q)
    BY <1>1
  <2> QED
    BY <1>1, <2>1 DEF ToSet
<1>4. ASSUME Distinct(q), NEW i \in 1..Len(Tail(q)), NEW k \in 1..Len(Tail(q)),
             Tail(q)[i] = Tail(q)[k], Tail(q)[i] \in Jobs
      PROVE  i = k
  <2>1. i + 1 \in 1..Len(q) /\ k + 1 \in 1..Len(q)
    BY <1>1
  <2>2. i + 1 = k + 1
    BY <2>1, <1>1, <1>4 DEF Distinct
  <2> QED
    BY <2>2
<1>5. ASSUME Distinct(q), Head(q) \in Jobs, NEW i \in 1..Len(Tail(q)), Tail(q)[i] = Head(q)
      PROVE  FALSE
  <2>1. 1 \in 1..Len(q) /\ i + 1 \in 1..Len(q) /\ i + 1 # 1
    BY <1>1
  <2> QED
    BY <2>1, <1>1, <1>5 DEF Distinct
<1> QED
  BY <1>1, <1>2, <1>3, <1>4, <1>5 DEF Distinct, ToSet

-----------------------------------------------------------------------------
(* Handlers, requests and the active job.                                  *)

Waits == [Jobs -> Requests \cup {None}]
Queues == Seq(Jobs \cup Chats)
ChatStates == [Chats -> {"idle", "scheduled", "asked", "ended"}]
Shown == [Jobs -> Statuses \cup {None}]

\* Handlers w, requests q and the active job agree.
Fits(w, q, job) ==
  /\ \A j \in Jobs : w[j] # None => job # None /\ job.id = j /\ j \in ToSet(q)
  /\ \A j \in Jobs : j \in ToSet(q) => w[j] # None
  /\ Distinct(q)

\* The same before the request of `caller` is added to q.
FitsBut(caller, w, q, job) ==
  /\ \A j \in Jobs : w[j] # None => job # None /\ job.id = j /\ (j \in ToSet(q) \/ j = caller)
  /\ \A j \in Jobs : j \in ToSet(q) => w[j] # None
  /\ Distinct(q)
  /\ caller \in Jobs => w[caller] # None /\ caller \notin ToSet(q)

LEMMA InvFits ==
  ActiveJobIsWorkedOn /\ OneRequestEach <=>
    /\ Fits(waits, runtime, activeJob)
    /\ activeJob # None => ((waits[activeJob.id] = None) <=> (activeJob.id \in ToSet(rebuilds)))
BY DEF ActiveJobIsWorkedOn, OneRequestEach, Fits, Distinct, IsActive

LEMMA PublishedType ==
  ASSUME shown \in Shown, NEW job \in Job \cup {None}
  PROVE  /\ Published(job) \in Shown
         /\ job # None => /\ Published(job)[job.id] = job.status
                          /\ \A j \in Jobs : j # job.id => Published(job)[j] = shown[j]
         /\ job = None => Published(job) = shown
BY DEF Published, Shown, Job

LEMMA MarkedType ==
  ASSUME activeJob \in Job \cup {None}, NEW status \in Statuses
  PROVE  /\ Marked(status) \in Job \cup {None}
         /\ activeJob = None => Marked(status) = None
         /\ activeJob # None => /\ Marked(status) \in Job
                                /\ Marked(status) # None
                                /\ Marked(status).id = activeJob.id
                                /\ Marked(status).status = status
BY NoneAssumption DEF Marked, Job

\* The runtime is reset: either no import waited for it, or the import that
\* did was the active job, which fails.
LEMMA AllRejected ==
  ASSUME NEW w \in Waits, NEW q \in Queues, NEW ch \in ChatStates, NEW job \in Job \cup {None},
         NEW caller, shown \in Shown, FitsBut(caller, w, q, job), Reject(ToSet(q), w, ch, job)
  PROVE  /\ waits' \in Waits /\ chats' \in ChatStates /\ shown' \in Shown
         /\ activeJob' \in Job \cup {None}
         /\ \/ /\ ToSet(q) \cap Jobs = {}
               /\ activeJob' = job /\ waits' = w /\ shown' = Published(job)
            \/ /\ caller \notin Jobs /\ job # None
               /\ activeJob' = None /\ shown' = [shown EXCEPT ![job.id] = "failed"]
               /\ \A j \in Jobs : waits'[j] = None
<1>1. waits' \in Waits /\ chats' \in ChatStates
  BY DEF Reject, WaitsWithout, ChatsWithout, Waits, ChatStates
<1>2. CASE ToSet(q) \cap Jobs = {}
  <2>1. waits' = w
    BY <1>2 DEF Reject, WaitsWithout, Waits
  <2>2. activeJob' = job /\ shown' = Published(job)
    BY <1>2 DEF Reject
  <2> QED
    BY <1>1, <1>2, <2>1, <2>2, PublishedType
<1>3. CASE ToSet(q) \cap Jobs # {}
  <2>1. PICK k \in Jobs : k \in ToSet(q)
    BY <1>3
  <2>2. job # None /\ job.id = k /\ w[k] # None
    BY <2>1 DEF FitsBut
  <2>3. caller \notin Jobs
    BY <2>1, <2>2 DEF FitsBut
  <2>4. activeJob' = None /\ shown' = [shown EXCEPT ![job.id] = "failed"]
    BY <1>3, <2>2 DEF Reject
  <2>5. shown' \in Shown
    BY <2>2, <2>4 DEF Shown, Statuses
  <2>6. \A j \in Jobs : waits'[j] = None
    BY <2>3 DEF FitsBut, Reject, WaitsWithout
  <2> QED
    BY <1>1, <2>2, <2>3, <2>4, <2>5, <2>6
<1> QED
  BY <1>2, <1>3

\* A command is submitted: the same two cases, and what waits fits again.
LEMMA Submitted ==
  ASSUME NEW w \in Waits, NEW q \in Queues, NEW ch \in ChatStates, NEW job \in Job \cup {None},
         NEW caller \in Jobs \cup Chats, shown \in Shown, FitsBut(caller, w, q, job),
         Submit(caller, q, w, ch, job)
  PROVE  /\ waits' \in Waits /\ chats' \in ChatStates /\ shown' \in Shown
         /\ activeJob' \in Job \cup {None} /\ runtime' \in Queues
         /\ Fits(waits', runtime', activeJob')
         /\ \/ activeJob' = job /\ waits' = w /\ shown' = Published(job)
            \/ /\ caller \notin Jobs /\ job # None
               /\ activeJob' = None /\ shown' = [shown EXCEPT ![job.id] = "failed"]
               /\ \A j \in Jobs : waits'[j] = None
<1>1. CASE /\ runtime' = Append(q, caller)
           /\ waits' = w /\ chats' = ch /\ activeJob' = job /\ shown' = Published(job)
  <2>1. runtime' \in Queues /\ ToSet(runtime') = ToSet(q) \cup {caller} /\ Distinct(runtime')
    BY <1>1, LongerQueue DEF Queues, FitsBut
  <2>2. Fits(w, runtime', job)
    BY <2>1 DEF Fits, FitsBut
  <2> QED
    BY <1>1, <2>1, <2>2, PublishedType
<1>2. CASE runtime' = <<caller>> /\ Reject(ToSet(q), w, ch, job)
  <2>1. runtime' \in Queues /\ ToSet(runtime') = {caller} /\ Distinct(runtime')
    BY <1>2, SingleQueue DEF Queues
  <2>2. /\ waits' \in Waits /\ chats' \in ChatStates /\ shown' \in Shown
        /\ activeJob' \in Job \cup {None}
        /\ \/ /\ ToSet(q) \cap Jobs = {}
              /\ activeJob' = job /\ waits' = w /\ shown' = Published(job)
           \/ /\ caller \notin Jobs /\ job # None
              /\ activeJob' = None /\ shown' = [shown EXCEPT ![job.id] = "failed"]
              /\ \A j \in Jobs : waits'[j] = None
    BY <1>2, AllRejected
  <2>3. Fits(waits', runtime', activeJob')
    BY <2>1, <2>2 DEF Fits, FitsBut
  <2> QED
    BY <2>1, <2>2, <2>3
<1> QED
  BY <1>1, <1>2 DEF Submit

-----------------------------------------------------------------------------
(* The invariant holds at first.                                           *)

TypesAre ==
  /\ activeJob \in Job \cup {None} /\ begun \in 0..MaxJobs /\ waits \in Waits
  /\ runtime \in Queues /\ rebuilds \in Seq(Jobs \cup {None}) /\ rebuilding \in BOOLEAN
  /\ manifest \in BOOLEAN /\ chats \in ChatStates /\ shown \in Shown

LEMMA Types == TypeOK <=> TypesAre
BY DEF TypeOK, TypesAre, Job, Waits, Queues, ChatStates, Shown

LEMMA InitIInv == Init => IInv
<1> SUFFICES ASSUME Init PROVE IInv
  OBVIOUS
<1>1. TypeOK
  <2>1. 0 \in 0..MaxJobs /\ FALSE \in BOOLEAN
    BY MaxJobsAssumption
  <2>2. << >> \in Seq(Jobs \cup Chats) /\ << >> \in Seq(Jobs \cup {None})
    OBVIOUS
  <2>3. /\ [j \in Jobs |-> None] \in [Jobs -> Requests \cup {None}]
        /\ [j \in Jobs |-> None] \in [Jobs -> Statuses \cup {None}]
        /\ [c \in Chats |-> "idle"] \in [Chats -> {"idle", "scheduled", "asked", "ended"}]
    OBVIOUS
  <2> QED
    BY <2>1, <2>2, <2>3 DEF Init, TypeOK
<1>2. ActiveJobIsWorkedOn /\ OneRequestEach
  BY EmptyQueue DEF Init, ActiveJobIsWorkedOn, OneRequestEach
<1>3. OnlyBegun /\ StatusFollows
  BY EmptyQueue DEF Init, OnlyBegun, StatusFollows
<1> QED
  BY <1>1, <1>2, <1>3 DEF IInv, Init

-----------------------------------------------------------------------------
(* Preservation.  What a step does to the active job is one of four        *)
(* things; each keeps the clauses about jobs, statuses and rebuilds.       *)

\* The clauses of the invariant that are about the active job.
JobClauses ==
  /\ activeJob # None => ((waits[activeJob.id] = None) <=> (activeJob.id \in ToSet(rebuilds)))
  /\ OnlyBegun
  /\ StatusFollows

LEMMA IInvParts ==
  IInv <=> /\ TypesAre
           /\ Fits(waits, runtime, activeJob)
           /\ JobClauses
           /\ rebuilding => rebuilds # << >>
BY Types, InvFits DEF IInv, JobClauses

LEMMA IInvPartsNext ==
  ASSUME TypesAre', Fits(waits', runtime', activeJob'), JobClauses',
         rebuilding' => rebuilds' # << >>
  PROVE  IInv'
<1>1. TypeOK'
  BY DEF TypeOK, TypesAre, Job, Waits, Queues, ChatStates, Shown
<1>2. ActiveJobIsWorkedOn' /\ OneRequestEach'
  BY DEF ActiveJobIsWorkedOn, OneRequestEach, Fits, Distinct, IsActive, JobClauses
<1> QED
  BY <1>1, <1>2 DEF IInv, JobClauses

\* There is no active job any more.
LEMMA JobLet ==
  ASSUME IInv, TypesAre', activeJob' = None, begun' = begun,
         ToSet(rebuilds)' \subseteq ToSet(rebuilds),
         \/ shown' = shown
         \/ activeJob # None /\ \E status \in Statuses :
              shown' = [shown EXCEPT ![activeJob.id] = status]
  PROVE  JobClauses'
<1>1. OnlyBegun /\ TypesAre
  BY Types DEF IInv
<1>2. \A j \in Jobs : j > begun => shown'[j] = None
  BY <1>1 DEF OnlyBegun, TypesAre, Job, Jobs, Shown
<1>3. OnlyBegun'
  BY <1>1, <1>2 DEF OnlyBegun
<1> QED
  BY <1>3 DEF JobClauses, StatusFollows

\* The active job and what it waits for stay.
LEMMA JobStays ==
  ASSUME IInv, activeJob' = activeJob, waits' = waits, shown' = Published(activeJob),
         begun' = begun, ToSet(rebuilds)' = ToSet(rebuilds)
  PROVE  JobClauses' /\ shown' = shown
<1>1. TypesAre /\ JobClauses
  BY IInvParts
<1>2. shown' = shown
  BY <1>1 DEF Published, TypesAre, Job, Shown, JobClauses, StatusFollows
<1> QED
  BY <1>1, <1>2 DEF JobClauses, OnlyBegun, StatusFollows

\* The active job is marked, and its handler goes on to wait for `request`.
LEMMA JobGoesOn ==
  ASSUME IInv, activeJob # None, NEW request \in Requests, NEW status \in Statuses,
         waits[activeJob.id] # None,
         activeJob' = [activeJob EXCEPT !.status = status],
         waits' = [waits EXCEPT ![activeJob.id] = request],
         shown' = Published(activeJob'),
         IF request = "refused" THEN status = "failed"
         ELSE status \in {"imported", "parsing", "packaging"},
         begun' = begun, rebuilds' = rebuilds
  PROVE  JobClauses'
<1>1. TypesAre /\ JobClauses
  BY IInvParts
<1>2. /\ activeJob' \in Job /\ activeJob'.id = activeJob.id /\ activeJob'.status = status
      /\ activeJob' # None /\ activeJob.id \in Jobs
  BY <1>1, NoneAssumption DEF TypesAre, Job
<1>3. waits'[activeJob.id] = request /\ request # None
  BY <1>1, <1>2, NoneAssumption DEF TypesAre, Waits
<1>4. shown'[activeJob.id] = status /\ \A j \in Jobs : j # activeJob.id => shown'[j] = shown[j]
  BY <1>1, <1>2, PublishedType DEF TypesAre
<1>5. OnlyBegun'
  BY <1>1, <1>2, <1>4 DEF JobClauses, OnlyBegun, TypesAre, Jobs
<1>6. StatusFollows'
  BY <1>2, <1>3, <1>4 DEF StatusFollows
<1> QED
  BY <1>1, <1>2, <1>3, <1>5, <1>6 DEF JobClauses

\* What the step shows the user of each job is in keeping with what was shown.
Keeping ==
  \A j \in Jobs :
    /\ shown[j] \in {"context_ready", "failed"} => shown'[j] = shown[j]
    /\ shown[j] = "citation_ready" => shown'[j] \in {"citation_ready", "context_ready", "failed"}

LEMMA Kept ==
  ASSUME IInv,
         \A j \in Jobs : shown'[j] = shown[j] \/ shown[j] = None \/ IsActive(j),
         activeJob # None =>
           \/ shown'[activeJob.id] \in {activeJob.status, "failed"}
           \/ activeJob.status = "citation_ready" /\ shown'[activeJob.id] = "context_ready"
           \/ activeJob.status \in {"imported", "parsing", "packaging"}
  PROVE  Keeping
<1> SUFFICES ASSUME NEW j \in Jobs
             PROVE  /\ shown[j] \in {"context_ready", "failed"} => shown'[j] = shown[j]
                    /\ shown[j] = "citation_ready" =>
                         shown'[j] \in {"citation_ready", "context_ready", "failed"}
  BY DEF Keeping
<1>1. CASE IsActive(j)
  <2>1. shown[j] = activeJob.status /\ activeJob.status # "context_ready"
    BY <1>1 DEF IInv, StatusFollows, IsActive
  <2> QED
    BY <1>1, <2>1 DEF IsActive
<1>2. CASE ~IsActive(j)
  BY <1>2, NoneAssumption DEF Statuses
<1> QED
  BY <1>1, <1>2

LEMMA KeptSame == ASSUME IInv, shown' = shown PROVE Keeping
BY DEF Keeping

LEMMA KeptFailing ==
  ASSUME IInv, activeJob # None, shown' = [shown EXCEPT ![activeJob.id] = "failed"]
  PROVE  Keeping
<1>1. TypesAre
  BY IInvParts
<1>2. activeJob.id \in Jobs
  BY <1>1 DEF TypesAre, Job
<1> QED
  BY <1>1, <1>2, Kept DEF TypesAre, Shown, IsActive

\* The step leads to the invariant and keeps what was shown.
Good == IInv' /\ Keeping

\* A caller's request is answered: it is the active job's, and no other job
\* has one.
LEMMA AtHead ==
  ASSUME IInv, NEW j \in Jobs, NEW R, R \subseteq Requests, Answered(j, R)
  PROVE  /\ activeJob # None /\ activeJob \in Job /\ activeJob.id = j
         /\ waits[j] \in R /\ waits[j] # None /\ j \notin ToSet(rebuilds)
         /\ \A k \in Jobs : k # j => waits[k] = None
         /\ Tail(runtime) \in Queues /\ Distinct(Tail(runtime))
         /\ \A k \in Jobs : k \notin ToSet(Tail(runtime))
<1>1. TypesAre /\ Fits(waits, runtime, activeJob) /\ JobClauses
  BY IInvParts
<1>2. waits[j] \in R /\ waits[j] # None /\ Head(runtime) = j /\ runtime # << >>
  BY NoneAssumption DEF Answered
<1>3. activeJob # None /\ activeJob \in Job /\ activeJob.id = j
  BY <1>1, <1>2 DEF Fits, TypesAre
<1>4. \A k \in Jobs : k # j => waits[k] = None
  BY <1>1, <1>3 DEF Fits
<1>5. /\ Tail(runtime) \in Queues /\ Distinct(Tail(runtime))
      /\ ToSet(runtime) = ToSet(Tail(runtime)) \cup {j} /\ j \notin ToSet(Tail(runtime))
  BY <1>1, <1>2, ShorterQueue DEF TypesAre, Queues, Fits
<1>6. \A k \in Jobs : k \notin ToSet(Tail(runtime))
  BY <1>1, <1>4, <1>5 DEF Fits
<1> QED
  BY <1>1, <1>2, <1>3, <1>4, <1>5, <1>6 DEF JobClauses

LEMMA BeginGood ==
  ASSUME IInv, NEW request \in {"parse", "reparse"}, Begin(request)
  PROVE  Good
<1> DEFINE job == [id |-> begun + 1, status |-> "imported"]
           w == [waits EXCEPT ![begun + 1] = request]
<1>1. TypesAre /\ Fits(waits, runtime, activeJob) /\ JobClauses /\ (rebuilding => rebuilds # << >>)
  BY IInvParts
<1>2. /\ begun + 1 \in Jobs /\ begun' = begun + 1 /\ activeJob = None
      /\ job \in Job /\ w \in Waits /\ request \in Requests
  BY <1>1, MaxJobsAssumption DEF Begin, TypesAre, Jobs, Job, Waits, Statuses, Requests
<1>3. /\ w[begun + 1] = request /\ request # None /\ job # None
      /\ \A j \in Jobs : waits[j] = None /\ j \notin ToSet(runtime)
  BY <1>1, <1>2, NoneAssumption DEF TypesAre, Waits, Fits, Job
<1>4. FitsBut(begun + 1, w, runtime, job)
  BY <1>1, <1>2, <1>3 DEF FitsBut, Fits, TypesAre, Waits
<1>5. Submit(begun + 1, runtime, w, chats, job)
  BY <1>2 DEF Begin, Ask
<1>6. /\ waits' \in Waits /\ chats' \in ChatStates /\ shown' \in Shown
      /\ activeJob' \in Job \cup {None} /\ runtime' \in Queues
      /\ Fits(waits', runtime', activeJob')
      /\ activeJob' = job /\ waits' = w /\ shown' = Published(job)
  <2> HIDE DEF job, w
  <2> QED
    BY <1>1, <1>2, <1>4, <1>5, Submitted DEF TypesAre
<1>7. UNCHANGED <<rebuilds, rebuilding, manifest>>
  BY DEF Begin
<1>8. /\ shown'[begun + 1] = "imported" /\ shown[begun + 1] = None
      /\ \A j \in Jobs : j # begun + 1 => shown'[j] = shown[j]
  <2>1. job.id = begun + 1 /\ job.status = "imported"
    OBVIOUS
  <2>2. shown[begun + 1] = None
    BY <1>1, <1>2 DEF JobClauses, OnlyBegun, TypesAre
  <2> HIDE DEF job
  <2> QED
    BY <1>1, <1>2, <1>3, <1>6, <2>1, <2>2, PublishedType DEF TypesAre
<1>9. JobClauses'
  <2>1. OnlyBegun'
    BY <1>1, <1>2, <1>6, <1>7, <1>8 DEF JobClauses, OnlyBegun, TypesAre, Jobs
  <2>2. StatusFollows'
    BY <1>2, <1>3, <1>6, <1>8 DEF StatusFollows
  <2>3. begun + 1 \notin ToSet(rebuilds)
    BY <1>1, <1>2 DEF JobClauses, OnlyBegun, TypesAre
  <2> QED
    BY <1>2, <1>3, <1>6, <1>7, <2>1, <2>2, <2>3 DEF JobClauses
<1>10. TypesAre'
  BY <1>1, <1>2, <1>6, <1>7 DEF TypesAre, Jobs
<1>11. Keeping
  BY <1>2, <1>8, Kept
<1> QED
  BY <1>1, <1>6, <1>7, <1>9, <1>10, <1>11, IInvPartsNext DEF Good

LEMMA CancelGood ==
  ASSUME IInv, CancelParse
  PROVE  Good
<1>1. TypesAre /\ Fits(waits, runtime, activeJob) /\ JobClauses /\ (rebuilding => rebuilds # << >>)
  BY IInvParts
<1>2. activeJob # None /\ activeJob \in Job
  BY <1>1 DEF CancelParse, TypesAre
<1>3. shown' = [shown EXCEPT ![activeJob.id] = "failed"] /\ shown' \in Shown
  <2>1. Marked("failed").id = activeJob.id /\ Marked("failed").status = "failed" /\ Marked("failed") # None
    BY <1>2, MarkedType DEF Statuses
  <2> QED
    BY <1>1, <1>2, <2>1 DEF CancelParse, Published, TypesAre, Shown, Statuses, Job
<1>4. \A j \in Jobs : waits'[j] = None
  BY <1>1 DEF CancelParse, WaitsWithout, Fits
<1>5. /\ waits' \in Waits /\ chats' \in ChatStates /\ runtime' \in Queues
      /\ ToSet(runtime') = {} /\ Distinct(runtime')
  BY <1>1, EmptyQueue DEF CancelParse, WaitsWithout, ChatsWithout, TypesAre, Waits, ChatStates, Queues
<1>6. TypesAre'
  BY <1>1, <1>3, <1>5 DEF CancelParse, TypesAre
<1>7. Fits(waits', runtime', activeJob')
  BY <1>4, <1>5 DEF Fits
<1>8. JobClauses'
  BY <1>2, <1>3, <1>6, JobLet DEF CancelParse, Statuses
<1>9. Keeping
  BY <1>2, <1>3, KeptFailing
<1> QED
  BY <1>1, <1>6, <1>7, <1>8, <1>9, IInvPartsNext DEF CancelParse, Good

LEMMA BreakGood ==
  ASSUME IInv, NEW ch \in ChatStates, Break(ch),
         UNCHANGED <<begun, rebuilds, rebuilding, manifest>>
  PROVE  Good
<1>1. TypesAre /\ Fits(waits, runtime, activeJob) /\ JobClauses /\ (rebuilding => rebuilds # << >>)
  BY IInvParts
<1>2. FitsBut(None, waits, runtime, activeJob)
  BY <1>1, NoneAssumption DEF Fits, FitsBut
<1>3. /\ waits' \in Waits /\ chats' \in ChatStates /\ shown' \in Shown
      /\ activeJob' \in Job \cup {None}
      /\ \/ /\ ToSet(runtime) \cap Jobs = {}
            /\ activeJob' = activeJob /\ waits' = waits /\ shown' = Published(activeJob)
         \/ /\ activeJob # None
            /\ activeJob' = None /\ shown' = [shown EXCEPT ![activeJob.id] = "failed"]
            /\ \A j \in Jobs : waits'[j] = None
  BY <1>1, <1>2, AllRejected DEF Break, TypesAre
<1>4. runtime' \in Queues /\ ToSet(runtime') = {} /\ Distinct(runtime')
  BY EmptyQueue DEF Break, Queues
<1>5. TypesAre'
  BY <1>1, <1>3, <1>4 DEF TypesAre
<1>6. Fits(waits', runtime', activeJob')
  BY <1>1, <1>3, <1>4 DEF Fits
<1>7. CASE activeJob' = activeJob /\ waits' = waits /\ shown' = Published(activeJob)
  <2>1. JobClauses' /\ shown' = shown
    BY <1>7, JobStays
  <2> QED
    BY <1>1, <1>5, <1>6, <2>1, KeptSame, IInvPartsNext DEF Good
<1>8. CASE /\ activeJob # None
           /\ activeJob' = None /\ shown' = [shown EXCEPT ![activeJob.id] = "failed"]
  <2>1. JobClauses'
    BY <1>5, <1>8, JobLet DEF Statuses
  <2> QED
    BY <1>1, <1>5, <1>6, <1>8, <2>1, KeptFailing, IInvPartsNext DEF Good
<1> QED
  BY <1>3, <1>7, <1>8

LEMMA AskChatGood ==
  ASSUME IInv, NEW c \in Chats, AskChat(c)
  PROVE  Good
<1> DEFINE ch == [chats EXCEPT ![c] = "asked"]
<1>1. TypesAre /\ Fits(waits, runtime, activeJob) /\ JobClauses /\ (rebuilding => rebuilds # << >>)
  BY IInvParts
<1>2. c \notin Jobs
  BY CallersAssumption DEF Jobs
<1>3. ch \in ChatStates
  BY <1>1 DEF TypesAre, ChatStates
<1>4. FitsBut(c, waits, runtime, activeJob)
  BY <1>1, <1>2 DEF Fits, FitsBut
<1>5. /\ waits' \in Waits /\ chats' \in ChatStates /\ shown' \in Shown
      /\ activeJob' \in Job \cup {None} /\ runtime' \in Queues
      /\ Fits(waits', runtime', activeJob')
      /\ \/ activeJob' = activeJob /\ waits' = waits /\ shown' = Published(activeJob)
         \/ /\ activeJob # None
            /\ activeJob' = None /\ shown' = [shown EXCEPT ![activeJob.id] = "failed"]
  <2>1. Submit(c, runtime, waits, ch, activeJob)
    BY DEF AskChat
  <2> HIDE DEF ch
  <2> QED
    BY <1>1, <1>3, <1>4, <2>1, Submitted DEF TypesAre
<1>6. TypesAre'
  BY <1>1, <1>5 DEF TypesAre, AskChat
<1>7. CASE activeJob' = activeJob /\ waits' = waits /\ shown' = Published(activeJob)
  <2>1. JobClauses' /\ shown' = shown
    BY <1>7, JobStays DEF AskChat
  <2> QED
    BY <1>1, <1>5, <1>6, <2>1, KeptSame, IInvPartsNext DEF Good, AskChat
<1>8. CASE /\ activeJob # None
           /\ activeJob' = None /\ shown' = [shown EXCEPT ![activeJob.id] = "failed"]
  <2>1. JobClauses'
    BY <1>6, <1>8, JobLet DEF Statuses, AskChat
  <2> QED
    BY <1>1, <1>5, <1>6, <1>8, <2>1, KeptFailing, IInvPartsNext DEF Good, AskChat
<1> QED
  BY <1>5, <1>7, <1>8

LEMMA ProgressGood ==
  ASSUME IInv, NEW j \in Jobs, Progress(j)
  PROVE  Good
<1>1. TypesAre /\ Fits(waits, runtime, activeJob) /\ JobClauses /\ (rebuilding => rebuilds # << >>)
  BY IInvParts
<1>2. Answered(j, {"parse", "reparse"})
  BY DEF Progress
<1>3. /\ activeJob # None /\ activeJob \in Job /\ activeJob.id = j
      /\ waits[j] \in {"parse", "reparse"} /\ waits[j] # None
  BY <1>2, AtHead DEF Requests
<1>4. PICK status \in {"parsing", "packaging", "failed"} :
        /\ activeJob' = Marked(status)
        /\ waits' = IF status = "failed" THEN [waits EXCEPT ![j] = "refused"] ELSE waits
  BY DEF Progress
<1>5. PICK request \in Requests :
        /\ waits' = [waits EXCEPT ![j] = request]
        /\ IF request = "refused" THEN status = "failed" ELSE status \in {"parsing", "packaging"}
  <2>1. CASE status = "failed"
    BY <2>1, <1>4 DEF Requests
  <2>2. CASE status # "failed"
    <3>1. waits' = [waits EXCEPT ![j] = waits[j]]
      BY <1>1, <1>4, <2>2 DEF TypesAre, Waits
    <3> QED
      BY <1>3, <2>2, <3>1 DEF Requests
  <2> QED
    BY <2>1, <2>2
<1>6. activeJob' = [activeJob EXCEPT !.status = status] /\ status \in Statuses
  BY <1>3, <1>4 DEF Marked, Statuses
<1>7. shown' = Published(activeJob') /\ UNCHANGED <<begun, runtime, rebuilds, rebuilding, manifest, chats>>
  BY DEF Progress
<1>8. JobClauses'
  BY <1>3, <1>5, <1>6, <1>7, JobGoesOn
<1>9. activeJob' \in Job /\ activeJob' # None /\ activeJob'.id = j
  BY <1>3, <1>6, NoneAssumption DEF Job
<1>10. /\ waits' \in Waits /\ waits'[j] # None
       /\ \A k \in Jobs : k # j => waits'[k] = waits[k]
  BY <1>1, <1>5, NoneAssumption DEF TypesAre, Waits
<1>11. shown' \in Shown /\ \A k \in Jobs : k # j => shown'[k] = shown[k]
  BY <1>1, <1>7, <1>9, PublishedType DEF TypesAre
<1>12. TypesAre'
  BY <1>1, <1>7, <1>9, <1>10, <1>11 DEF TypesAre
<1>13. Fits(waits', runtime', activeJob')
  BY <1>1, <1>3, <1>7, <1>9, <1>10 DEF Fits
<1>14. Keeping
  <2>1. activeJob.status \in {"imported", "parsing", "packaging"}
    BY <1>1, <1>3, NoneAssumption DEF JobClauses, StatusFollows
  <2> QED
    BY <1>3, <1>11, <2>1, Kept DEF IsActive
<1> QED
  BY <1>1, <1>7, <1>8, <1>12, <1>13, <1>14, IInvPartsNext DEF Good

LEMMA RefusedGood ==
  ASSUME IInv, Refused
  PROVE  Good
<1>1. TypesAre /\ Fits(waits, runtime, activeJob) /\ JobClauses /\ (rebuilding => rebuilds # << >>)
  BY IInvParts
<1> DEFINE h == Head(runtime)
<1>2. /\ runtime # << >> /\ runtime' = Tail(runtime) /\ Reject({h}, waits, chats, activeJob)
      /\ UNCHANGED <<begun, rebuilds, rebuilding, manifest>>
  BY DEF Refused
<1>3. /\ h \in Jobs \cup Chats /\ runtime' \in Queues /\ Distinct(runtime')
      /\ ToSet(runtime) = ToSet(runtime') \cup {h}
      /\ h \in Jobs => h \notin ToSet(runtime')
  BY <1>1, <1>2, ShorterQueue DEF TypesAre, Queues, Fits
<1> HIDE DEF h
<1>4. waits' \in Waits /\ chats' \in ChatStates
  BY <1>1, <1>2 DEF Reject, WaitsWithout, ChatsWithout, TypesAre, Waits, ChatStates
<1>5. CASE h \notin Jobs
  <2>1. activeJob' = activeJob /\ waits' = waits /\ shown' = Published(activeJob)
    BY <1>1, <1>2, <1>5 DEF Reject, WaitsWithout, TypesAre, Waits
  <2>2. JobClauses' /\ shown' = shown
    BY <1>2, <2>1, JobStays
  <2>3. TypesAre'
    BY <1>1, <1>2, <1>3, <1>4, <2>1, <2>2 DEF TypesAre
  <2>4. Fits(waits', runtime', activeJob')
    BY <1>1, <1>3, <1>5, <2>1 DEF Fits
  <2> QED
    BY <1>1, <1>2, <2>2, <2>3, <2>4, KeptSame, IInvPartsNext DEF Good
<1>6. CASE h \in Jobs
  <2>1. activeJob # None /\ activeJob \in Job /\ activeJob.id = h
    BY <1>1, <1>3, <1>6 DEF Fits, TypesAre
  <2>2. activeJob' = None /\ shown' = [shown EXCEPT ![activeJob.id] = "failed"]
    BY <1>2, <1>6, <2>1 DEF Reject
  <2>3. \A j \in Jobs : waits'[j] = None
    BY <1>1, <1>2, <2>1 DEF Reject, WaitsWithout, Fits
  <2>4. \A j \in Jobs : j \notin ToSet(runtime')
    BY <1>1, <1>3, <2>1 DEF Fits
  <2>5. shown' \in Shown
    BY <1>1, <2>1, <2>2 DEF TypesAre, Shown, Statuses, Job
  <2>6. TypesAre'
    BY <1>1, <1>2, <1>3, <1>4, <2>2, <2>5 DEF TypesAre
  <2>7. Fits(waits', runtime', activeJob')
    BY <1>3, <2>3, <2>4 DEF Fits
  <2>8. JobClauses'
    BY <1>2, <2>1, <2>2, <2>6, JobLet DEF Statuses
  <2> QED
    BY <1>1, <1>2, <2>1, <2>2, <2>6, <2>7, <2>8, KeptFailing, IInvPartsNext DEF Good
<1> QED
  BY <1>5, <1>6

LEMMA ChatAnsweredGood ==
  ASSUME IInv, NEW c \in Chats, ChatAnswered(c)
  PROVE  Good
<1>1. TypesAre /\ Fits(waits, runtime, activeJob) /\ JobClauses /\ (rebuilding => rebuilds # << >>)
  BY IInvParts
<1>2. /\ runtime # << >> /\ runtime' = Tail(runtime) /\ Head(runtime) = c
      /\ UNCHANGED <<activeJob, begun, waits, rebuilds, rebuilding, manifest, shown>>
      /\ chats' = [chats EXCEPT ![c] = "ended"]
  BY DEF ChatAnswered
<1>3. /\ runtime' \in Queues /\ Distinct(runtime') /\ ToSet(runtime) = ToSet(runtime') \cup {c}
  BY <1>1, <1>2, ShorterQueue DEF TypesAre, Queues, Fits
<1>4. c \notin Jobs
  BY CallersAssumption DEF Jobs
<1>5. TypesAre'
  BY <1>1, <1>2, <1>3 DEF TypesAre, ChatStates
<1>6. Fits(waits', runtime', activeJob')
  BY <1>1, <1>2, <1>3, <1>4 DEF Fits
<1>7. JobClauses'
  BY <1>1, <1>2 DEF JobClauses, OnlyBegun, StatusFollows
<1> QED
  BY <1>1, <1>2, <1>5, <1>6, <1>7, KeptSame, IInvPartsNext DEF Good

LEMMA StartAgentChatGood ==
  ASSUME IInv, NEW c \in Chats, StartAgentChat(c)
  PROVE  Good
<1>1. TypesAre /\ Fits(waits, runtime, activeJob) /\ JobClauses /\ (rebuilding => rebuilds # << >>)
  BY IInvParts
<1>2. /\ UNCHANGED <<activeJob, begun, waits, runtime, rebuilds, rebuilding, manifest, shown>>
      /\ chats' = [chats EXCEPT ![c] = "scheduled"]
  BY DEF StartAgentChat
<1>3. TypesAre'
  BY <1>1, <1>2 DEF TypesAre, ChatStates
<1>4. Fits(waits', runtime', activeJob')
  BY <1>1, <1>2
<1>5. JobClauses'
  BY <1>1, <1>2 DEF JobClauses, OnlyBegun, StatusFollows
<1> QED
  BY <1>1, <1>2, <1>3, <1>4, <1>5, KeptSame, IInvPartsNext DEF Good

LEMMA ParsedUnsavedGood ==
  ASSUME IInv, NEW j \in Jobs, ParsedUnsaved(j)
  PROVE  Good
<1>1. TypesAre /\ Fits(waits, runtime, activeJob) /\ JobClauses /\ (rebuilding => rebuilds # << >>)
  BY IInvParts
<1>2. /\ runtime' = Tail(runtime) /\ waits' = [waits EXCEPT ![j] = None] /\ activeJob' = None
      /\ manifest' \in BOOLEAN /\ UNCHANGED <<begun, rebuilds, rebuilding, chats, shown>>
  BY DEF ParsedUnsaved
<1>3. /\ \A k \in Jobs : k # j => waits[k] = None
      /\ Tail(runtime) \in Queues /\ Distinct(Tail(runtime))
      /\ \A k \in Jobs : k \notin ToSet(Tail(runtime))
  <2>1. Answered(j, {"parse"})
    BY DEF ParsedUnsaved
  <2> QED
    BY <2>1, AtHead DEF Requests
<1>4. waits' \in Waits /\ \A k \in Jobs : waits'[k] = None
  BY <1>1, <1>2, <1>3 DEF TypesAre, Waits
<1>5. TypesAre'
  BY <1>1, <1>2, <1>3, <1>4 DEF TypesAre
<1>6. Fits(waits', runtime', activeJob')
  BY <1>2, <1>3, <1>4 DEF Fits
<1>7. JobClauses'
  BY <1>2, <1>5, JobLet
<1> QED
  BY <1>1, <1>2, <1>5, <1>6, <1>7, KeptSame, IInvPartsNext DEF Good

\* The handler of an answered import submits its next request.
LEMMA ContinuesGood ==
  ASSUME IInv, NEW j \in Jobs, NEW R, R \subseteq Requests \ {"refused"}, Answered(j, R),
         NEW request \in {"compile", "repair", "recompile"},
         NEW status \in {"imported", "parsing", "packaging"},
         Ask(j, request, Tail(runtime), [activeJob EXCEPT !.status = status]),
         manifest' \in BOOLEAN, UNCHANGED <<begun, rebuilds, rebuilding>>
  PROVE  Good
<1> DEFINE job == [activeJob EXCEPT !.status = status]
           w == [waits EXCEPT ![j] = request]
           q == Tail(runtime)
<1>1. TypesAre /\ Fits(waits, runtime, activeJob) /\ JobClauses /\ (rebuilding => rebuilds # << >>)
  BY IInvParts
<1>2. /\ activeJob # None /\ activeJob \in Job /\ activeJob.id = j
      /\ waits[j] \in R /\ waits[j] # None
      /\ \A k \in Jobs : k # j => waits[k] = None
      /\ q \in Queues /\ Distinct(q) /\ \A k \in Jobs : k \notin ToSet(q)
  BY AtHead
<1>3. request \in Requests /\ request # None /\ status \in Statuses
  BY NoneAssumption DEF Requests, Statuses
<1>4. /\ job \in Job /\ job # None /\ job.id = j /\ job.status = status
      /\ w \in Waits /\ w[j] = request /\ \A k \in Jobs : k # j => w[k] = None
  BY <1>1, <1>2, <1>3, NoneAssumption DEF Job, TypesAre, Waits
<1>5. Submit(j, q, w, chats, job) /\ w = [waits EXCEPT ![activeJob.id] = request]
  BY <1>2 DEF Ask
<1>6. job = [activeJob EXCEPT !.status = status]
  OBVIOUS
<1> HIDE DEF job, w, q
<1>7. FitsBut(j, w, q, job)
  BY <1>2, <1>3, <1>4 DEF FitsBut
<1>8. /\ waits' \in Waits /\ chats' \in ChatStates /\ shown' \in Shown
      /\ activeJob' \in Job \cup {None} /\ runtime' \in Queues
      /\ Fits(waits', runtime', activeJob')
      /\ activeJob' = job /\ waits' = w /\ shown' = Published(job)
  <2>1. /\ q \in Queues /\ w \in Waits /\ chats \in ChatStates /\ shown \in Shown
        /\ job \in Job \cup {None} /\ j \in Jobs \cup Chats
    BY <1>1, <1>2, <1>4 DEF TypesAre
  <2>2. Submit(j, q, w, chats, job)
    BY <1>5
  <2> QED
    BY <1>7, <2>1, <2>2, Submitted
<1>9. TypesAre'
  BY <1>1, <1>8 DEF TypesAre
<1>10. JobClauses'
  <2>1. IF request = "refused" THEN status = "failed"
        ELSE status \in {"imported", "parsing", "packaging"}
    OBVIOUS
  <2> QED
    BY <1>2, <1>3, <1>5, <1>6, <1>8, <2>1, JobGoesOn
<1>11. Keeping
  <2>1. activeJob.status \in {"imported", "parsing", "packaging"}
    BY <1>1, <1>2 DEF JobClauses, StatusFollows
  <2>2. \A k \in Jobs : k # j => shown'[k] = shown[k]
    BY <1>1, <1>4, <1>8, PublishedType DEF TypesAre
  <2> QED
    BY <1>2, <2>1, <2>2, Kept DEF IsActive
<1> QED
  BY <1>1, <1>8, <1>9, <1>10, <1>11, IInvPartsNext DEF Good

LEMMA HandlersGood ==
  ASSUME IInv, NEW j \in Jobs, Parsed(j) \/ Reparsed(j) \/ Repaired(j)
  PROVE  Good
<1>1. TypesAre
  BY IInvParts
<1>2. CASE Parsed(j)
  <2>1. Answered(j, {"parse"}) /\ {"parse"} \subseteq Requests \ {"refused"}
    BY <1>2 DEF Parsed, Requests
  <2>2. activeJob # None
    BY <2>1, AtHead DEF Requests
  <2>3. Ask(j, "compile", Tail(runtime), [activeJob EXCEPT !.status = "packaging"])
    BY <1>2, <2>2 DEF Parsed, Marked
  <2> QED
    BY <1>2, <2>1, <2>3, ContinuesGood DEF Parsed
<1>3. CASE Reparsed(j)
  <2>1. Answered(j, {"reparse"}) /\ {"reparse"} \subseteq Requests \ {"refused"}
    BY <1>3 DEF Reparsed, Requests
  <2>2. activeJob # None /\ activeJob \in Job /\ activeJob.id = j /\ waits[j] = "reparse"
    BY <2>1, AtHead DEF Requests
  <2>3. activeJob.status \in {"imported", "parsing", "packaging"}
    BY <2>2, NoneAssumption DEF IInv, StatusFollows, Requests
  <2>4. activeJob = [activeJob EXCEPT !.status = activeJob.status]
    BY <2>2 DEF Job
  <2>5. Ask(j, "repair", Tail(runtime), [activeJob EXCEPT !.status = activeJob.status])
    BY <1>3, <2>4 DEF Reparsed
  <2>6. manifest' \in BOOLEAN /\ UNCHANGED <<begun, rebuilds, rebuilding>>
    BY <1>1, <1>3 DEF Reparsed, TypesAre
  <2> QED
    BY <2>1, <2>3, <2>5, <2>6, ContinuesGood
<1>4. CASE Repaired(j)
  <2>1. Answered(j, {"repair"}) /\ {"repair"} \subseteq Requests \ {"refused"}
    BY <1>4 DEF Repaired, Requests
  <2>2. activeJob # None
    BY <2>1, AtHead DEF Requests
  <2>3. Ask(j, "recompile", Tail(runtime), [activeJob EXCEPT !.status = "packaging"])
    BY <1>4, <2>2 DEF Repaired, Marked
  <2>4. manifest' \in BOOLEAN /\ UNCHANGED <<begun, rebuilds, rebuilding>>
    BY <1>1, <1>4 DEF Repaired, TypesAre
  <2> QED
    BY <2>1, <2>3, <2>4, ContinuesGood
<1> QED
  BY <1>2, <1>3, <1>4

LEMMA CompiledGood ==
  ASSUME IInv, NEW j \in Jobs, Compiled(j)
  PROVE  Good
<1>1. TypesAre /\ Fits(waits, runtime, activeJob) /\ JobClauses /\ (rebuilding => rebuilds # << >>)
  BY IInvParts
<1>2. /\ activeJob # None /\ activeJob \in Job /\ activeJob.id = j
      /\ waits[j] \in {"compile", "recompile"} /\ j \notin ToSet(rebuilds)
      /\ \A k \in Jobs : k # j => waits[k] = None
      /\ Tail(runtime) \in Queues /\ Distinct(Tail(runtime))
      /\ \A k \in Jobs : k \notin ToSet(Tail(runtime))
  <2>1. Answered(j, {"compile", "recompile"})
    BY DEF Compiled
  <2> QED
    BY <2>1, AtHead DEF Requests
<1>3. /\ runtime' = Tail(runtime) /\ waits' = [waits EXCEPT ![j] = None]
      /\ shown' = Published(activeJob') /\ UNCHANGED <<begun, rebuilding, manifest, chats>>
  BY DEF Compiled
<1>4. waits' \in Waits /\ \A k \in Jobs : waits'[k] = None
  BY <1>1, <1>2, <1>3 DEF TypesAre, Waits
<1>5. Fits(waits', runtime', activeJob')
  BY <1>2, <1>3, <1>4 DEF Fits
<1>6. CASE manifest
  <2>1. activeJob' = Marked("citation_ready") /\ rebuilds' = Append(rebuilds, j)
    BY <1>2, <1>6 DEF Compiled
  <2>2. /\ activeJob' \in Job /\ activeJob' # None /\ activeJob'.id = j
        /\ activeJob'.status = "citation_ready"
    BY <1>1, <1>2, <2>1, MarkedType DEF TypesAre, Statuses
  <2>3. rebuilds' \in Seq(Jobs \cup {None}) /\ ToSet(rebuilds') = ToSet(rebuilds) \cup {j}
    BY <1>1, <2>1, LongerQueue DEF TypesAre
  <2>4. rebuilds' # << >>
    <3>1. Len(Append(rebuilds, j)) = Len(rebuilds) + 1 /\ Len(rebuilds) \in Nat /\ Len(<< >>) = 0
      BY <1>1 DEF TypesAre
    <3> QED
      BY <2>1, <3>1
  <2>5. /\ shown' \in Shown /\ shown'[j] = "citation_ready"
        /\ \A k \in Jobs : k # j => shown'[k] = shown[k]
    BY <1>1, <1>3, <2>2, PublishedType DEF TypesAre
  <2>6. TypesAre'
    BY <1>1, <1>2, <1>3, <1>4, <2>2, <2>3, <2>5 DEF TypesAre
  <2>7. JobClauses'
    <3>1. OnlyBegun'
      BY <1>1, <1>2, <1>3, <2>2, <2>3, <2>5 DEF JobClauses, OnlyBegun, TypesAre, Jobs
    <3>2. StatusFollows'
      BY <1>4, <2>2, <2>5, NoneAssumption DEF StatusFollows, Requests
    <3> QED
      BY <1>4, <2>2, <2>3, <3>1, <3>2 DEF JobClauses
  <2>8. Keeping
    <3>1. activeJob.status \in {"imported", "parsing", "packaging"}
      BY <1>1, <1>2, NoneAssumption DEF JobClauses, StatusFollows, Requests
    <3> QED
      BY <1>2, <2>5, <3>1, Kept DEF IsActive
  <2> QED
    BY <1>1, <1>5, <2>4, <2>6, <2>7, <2>8, IInvPartsNext DEF Good
<1>7. CASE ~manifest
  <2>1. activeJob' = None /\ rebuilds' = rebuilds
    BY <1>7 DEF Compiled
  <2>2. shown' = shown
    BY <1>3, <2>1 DEF Published
  <2>3. TypesAre'
    BY <1>1, <1>2, <1>3, <1>4, <2>1, <2>2 DEF TypesAre
  <2>4. JobClauses'
    BY <1>3, <2>1, <2>2, <2>3, JobLet
  <2> QED
    BY <1>1, <1>3, <1>5, <2>1, <2>2, <2>3, <2>4, KeptSame, IInvPartsNext DEF Good
<1> QED
  BY <1>6, <1>7

-----------------------------------------------------------------------------
(* Rebuilds.                                                               *)

\* While the active job's rebuild is queued, nothing waits and the job is
\* citable.
LEMMA RebuildOfActive ==
  ASSUME IInv, activeJob # None, activeJob.id \in ToSet(rebuilds)
  PROVE  waits[activeJob.id] = None /\ activeJob.status = "citation_ready"
BY IInvParts DEF JobClauses, StatusFollows

LEMMA RebuildBeginsGood ==
  ASSUME IInv, RebuildBegins
  PROVE  Good
<1>1. TypesAre /\ Fits(waits, runtime, activeJob) /\ JobClauses /\ (rebuilding => rebuilds # << >>)
  BY IInvParts
<1>2. /\ rebuilds # << >> /\ rebuilding' = TRUE
      /\ activeJob' = Updated(Head(rebuilds), "citation_ready")
      /\ shown' = Published(activeJob')
      /\ UNCHANGED <<begun, waits, runtime, rebuilds, manifest, chats>>
  BY DEF RebuildBegins
<1>3. Head(rebuilds) \in ToSet(rebuilds)
  BY <1>1, <1>2, ShorterQueue DEF TypesAre
<1>4. activeJob' = activeJob
  <2>1. CASE IsActive(Head(rebuilds))
    <3>1. activeJob # None /\ activeJob \in Job /\ activeJob.status = "citation_ready"
      BY <1>1, <1>3, <2>1, RebuildOfActive DEF IsActive, TypesAre
    <3>2. activeJob = [activeJob EXCEPT !.status = "citation_ready"]
      BY <3>1 DEF Job
    <3> QED
      BY <1>2, <2>1, <3>1, <3>2 DEF Updated, Marked
  <2>2. CASE ~IsActive(Head(rebuilds))
    BY <1>2, <2>2 DEF Updated
  <2> QED
    BY <2>1, <2>2
<1>5. JobClauses' /\ shown' = shown
  BY <1>2, <1>4, JobStays
<1>6. TypesAre'
  BY <1>1, <1>2, <1>4, <1>5 DEF TypesAre
<1>7. Fits(waits', runtime', activeJob')
  BY <1>1, <1>2, <1>4
<1> QED
  BY <1>2, <1>5, <1>6, <1>7, KeptSame, IInvPartsNext DEF Good

LEMMA RebuildEndsGood ==
  ASSUME IInv, NEW status \in {"context_ready", "failed"}, RebuildEnds(status)
  PROVE  Good
<1> DEFINE h == Head(rebuilds)
<1>1. TypesAre /\ Fits(waits, runtime, activeJob) /\ JobClauses /\ rebuilds # << >>
  BY IInvParts DEF RebuildEnds
<1>2. /\ rebuilding' = FALSE /\ rebuilds' = Tail(rebuilds) /\ activeJob' = Cleared(h)
      /\ shown' = Published(Updated(h, status))
      /\ UNCHANGED <<begun, waits, runtime, manifest, chats>>
  BY DEF RebuildEnds
<1>3. /\ rebuilds' \in Seq(Jobs \cup {None})
      /\ ToSet(rebuilds) = ToSet(rebuilds') \cup {h}
  BY <1>1, <1>2, ShorterQueue DEF TypesAre
<1> HIDE DEF h
<1>4. CASE IsActive(h)
  <2>1. /\ activeJob # None /\ activeJob \in Job /\ activeJob.id = h /\ h \in Jobs
        /\ waits[h] = None /\ activeJob.status = "citation_ready"
    BY <1>1, <1>3, <1>4, RebuildOfActive DEF IsActive, TypesAre, Job
  <2>2. activeJob' = None
    BY <1>2, <1>4 DEF Cleared
  <2>3. /\ shown' = [shown EXCEPT ![activeJob.id] = status] /\ status \in Statuses
        /\ shown' \in Shown
    <3>1. Updated(h, status) = Marked(status) /\ status \in Statuses
      BY <1>4 DEF Updated, Statuses
    <3>2. /\ Marked(status) # None /\ Marked(status).id = activeJob.id
          /\ Marked(status).status = status
      BY <1>1, <2>1, <3>1, MarkedType DEF TypesAre
    <3> QED
      BY <1>1, <1>2, <2>1, <3>1, <3>2 DEF Published, TypesAre, Shown
  <2>4. \A j \in Jobs : waits'[j] = None /\ j \notin ToSet(runtime')
    BY <1>1, <1>2, <2>1 DEF Fits
  <2>5. TypesAre'
    BY <1>1, <1>2, <1>3, <2>2, <2>3 DEF TypesAre
  <2>6. Fits(waits', runtime', activeJob')
    BY <1>1, <1>2, <2>4 DEF Fits
  <2>7. JobClauses'
    BY <1>2, <1>3, <2>1, <2>2, <2>3, <2>5, JobLet
  <2>8. Keeping
    <3>1. shown'[h] = status /\ \A j \in Jobs : j # h => shown'[j] = shown[j]
      BY <1>1, <2>1, <2>3 DEF TypesAre, Shown
    <3> QED
      BY <2>1, <3>1, Kept DEF IsActive
  <2> QED
    BY <1>2, <2>5, <2>6, <2>7, <2>8, IInvPartsNext DEF Good
<1>5. CASE ~IsActive(h)
  <2>1. activeJob' = activeJob /\ shown' = Published(activeJob)
    BY <1>2, <1>5 DEF Cleared, Updated
  <2>2. shown' = shown
    BY <1>1, <2>1 DEF Published, TypesAre, Job, Shown, JobClauses, StatusFollows
  <2>3. TypesAre'
    BY <1>1, <1>2, <1>3, <2>1, <2>2 DEF TypesAre
  <2>4. Fits(waits', runtime', activeJob')
    BY <1>1, <1>2, <2>1
  <2>5. JobClauses'
    <3>1. activeJob # None => activeJob.id # h
      BY <1>5 DEF IsActive
    <3>2. OnlyBegun' /\ StatusFollows'
      BY <1>1, <1>2, <1>3, <2>1, <2>2 DEF JobClauses, OnlyBegun, StatusFollows
    <3> QED
      BY <1>1, <1>2, <1>3, <2>1, <3>1, <3>2 DEF JobClauses
  <2> QED
    BY <1>2, <2>2, <2>3, <2>4, <2>5, KeptSame, IInvPartsNext DEF Good
<1> QED
  BY <1>4, <1>5

-----------------------------------------------------------------------------
(* Theorems.                                                               *)

LEMMA NextGood == IInv /\ [Next]_vars => IInv' /\ [Keeping]_vars
<1> SUFFICES ASSUME IInv, [Next]_vars PROVE Good
  BY DEF Good
<1>1. TypesAre
  BY IInvParts
<1>2. CASE StartParse
  BY <1>2, BeginGood DEF StartParse
<1>3. CASE RetryFailedPages
  BY <1>3, BeginGood DEF RetryFailedPages
<1>4. CASE CancelParse
  BY <1>4, CancelGood
<1>5. CASE \E c \in Chats : StartAgentChat(c) \/ AskChat(c) \/ StopAgentChat(c)
  <2>1. PICK c \in Chats : StartAgentChat(c) \/ AskChat(c) \/ StopAgentChat(c)
    BY <1>5
  <2>2. CASE StopAgentChat(c)
    <3>1. [chats EXCEPT ![c] = "ended"] \in ChatStates
      BY <1>1 DEF TypesAre, ChatStates
    <3> QED
      BY <2>2, <3>1, BreakGood DEF StopAgentChat
  <2> QED
    BY <2>1, <2>2, StartAgentChatGood, AskChatGood
<1>6. CASE \E j \in Jobs : Progress(j)
  BY <1>6, ProgressGood
<1>7. CASE Answer
  BY <1>7, RefusedGood, ChatAnsweredGood, ParsedUnsavedGood, HandlersGood, CompiledGood DEF Answer
<1>8. CASE EngineExits
  BY <1>1, <1>8, BreakGood DEF EngineExits, TypesAre
<1>9. CASE RebuildBegins
  BY <1>9, RebuildBeginsGood
<1>10. CASE RebuildDone
  BY <1>10, RebuildEndsGood DEF RebuildDone
<1>11. CASE UNCHANGED vars
  <2>1. IInv'
    BY <1>11 DEF IInv, vars, TypeOK, ActiveJobIsWorkedOn, IsActive, OneRequestEach, OnlyBegun,
                 StatusFollows
  <2> QED
    BY <1>11, <2>1, KeptSame DEF Good, vars
<1> QED
  BY <1>2, <1>3, <1>4, <1>5, <1>6, <1>7, <1>8, <1>9, <1>10, <1>11 DEF Next

\* The active job and what its handler, the runtime and the rebuilds hold of
\* it keep their types, however often the runtime is reset.
THEOREM TypeCorrect == Spec => []TypeOK
<1>1. IInv => TypeOK
  BY DEF IInv
<1> QED
  BY <1>1, InitIInv, NextGood, PTL DEF Spec

\* An import's handler never acts for another import, and the active import
\* is always waited for by its handler or by a rebuild, not by both.
THEOREM JobIsWorkedOn == Spec => []ActiveJobIsWorkedOn
<1>1. IInv => ActiveJobIsWorkedOn
  BY DEF IInv
<1> QED
  BY <1>1, InitIInv, NextGood, PTL DEF Spec

\* What was published of a job is never taken back by the end of a rebuild,
\* a chat, a reset or a request that was not its own.
THEOREM OutcomesStay == Spec => ShownOutcomesStay
<1>1. [Keeping]_vars <=>
        [\A j \in Jobs :
           /\ shown[j] \in {"context_ready", "failed"} => shown'[j] = shown[j]
           /\ shown[j] = "citation_ready" =>
                shown'[j] \in {"citation_ready", "context_ready", "failed"}]_vars
  BY DEF Keeping
<1> QED
  BY <1>1, InitIInv, NextGood, PTL DEF Spec, ShownOutcomesStay
=============================================================================
