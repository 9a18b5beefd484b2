------------------------- MODULE AgentWrites_proofs -------------------------
(***************************************************************************)
(* Proofs about AgentWrites, for any proposals, sources and number of      *)
(* calls that fail or are killed anywhere: accepted memories stay, once,   *)
(* with their evidence, and rejected ones stay out.                        *)
(***************************************************************************)
EXTENDS AgentWrites, TLAPS

-----------------------------------------------------------------------------
(* What steps do to the calls.                                             *)

\* The call of `c` becomes `r`, those of other processes stay.
Becomes(c, r) ==
  /\ calls' \in [Calls -> Call]
  /\ calls'[c] = r
  /\ \A d \in Calls : d # c => calls'[d] = calls[d]

\* Assigning a well-typed call is becoming it.
LEMMA Assign ==
  ASSUME TypeOK, NEW c \in Calls, NEW r \in Call, calls' = [calls EXCEPT ![c] = r]
  PROVE  Becomes(c, r)
  BY DEF TypeOK, Becomes

\* The call that does nothing is one.
LEMMA NoCallIsCall == NoCall \in Call
  BY DEF NoCall, NoLog, Call, Stages

\* A call that goes on to another stage keeps what it has read.
LEMMA ToBecomes ==
  ASSUME TypeOK, NEW c \in Calls, NEW stage \in Stages, To(c, stage)
  PROVE  Becomes(c, [calls[c] EXCEPT !.at = stage])
  <1>1. [calls[c] EXCEPT !.at = stage] \in Call
    BY DEF TypeOK, Call
  <1>2. calls' = [calls EXCEPT ![c] = [calls[c] EXCEPT !.at = stage]]
    BY DEF To
  <1> QED BY <1>1, <1>2, Assign

\* A call begins with nothing read.
LEMMA BeginBecomes ==
  ASSUME TypeOK, NEW c \in Calls, NEW stage \in Stages, NEW kind \in Kinds,
         NEW x \in Proposals \cup Sources \cup {None}, Begin(c, stage, kind, x)
  PROVE  Becomes(c, [NoCall EXCEPT !.at = stage, !.kind = kind, !.about = x])
  <1>1. [NoCall EXCEPT !.at = stage, !.kind = kind, !.about = x] \in Call
    BY NoCallIsCall DEF Call
  <1>2. calls' = [calls EXCEPT ![c] = [NoCall EXCEPT !.at = stage, !.kind = kind, !.about = x]]
    BY DEF Begin
  <1> QED BY <1>1, <1>2, Assign

-----------------------------------------------------------------------------
(* The invariant.                                                          *)

\* What a call is about, by its stage.
Fits(c) ==
  LET at == calls[c].at
      kind == calls[c].kind
      about == calls[c].about IN
  /\ at \in {"proposing", "staged"} => kind = "propose"
  /\ at \in {"committing", "appended", "remembered", "recorded"} => kind = "commit"
  /\ at \in {"rejecting", "rejected"} => kind = "reject"
  /\ at \in {"loading", "loaded", "computing", "computed", "rewritten"} => kind = "materialize"
  /\ at \in {"patching", "patched"} => kind = "patch"
  /\ at # "idle" =>
       /\ kind \in Kinds
       /\ kind \in {"propose", "commit", "reject"} => about \in Proposals
       /\ kind = "patch" => about \in Sources

Holds(c) == calls[c].at \in Held

\* The directory exists while somebody holds the lock, and one call does.
LockIsExclusive ==
  /\ \A c \in Calls : Holds(c) => locked
  /\ \A c, d \in Calls : Holds(c) /\ Holds(d) => c = d

\* Memories that a materialization has read have been accepted.
Loaded(c) == \A p \in calls[c].memories : log[p] = 1

\* What the holder of the lock may rely on, since nobody else writes.
HolderKnows(c) ==
  /\ calls[c].at = "appended" => log[calls[c].about] = 1 /\ Supported(calls[c].about)
  /\ calls[c].at = "remembered" => calls[c].about \in memories
  /\ calls[c].at \in {"computed", "rewritten", "patched"} => calls[c].log = log
  /\ calls[c].at = "computed" =>
       memories \subseteq calls[c].memories /\ Valid(calls[c].memories, evidence)

IInv ==
  /\ TypeOK
  /\ LockIsExclusive
  /\ \A c \in Calls : Fits(c) /\ Loaded(c) /\ HolderKnows(c)
  /\ AcceptedIsKept
  /\ MemoriesAreSupported

LEMMA InitIInv == Init => IInv
  <1> SUFFICES ASSUME Init PROVE IInv
    OBVIOUS
  <1>1. TypeOK
    <2>1. file \in [Proposals -> BOOLEAN]
      BY DEF Init
    <2>2. log \in [Proposals -> Nat] /\ row \in [Proposals -> {"none", "pending", "committed", "rejected"}]
      BY DEF Init, NoLog
    <2>3. calls \in [Calls -> Call]
      BY NoCallIsCall DEF Init
    <2>4. started \in 0 .. MaxCalls
      BY MaxCallsAssumption DEF Init
    <2>5. locked \in BOOLEAN
      BY DEF Init
    <2> QED BY <2>1, <2>2, <2>3, <2>4, <2>5 DEF Init, TypeOK
  <1>2. \A c \in Calls : calls[c].at = "idle" /\ calls[c].kind = None /\ calls[c].memories = {}
    BY DEF Init, NoCall
  <1>3. LockIsExclusive /\ \A c \in Calls : Fits(c) /\ Loaded(c) /\ HolderKnows(c)
    BY <1>2 DEF LockIsExclusive, Holds, Held, Fits, Loaded, HolderKnows
  <1>4. AcceptedIsKept /\ MemoriesAreSupported
    BY DEF Init, AcceptedIsKept, MemoriesAreSupported, NoLog
  <1> QED BY <1>1, <1>3, <1>4 DEF IInv

\* A step of `c` that leaves the files alone keeps the invariant if what `c`
\* becomes fits, and if it takes the lock only when it is free.
LEMMA QuietStep ==
  ASSUME IInv, NEW c \in Calls, NEW r \in Call, Becomes(c, r), TypeOK',
         UNCHANGED <<log, memories, evidence>>,
         audited' = audited \/ (\E p \in memories : audited' = audited \cup {p}),
         r.memories = {} \/ r.memories \subseteq calls[c].memories \cup memories,
         r.at \in {"appended", "computed", "rewritten", "patched"} => FALSE,
         r.at = "remembered" => r.about \in memories,
         Fits(c)',
         r.at \in Held => locked' /\ (Holds(c) \/ ~locked),
         r.at \notin Held => (locked' \/ ~locked \/ Holds(c) \/ \A d \in Calls : ~Holds(d))
  PROVE  IInv'
  <1>0. /\ calls'[c] = r
        /\ \A d \in Calls : d # c => calls'[d] = calls[d]
    BY DEF Becomes
  <1>1. LockIsExclusive'
    <2>1. ASSUME NEW d \in Calls, Holds(d)' PROVE locked'
      <3>1. CASE d = c
        BY <1>0, <2>1, <3>1 DEF Holds
      <3>2. CASE d # c
        <4>1. Holds(d)
          BY <1>0, <2>1, <3>2 DEF Holds
        <4>2. locked /\ ~Holds(c)
          BY <3>2, <4>1 DEF IInv, LockIsExclusive
        <4> QED BY <4>1, <4>2
      <3> QED BY <3>1, <3>2
    <2>2. ASSUME NEW d \in Calls, NEW e \in Calls, Holds(d)', Holds(e)' PROVE d = e
      <3>1. CASE d # c /\ e # c
        BY <1>0, <2>2, <3>1 DEF Holds, IInv, LockIsExclusive
      <3>2. ASSUME NEW f \in Calls, f # c, Holds(f)', Holds(c)' PROVE FALSE
        <4>1. Holds(f) /\ r.at \in Held
          BY <1>0, <3>2 DEF Holds
        <4>2. locked /\ ~Holds(c)
          BY <3>2, <4>1 DEF IInv, LockIsExclusive
        <4> QED BY <4>1, <4>2
      <3> QED BY <2>2, <3>1, <3>2
    <2> QED BY <2>1, <2>2 DEF LockIsExclusive
  <1>2. ASSUME NEW d \in Calls, d # c PROVE (Fits(d) /\ Loaded(d) /\ HolderKnows(d))'
    BY <1>0, <1>2 DEF IInv, Fits, Loaded, HolderKnows, Supported
  <1>3. Loaded(c)'
    BY <1>0 DEF IInv, Loaded, AcceptedIsKept
  <1>4. HolderKnows(c)'
    BY <1>0 DEF HolderKnows
  <1>5. AcceptedIsKept' /\ MemoriesAreSupported'
    BY DEF IInv, AcceptedIsKept, MemoriesAreSupported, Supported
  <1> QED BY <1>1, <1>2, <1>3, <1>4, <1>5 DEF IInv

\* A call that ends, however it ends, keeps the invariant.
LEMMA EndStep ==
  ASSUME IInv, NEW c \in Calls, calls' = [calls EXCEPT ![c] = NoCall], TypeOK',
         UNCHANGED <<log, memories, evidence, audited>>,
         locked' \/ ~locked \/ Holds(c) \/ \A d \in Calls : ~Holds(d)
  PROVE  IInv'
  <1>1. TypeOK
    BY DEF IInv
  <1>2. Becomes(c, NoCall)
    BY <1>1, NoCallIsCall, Assign
  <1>3. NoCall.at = "idle" /\ NoCall.memories = {}
    BY DEF NoCall
  <1>4. Fits(c)'
    BY <1>2, <1>3 DEF Becomes, Fits
  <1>5. "idle" \notin Held
    BY DEF Held
  <1> HIDE DEF NoCall
  <1> QED BY <1>2, <1>3, <1>4, <1>5, NoCallIsCall, QuietStep

\* A call that begins reads nothing and holds nothing.
LEMMA BeginStep ==
  ASSUME IInv, NEW c \in Calls, NEW stage \in {"waiting", "loading"}, NEW kind \in Kinds,
         NEW x \in Proposals \cup Sources \cup {None},
         stage = "loading" => kind = "materialize",
         kind \in {"propose", "commit", "reject"} => x \in Proposals,
         kind = "patch" => x \in Sources,
         Begin(c, stage, kind, x), TypeOK',
         UNCHANGED <<log, memories, evidence, audited, locked>>
  PROVE  IInv'
  <1> DEFINE r == [NoCall EXCEPT !.at = stage, !.kind = kind, !.about = x]
  <1>1. r \in Call /\ Becomes(c, r)
    <2>1. stage \in Stages /\ TypeOK
      BY DEF Stages, IInv
    <2>2. Becomes(c, r)
      BY <2>1, BeginBecomes
    <2> QED BY <2>1, <2>2, NoCallIsCall DEF Call
  <1>2. r.at = stage /\ r.kind = kind /\ r.about = x /\ r.memories = {}
    BY DEF NoCall
  <1> HIDE DEF r
  <1>3. Fits(c)'
    BY <1>1, <1>2 DEF Becomes, Fits
  <1>4. r.at \notin Held /\ r.at \notin {"appended", "computed", "rewritten", "patched", "remembered"}
    BY <1>2 DEF Held
  <1>5. locked' \/ ~locked
    OBVIOUS
  <1> QED BY <1>1, <1>2, <1>3, <1>4, <1>5, QuietStep

\* The holder of the lock goes on and leaves the files alone.
LEMMA MoveStep ==
  ASSUME IInv, NEW c \in Calls, NEW stage \in Held, To(c, stage), TypeOK',
         UNCHANGED <<log, memories, evidence>>,
         stage \notin {"appended", "computed", "rewritten", "patched", "remembered"},
         audited' = audited \/ (\E p \in memories : audited' = audited \cup {p}),
         locked', Holds(c) \/ ~locked,
         stage \in {"proposing", "staged"} => calls[c].kind = "propose",
         stage \in {"committing", "recorded"} => calls[c].kind = "commit",
         stage \in {"rejecting", "rejected"} => calls[c].kind = "reject",
         stage = "computing" => calls[c].kind = "materialize",
         stage = "patching" => calls[c].kind = "patch",
         calls[c].at # "idle"
  PROVE  IInv'
  <1> DEFINE r == [calls[c] EXCEPT !.at = stage]
  <1>0. TypeOK /\ calls[c] \in Call /\ stage \in Stages
    BY DEF IInv, TypeOK, Stages
  <1>1. r \in Call /\ Becomes(c, r)
    BY <1>0, ToBecomes DEF Call
  <1>2. /\ r.at = stage /\ r.kind = calls[c].kind /\ r.about = calls[c].about
        /\ r.memories = calls[c].memories
    BY <1>0 DEF Call
  <1> HIDE DEF r
  <1>3. Fits(c)
    BY DEF IInv
  <1>4. Fits(c)'
    BY <1>1, <1>2, <1>3 DEF Becomes, Fits, Held
  <1>5. r.at \notin {"appended", "computed", "rewritten", "patched", "remembered"} /\ r.at \in Held
    BY <1>2
  <1> QED BY <1>1, <1>2, <1>4, <1>5, QuietStep

\* The holder of the lock writes: nobody else relies on what the files were.
LEMMA WriteStep ==
  ASSUME IInv, NEW c \in Calls, Holds(c), NEW r \in Call, Becomes(c, r), TypeOK',
         \A p \in Proposals : log[p] = 1 => log'[p] = 1,
         AcceptedIsKept', MemoriesAreSupported',
         Fits(c)', Loaded(c)', HolderKnows(c)',
         r.at \in Held => locked'
  PROVE  IInv'
  <1>0. /\ calls'[c] = r
        /\ \A d \in Calls : d # c => calls'[d] = calls[d]
    BY DEF Becomes
  <1>1. \A d \in Calls : d # c => ~Holds(d)
    BY DEF IInv, LockIsExclusive
  <1>2. LockIsExclusive'
    BY <1>0, <1>1 DEF LockIsExclusive, Holds
  <1>3. ASSUME NEW d \in Calls, d # c PROVE (Fits(d) /\ Loaded(d) /\ HolderKnows(d))'
    <2>1. calls'[d] = calls[d] /\ calls[d].at \notin Held
      BY <1>0, <1>1, <1>3 DEF Holds
    <2>2. Fits(d)'
      BY <2>1 DEF IInv, Fits
    <2>3. calls[d].memories \subseteq Proposals /\ Loaded(d)
      BY DEF IInv, TypeOK, Call
    <2>4. Loaded(d)'
      BY <2>1, <2>3 DEF Loaded
    <2>5. HolderKnows(d)'
      BY <2>1 DEF HolderKnows, Held
    <2> QED BY <2>2, <2>4, <2>5
  <1> QED BY <1>0, <1>2, <1>3 DEF IInv

-----------------------------------------------------------------------------
(* Types.                                                                  *)

\* What the record of a call that has read something becomes.
LEMMA ReadBecomes ==
  ASSUME IInv, NEW c \in Calls
  PROVE  /\ LoadSources(c) => Becomes(c, [calls[c] EXCEPT !.at = "loaded", !.sources = saved])
         /\ LoadMemories(c) => Becomes(c, [calls[c] EXCEPT !.at = "waiting", !.memories = memories])
         /\ ApplyPatch(c) => Becomes(c, [calls[c] EXCEPT !.at = "patched", !.log = log])
         /\ Compute(c) => Becomes(c, [calls[c] EXCEPT
                 !.at = "computed", !.memories = calls[c].memories \cup memories,
                 !.log = [p \in Proposals |-> IF log[p] > 0 THEN 1 ELSE 0]])
  <1>0. TypeOK /\ calls[c] \in Call
    BY DEF IInv, TypeOK
  <1>1. /\ saved \subseteq Sources /\ memories \subseteq Proposals /\ log \in [Proposals -> Nat]
        /\ calls[c].memories \subseteq Proposals
        /\ [p \in Proposals |-> IF log[p] > 0 THEN 1 ELSE 0] \in [Proposals -> Nat]
    BY <1>0 DEF TypeOK, Call
  <1>2. {"loaded", "waiting", "patched", "computed"} \subseteq Stages
    BY DEF Stages, Held
  <1>3. LoadSources(c) => Becomes(c, [calls[c] EXCEPT !.at = "loaded", !.sources = saved])
    <2> DEFINE r == [calls[c] EXCEPT !.at = "loaded", !.sources = saved]
    <2>1. r \in Call
      BY <1>0, <1>1, <1>2 DEF Call
    <2>2. LoadSources(c) => calls' = [calls EXCEPT ![c] = r]
      BY DEF LoadSources
    <2>3. ASSUME r \in Call, calls' = [calls EXCEPT ![c] = r] PROVE Becomes(c, r)
      <3> HIDE DEF r
      <3> QED BY <1>0, <2>3, Assign
    <2> QED BY <2>1, <2>2, <2>3
  <1>4. LoadMemories(c) => Becomes(c, [calls[c] EXCEPT !.at = "waiting", !.memories = memories])
    <2> DEFINE r == [calls[c] EXCEPT !.at = "waiting", !.memories = memories]
    <2>1. r \in Call
      BY <1>0, <1>1, <1>2 DEF Call
    <2>2. LoadMemories(c) => calls' = [calls EXCEPT ![c] = r]
      BY DEF LoadMemories
    <2>3. ASSUME r \in Call, calls' = [calls EXCEPT ![c] = r] PROVE Becomes(c, r)
      <3> HIDE DEF r
      <3> QED BY <1>0, <2>3, Assign
    <2> QED BY <2>1, <2>2, <2>3
  <1>5. ApplyPatch(c) => Becomes(c, [calls[c] EXCEPT !.at = "patched", !.log = log])
    <2> DEFINE r == [calls[c] EXCEPT !.at = "patched", !.log = log]
    <2>1. r \in Call
      BY <1>0, <1>1, <1>2 DEF Call
    <2>2. ApplyPatch(c) => calls' = [calls EXCEPT ![c] = r]
      BY DEF ApplyPatch
    <2>3. ASSUME r \in Call, calls' = [calls EXCEPT ![c] = r] PROVE Becomes(c, r)
      <3> HIDE DEF r
      <3> QED BY <1>0, <2>3, Assign
    <2> QED BY <2>1, <2>2, <2>3
  <1>6. Compute(c) => Becomes(c, [calls[c] EXCEPT
                 !.at = "computed", !.memories = calls[c].memories \cup memories,
                 !.log = [p \in Proposals |-> IF log[p] > 0 THEN 1 ELSE 0]])
    <2> DEFINE r == [calls[c] EXCEPT
                 !.at = "computed", !.memories = calls[c].memories \cup memories,
                 !.log = [p \in Proposals |-> IF log[p] > 0 THEN 1 ELSE 0]]
    <2>1. r \in Call
      BY <1>0, <1>1, <1>2 DEF Call
    <2>2. Compute(c) => calls' = [calls EXCEPT ![c] = r]
      BY DEF Compute
    <2>3. ASSUME r \in Call, calls' = [calls EXCEPT ![c] = r] PROVE Becomes(c, r)
      <3> HIDE DEF r
      <3> QED BY <1>0, <2>3, Assign
    <2> QED BY <2>1, <2>2, <2>3
  <1> QED BY <1>3, <1>4, <1>5, <1>6

\* The steps of one call.
Steps(c) ==
  \/ \E p \in Proposals : Propose(c, p) \/ Decide(c, "commit", p) \/ Decide(c, "reject", p)
  \/ \E s \in Sources : DeleteSource(c, s) \/ Patch(c, s)
  \/ Recompile(c)
  \/ Acquire(c) \/ TimeOut(c) \/ Fail(c) \/ Crash(c)
  \/ Stage(c) \/ Write(c)
  \/ Append(c) \/ Remember(c) \/ Record(c) \/ Discard(c)
  \/ Reject(c)
  \/ LoadSources(c) \/ LoadMemories(c)
  \/ Compute(c) \/ RewriteMemories(c) \/ RewriteLog(c)
  \/ ApplyPatch(c)

\* Calls are well typed after any step of one of them.
LEMMA StepCalls ==
  ASSUME IInv, NEW c \in Calls, Steps(c)
  PROVE  calls' \in [Calls -> Call] /\ started' \in 0 .. MaxCalls
  <1> DEFINE CallsOK == calls \in [Calls -> Call]
             StartedOK == started \in 0 .. MaxCalls
  <1>0. CallsOK /\ StartedOK /\ TypeOK /\ Fits(c)
    BY DEF TypeOK, IInv
  <1>a. ASSUME calls' = [calls EXCEPT ![c] = NoCall] PROVE CallsOK'
    BY <1>0, <1>a, NoCallIsCall
  <1>b. ASSUME NEW stage \in Stages, To(c, stage) PROVE CallsOK'
    BY <1>0, <1>b, ToBecomes DEF Becomes
  <1>c. ASSUME NEW stage \in {"waiting", "loading"}, NEW kind \in Kinds,
               NEW x \in Proposals \cup Sources \cup {None}, Begin(c, stage, kind, x)
        PROVE  CallsOK' /\ StartedOK'
    <2>1. CallsOK'
      BY <1>0, <1>c, BeginBecomes DEF Becomes, Stages
    <2>2. StartedOK'
      BY <1>0, <1>c, MaxCallsAssumption DEF Begin
    <2> QED BY <2>1, <2>2
  <1>1. ASSUME NEW p \in Proposals,
               Propose(c, p) \/ Decide(c, "commit", p) \/ Decide(c, "reject", p)
        PROVE  CallsOK' /\ StartedOK'
    BY <1>1, <1>c DEF Propose, Decide, Kinds
  <1>2. ASSUME NEW s \in Sources, DeleteSource(c, s) \/ Patch(c, s)
        PROVE  CallsOK' /\ StartedOK'
    BY <1>2, <1>c DEF DeleteSource, Patch, Kinds
  <1>3. CASE Recompile(c)
    BY <1>3, <1>c DEF Recompile, Kinds
  <1>4. CASE Acquire(c)
    <2>1. calls[c].kind \in Kinds
      BY <1>0, <1>4 DEF Fits, Acquire, At
    <2>2. Opened[calls[c].kind] \in Stages
      BY <2>1 DEF Opened, Kinds, Stages, Held
    <2>3. CallsOK'
      BY <1>4, <1>b, <2>2 DEF Acquire
    <2> QED BY <1>0, <1>4, <2>3 DEF Acquire
  <1>5. CASE TimeOut(c) \/ Fail(c) \/ Crash(c)
    BY <1>0, <1>5, <1>a DEF TimeOut, Fail, Crash
  <1>6. CASE Write(c) \/ Discard(c) \/ RewriteLog(c)
    BY <1>0, <1>6, <1>a DEF Write, Discard, RewriteLog, Return
  <1>7. CASE Stage(c) \/ Append(c) \/ Remember(c) \/ Record(c) \/ Reject(c) \/ RewriteMemories(c)
    <2>1. \E stage \in {"staged", "appended", "remembered", "recorded", "rejected", "rewritten"} :
            To(c, stage)
      BY <1>7 DEF Stage, Append, Remember, Record, Reject, RewriteMemories
    <2>2. started' = started
      BY <1>7 DEF Stage, Append, Remember, Record, Reject, RewriteMemories
    <2> QED BY <1>0, <1>b, <2>1, <2>2 DEF Stages, Held
  <1>8. CASE LoadSources(c) \/ LoadMemories(c) \/ Compute(c) \/ ApplyPatch(c)
    <2>1. started' = started
      BY <1>8 DEF LoadSources, LoadMemories, Compute, ApplyPatch
    <2>2. CallsOK'
      BY <1>8, ReadBecomes DEF Becomes
    <2> QED BY <1>0, <2>1, <2>2
  <1> QED BY <1>1, <1>2, <1>3, <1>4, <1>5, <1>6, <1>7, <1>8 DEF Steps

\* So are the files and tables.
LEMMA StepTypes ==
  ASSUME IInv, NEW c \in Calls, Steps(c)
  PROVE  TypeOK'
  <1>0. /\ row \in [Proposals -> {"none", "pending", "committed", "rejected"}]
        /\ file \in [Proposals -> BOOLEAN]
        /\ log \in [Proposals -> Nat]
        /\ memories \subseteq Proposals /\ audited \subseteq Proposals
        /\ saved \subseteq Sources /\ evidence \subseteq Sources
        /\ locked \in BOOLEAN /\ calls[c] \in Call /\ Fits(c)
    BY DEF IInv, TypeOK
  <1>1. calls' \in [Calls -> Call] /\ started' \in 0 .. MaxCalls
    BY StepCalls
  <1>2. /\ calls[c].memories \subseteq Proposals /\ calls[c].sources \subseteq Sources
        /\ calls[c].log \in [Proposals -> Nat]
    BY <1>0 DEF Call
  <1>3. CASE \/ \E p \in Proposals : Propose(c, p) \/ Decide(c, "commit", p) \/ Decide(c, "reject", p)
             \/ \E s \in Sources : DeleteSource(c, s) \/ Patch(c, s)
             \/ Recompile(c)
    BY <1>0, <1>1, <1>3 DEF TypeOK, Propose, Decide, DeleteSource, Patch, Recompile, proposed, files
  <1>4. CASE Acquire(c) \/ TimeOut(c) \/ Fail(c) \/ Crash(c)
    BY <1>0, <1>1, <1>4 DEF TypeOK, Acquire, TimeOut, Fail, Crash, proposed, files
  <1>5. CASE LoadSources(c) \/ LoadMemories(c)
    BY <1>0, <1>1, <1>5 DEF TypeOK, LoadSources, LoadMemories, proposed, files
  <1>6. CASE Stage(c) \/ Reject(c)
    BY <1>0, <1>1, <1>6 DEF TypeOK, Stage, Reject, files
  <1>7. CASE Write(c) \/ Discard(c)
    <2>1. file' \in [Proposals -> BOOLEAN]
      BY <1>0, <1>7 DEF Write, Discard
    <2>2. locked' \in BOOLEAN
      BY <1>7 DEF Write, Discard, Return
    <2> QED BY <1>0, <1>1, <1>7, <2>1, <2>2 DEF TypeOK, Write, Discard, files
  <1>8. CASE Append(c)
    BY <1>0, <1>1, <1>8 DEF TypeOK, Append, proposed
  <1>9. CASE Remember(c)
    <2>1. calls[c].about \in Proposals
      BY <1>0, <1>9 DEF Remember, At, Fits
    <2> QED BY <1>0, <1>1, <1>9, <2>1 DEF TypeOK, Remember, proposed
  <1>10. CASE Record(c)
    <2>1. calls[c].about \in Proposals
      BY <1>0, <1>10 DEF Record, At, Fits
    <2>2. row' \in [Proposals -> {"none", "pending", "committed", "rejected"}]
      BY <1>0, <1>10, <2>1 DEF Record
    <2> QED BY <1>0, <1>1, <1>10, <2>1, <2>2 DEF TypeOK, Record, files
  <1>11. CASE Compute(c) \/ RewriteMemories(c)
    BY <1>0, <1>1, <1>2, <1>11 DEF TypeOK, Compute, RewriteMemories, proposed
  <1>12. CASE RewriteLog(c)
    <2>1. locked' \in BOOLEAN
      BY <1>12 DEF RewriteLog, Return
    <2> QED BY <1>0, <1>1, <1>2, <1>12, <2>1 DEF TypeOK, RewriteLog, proposed
  <1>13. CASE ApplyPatch(c)
    BY <1>0, <1>1, <1>13 DEF TypeOK, ApplyPatch, proposed
  <1> QED BY <1>3, <1>4, <1>5, <1>6, <1>7, <1>8, <1>9, <1>10, <1>11, <1>12, <1>13 DEF Steps

-----------------------------------------------------------------------------
(* Every step preserves the invariant.                                     *)

\* What is written down of a call does not matter to the ones below.
LEMMA CallStep ==
  ASSUME IInv, NEW c \in Calls
  PROVE  /\ TypeOK /\ calls[c] \in Call /\ Fits(c) /\ Loaded(c) /\ HolderKnows(c)
         /\ LockIsExclusive /\ AcceptedIsKept /\ MemoriesAreSupported
         /\ log \in [Proposals -> Nat] /\ memories \subseteq Proposals
  BY DEF IInv, TypeOK

\* Calls that begin.
LEMMA BeginSteps ==
  ASSUME IInv, NEW c \in Calls, TypeOK',
         \/ \E p \in Proposals : Propose(c, p) \/ Decide(c, "commit", p) \/ Decide(c, "reject", p)
         \/ \E s \in Sources : DeleteSource(c, s) \/ Patch(c, s)
         \/ Recompile(c)
  PROVE  IInv'
  <1>1. CASE \E p \in Proposals : Propose(c, p) \/ Decide(c, "commit", p) \/ Decide(c, "reject", p)
    <2>1. PICK p \in Proposals : \E kind \in {"propose", "commit", "reject"} :
                                   Begin(c, "waiting", kind, p)
      BY <1>1 DEF Propose, Decide
    <2>2. UNCHANGED <<log, memories, evidence, audited, locked>>
      BY <1>1 DEF Propose, Decide, proposed, files
    <2> QED BY <2>1, <2>2, BeginStep DEF Kinds
  <1>2. CASE \E s \in Sources : DeleteSource(c, s) \/ Patch(c, s)
    <2>1. PICK s \in Sources : \/ Begin(c, "loading", "materialize", s)
                               \/ Begin(c, "waiting", "patch", s)
      BY <1>2 DEF DeleteSource, Patch
    <2>2. UNCHANGED <<log, memories, evidence, audited, locked>>
      BY <1>2 DEF DeleteSource, Patch, proposed, files
    <2> QED BY <2>1, <2>2, BeginStep DEF Kinds
  <1>3. CASE Recompile(c)
    <2>1. Begin(c, "loading", "materialize", None)
      BY <1>3 DEF Recompile
    <2>2. UNCHANGED <<log, memories, evidence, audited, locked>>
      BY <1>3 DEF Recompile, proposed, files
    <2> QED BY <2>1, <2>2, BeginStep DEF Kinds
  <1> QED BY <1>1, <1>2, <1>3

\* Calls that end.
LEMMA EndSteps ==
  ASSUME IInv, NEW c \in Calls, TypeOK',
         TimeOut(c) \/ Fail(c) \/ Crash(c) \/ Write(c) \/ Discard(c) \/ RewriteLog(c)
  PROVE  IInv'
  <1>0. HolderKnows(c)
    BY CallStep
  <1>1. CASE TimeOut(c)
    BY <1>1, EndStep DEF TimeOut, proposed, files
  <1>2. CASE Fail(c)
    <2>1. locked' \/ ~locked \/ Holds(c)
      BY <1>2 DEF Fail, Holds
    <2> QED BY <1>2, <2>1, EndStep DEF Fail, proposed, files
  <1>3. CASE Crash(c)
    BY <1>3, EndStep DEF Crash, proposed, files
  <1>4. CASE Write(c) \/ Discard(c) \/ RewriteLog(c)
    <2>1. Holds(c)
      BY <1>4 DEF Write, Discard, RewriteLog, At, Holds, Held
    <2>2. calls' = [calls EXCEPT ![c] = NoCall]
      BY <1>4 DEF Write, Discard, RewriteLog, Return
    <2>3. RewriteLog(c) => log' = log
      BY <1>0 DEF RewriteLog, At, HolderKnows
    <2>4. UNCHANGED <<log, memories, evidence, audited>>
      BY <1>4, <2>3 DEF Write, Discard, RewriteLog, proposed, files
    <2> QED BY <2>1, <2>2, <2>4, EndStep
  <1> QED BY <1>1, <1>2, <1>3, <1>4

\* Steps that leave the files of the workspace alone.
LEMMA MoveSteps ==
  ASSUME IInv, NEW c \in Calls, TypeOK',
         Acquire(c) \/ Stage(c) \/ Record(c) \/ Reject(c)
  PROVE  IInv'
  <1>0. Fits(c) /\ HolderKnows(c) /\ (Holds(c) => locked)
    BY CallStep DEF LockIsExclusive
  <1>1. CASE Acquire(c)
    <2>1. calls[c].kind \in Kinds /\ calls[c].at # "idle"
      BY <1>0, <1>1 DEF Fits, Acquire, At
    <2> DEFINE stage == Opened[calls[c].kind]
    <2>2. /\ stage \in Held
          /\ stage \notin {"appended", "computed", "rewritten", "patched", "remembered", "staged",
                           "recorded", "rejected"}
          /\ stage = "proposing" => calls[c].kind = "propose"
          /\ stage = "committing" => calls[c].kind = "commit"
          /\ stage = "rejecting" => calls[c].kind = "reject"
          /\ stage = "computing" => calls[c].kind = "materialize"
          /\ stage = "patching" => calls[c].kind = "patch"
      BY <2>1 DEF Opened, Kinds, Held
    <2>3. To(c, stage) /\ locked' /\ ~locked /\ UNCHANGED <<log, memories, evidence, audited>>
      BY <1>1 DEF Acquire, proposed, files
    <2> HIDE DEF stage
    <2> QED BY <2>1, <2>2, <2>3, MoveStep
  <1>2. CASE Stage(c)
    <2>1. Holds(c) /\ calls[c].kind = "propose" /\ calls[c].at # "idle"
      BY <1>0, <1>2 DEF Stage, At, Holds, Held, Fits
    <2>2. To(c, "staged") /\ UNCHANGED <<log, memories, evidence, audited, locked>>
      BY <1>2 DEF Stage, files
    <2> QED BY <1>0, <2>1, <2>2, MoveStep DEF Held
  <1>3. CASE Reject(c)
    <2>1. Holds(c) /\ calls[c].kind = "reject" /\ calls[c].at # "idle"
      BY <1>0, <1>3 DEF Reject, At, Holds, Held, Fits
    <2>2. To(c, "rejected") /\ UNCHANGED <<log, memories, evidence, audited, locked>>
      BY <1>3 DEF Reject, files
    <2> QED BY <1>0, <2>1, <2>2, MoveStep DEF Held
  <1>4. CASE Record(c)
    <2>1. Holds(c) /\ calls[c].kind = "commit" /\ calls[c].at # "idle"
      BY <1>0, <1>4 DEF Record, At, Holds, Held, Fits
    <2>2. To(c, "recorded") /\ UNCHANGED <<log, memories, evidence, locked>>
      BY <1>4 DEF Record, files
    <2>3. \E p \in memories : audited' = audited \cup {p}
      BY <1>0, <1>4 DEF Record, At, HolderKnows
    <2> QED BY <1>0, <2>1, <2>2, <2>3, MoveStep DEF Held
  <1> QED BY <1>1, <1>2, <1>3, <1>4

\* Sources and memories are read with no lock held.
LEMMA LoadSteps ==
  ASSUME IInv, NEW c \in Calls, TypeOK', LoadSources(c) \/ LoadMemories(c)
  PROVE  IInv'
  <1>0. calls[c] \in Call /\ Fits(c)
    BY CallStep
  <1>1. CASE LoadSources(c)
    <2> DEFINE r == [calls[c] EXCEPT !.at = "loaded", !.sources = saved]
    <2>1. Becomes(c, r)
      BY <1>1, ReadBecomes
    <2>2. /\ r.at = "loaded" /\ r.kind = calls[c].kind /\ r.about = calls[c].about
          /\ r.memories = calls[c].memories
      BY <1>0 DEF Call
    <2> HIDE DEF r
    <2>3. Fits(c)'
      BY <1>0, <1>1, <2>1, <2>2 DEF LoadSources, At, Becomes, Fits
    <2>4. r \in Call
      BY <2>1 DEF Becomes
    <2>5. UNCHANGED <<log, memories, evidence, audited, locked>>
      BY <1>1 DEF LoadSources, proposed, files
    <2>6. r.at \notin Held
      BY <2>2 DEF Held
    <2>7. r.memories \subseteq calls[c].memories \cup memories
      BY <2>2
    <2> QED BY <2>1, <2>2, <2>3, <2>4, <2>5, <2>6, <2>7, QuietStep
  <1>2. CASE LoadMemories(c)
    <2> DEFINE r == [calls[c] EXCEPT !.at = "waiting", !.memories = memories]
    <2>1. Becomes(c, r)
      BY <1>2, ReadBecomes
    <2>2. /\ r.at = "waiting" /\ r.kind = calls[c].kind /\ r.about = calls[c].about
          /\ r.memories = memories
      BY <1>0 DEF Call
    <2> HIDE DEF r
    <2>3. Fits(c)'
      BY <1>0, <1>2, <2>1, <2>2 DEF LoadMemories, At, Becomes, Fits
    <2>4. r \in Call
      BY <2>1 DEF Becomes
    <2>5. UNCHANGED <<log, memories, evidence, audited, locked>>
      BY <1>2 DEF LoadMemories, proposed, files
    <2>6. r.at \notin Held
      BY <2>2 DEF Held
    <2>7. r.memories \subseteq calls[c].memories \cup memories
      BY <2>2
    <2> QED BY <2>1, <2>2, <2>3, <2>4, <2>5, <2>6, <2>7, QuietStep
  <1> QED BY <1>1, <1>2

\* A commit writes its acceptance, then its memory.
LEMMA CommitSteps ==
  ASSUME IInv, NEW c \in Calls, TypeOK', Append(c) \/ Remember(c)
  PROVE  IInv'
  <1>0. /\ TypeOK /\ calls[c] \in Call /\ Fits(c) /\ Loaded(c) /\ HolderKnows(c)
        /\ AcceptedIsKept /\ MemoriesAreSupported
        /\ log \in [Proposals -> Nat] /\ memories \subseteq Proposals
    BY CallStep
  <1>1. calls[c].at \in {"committing", "appended"} /\ Holds(c)
    BY DEF Append, Remember, At, Holds, Held
  <1>2. calls[c].about \in Proposals /\ calls[c].kind = "commit" /\ locked
    BY <1>0, <1>1 DEF Fits, IInv, LockIsExclusive
  <1> DEFINE p == calls[c].about
  <1>3. CASE Append(c)
    <2> DEFINE r == [calls[c] EXCEPT !.at = "appended"]
    <2>1. Becomes(c, r)
      BY <1>0, <1>3, ToBecomes DEF Append, Stages, Held
    <2>2. r.at = "appended" /\ r.kind = "commit" /\ r.about = p /\ r.memories = calls[c].memories
      BY <1>0, <1>2 DEF Call
    <2> HIDE DEF r
    <2>3. UNCHANGED <<memories, evidence, audited, locked>> /\ Supported(p)
      BY <1>3 DEF Append, proposed
    <2>4. log[p] <= 1 /\ log[p] \in Nat
      BY <1>0, <1>2 DEF AcceptedIsKept
    <2>5. log'[p] = 1 /\ \A q \in Proposals : q # p => log'[q] = log[q]
      BY <1>0, <1>2, <1>3, <2>4 DEF Append
    <2>6. \A q \in Proposals : log[q] = 1 => log'[q] = 1
      BY <2>5
    <2>7. AcceptedIsKept'
      BY <1>0, <2>3, <2>5, <2>6 DEF AcceptedIsKept
    <2>8. MemoriesAreSupported' /\ cites[p] \in evidence'
      BY <1>0, <2>3 DEF MemoriesAreSupported, Supported
    <2>9. calls'[c] = r /\ r \in Call
      BY <2>1 DEF Becomes
    <2>10. Fits(c)'
      BY <1>2, <2>2, <2>9 DEF Fits, Kinds
    <2>11. Loaded(c)'
      <3>1. calls[c].memories \subseteq Proposals
        BY <1>0 DEF Call
      <3> QED BY <1>0, <2>2, <2>6, <2>9, <3>1 DEF Loaded
    <2>12. HolderKnows(c)'
      BY <2>2, <2>5, <2>8, <2>9 DEF HolderKnows, Supported
    <2>13. locked'
      BY <1>2, <2>3
    <2> QED BY <1>1, <2>1, <2>6, <2>7, <2>8, <2>9, <2>10, <2>11, <2>12, <2>13, WriteStep
  <1>4. CASE Remember(c)
    <2> DEFINE r == [calls[c] EXCEPT !.at = "remembered"]
    <2>1. Becomes(c, r)
      BY <1>0, <1>4, ToBecomes DEF Remember, Stages, Held
    <2>2. r.at = "remembered" /\ r.kind = "commit" /\ r.about = p /\ r.memories = calls[c].memories
      BY <1>0, <1>2 DEF Call
    <2> HIDE DEF r
    <2>3. UNCHANGED <<log, evidence, audited, locked>> /\ memories' = memories \cup {p}
      BY <1>4 DEF Remember, proposed
    <2>4. log[p] = 1 /\ Supported(p)
      BY <1>0, <1>4 DEF Remember, At, HolderKnows
    <2>5. AcceptedIsKept'
      BY <1>0, <2>3, <2>4 DEF AcceptedIsKept
    <2>6. MemoriesAreSupported'
      BY <1>0, <2>3, <2>4 DEF MemoriesAreSupported, Supported
    <2>7. calls'[c] = r /\ r \in Call
      BY <2>1 DEF Becomes
    <2>8. Fits(c)'
      BY <1>2, <2>2, <2>7 DEF Fits, Kinds
    <2>9. Loaded(c)'
      BY <1>0, <2>2, <2>3, <2>7 DEF Loaded
    <2>10. HolderKnows(c)'
      BY <2>2, <2>3, <2>7 DEF HolderKnows
    <2>11. locked' /\ \A q \in Proposals : log[q] = 1 => log'[q] = 1
      BY <1>2, <2>3
    <2> QED BY <1>1, <2>1, <2>5, <2>6, <2>7, <2>8, <2>9, <2>10, <2>11, WriteStep
  <1> QED BY <1>3, <1>4

\* A materialization merges and writes, a patch adds a source's evidence.
LEMMA BuildSteps ==
  ASSUME IInv, NEW c \in Calls, TypeOK', Compute(c) \/ RewriteMemories(c) \/ ApplyPatch(c)
  PROVE  IInv'
  <1>0. /\ TypeOK /\ calls[c] \in Call /\ Fits(c) /\ Loaded(c) /\ HolderKnows(c)
        /\ AcceptedIsKept /\ MemoriesAreSupported
        /\ log \in [Proposals -> Nat] /\ memories \subseteq Proposals
    BY CallStep
  <1>1. calls[c].at \in {"computing", "computed", "patching"} /\ Holds(c)
    BY DEF Compute, RewriteMemories, ApplyPatch, At, Holds, Held
  <1>2. locked /\ calls[c].kind \in Kinds
    BY <1>0, <1>1 DEF Fits, IInv, LockIsExclusive
  <1>3. CASE Compute(c)
    <2> DEFINE merged == calls[c].memories \cup memories
               once == [p \in Proposals |-> IF log[p] > 0 THEN 1 ELSE 0]
               r == [calls[c] EXCEPT !.at = "computed", !.memories = merged, !.log = once]
    <2>1. Becomes(c, r)
      BY <1>3, ReadBecomes
    <2>2. /\ r.at = "computed" /\ r.kind = calls[c].kind /\ r.about = calls[c].about
          /\ r.memories = merged /\ r.log = once
      BY <1>0 DEF Call
    <2>3. once = log
      <3>1. \A p \in Proposals : log[p] <= 1 /\ log[p] \in Nat
        BY <1>0 DEF AcceptedIsKept
      <3>2. \A p \in Proposals : once[p] = log[p]
        BY <3>1
      <3> QED BY <1>0, <3>2
    <2> HIDE DEF r, once
    <2>4. /\ UNCHANGED <<log, memories, audited, locked>>
          /\ evidence' = calls[c].sources /\ Valid(merged, evidence')
      BY <1>3 DEF Compute, proposed
    <2>5. AcceptedIsKept'
      BY <1>0, <2>4 DEF AcceptedIsKept
    <2>6. MemoriesAreSupported'
      BY <2>4 DEF MemoriesAreSupported, Supported, Valid
    <2>7. calls'[c] = r /\ r \in Call
      BY <2>1 DEF Becomes
    <2>8. calls[c].kind = "materialize"
      BY <1>0, <1>3 DEF Compute, At, Fits
    <2>9. Fits(c)'
      BY <2>2, <2>7, <2>8 DEF Fits, Kinds
    <2>10. \A p \in merged : log[p] = 1
      BY <1>0 DEF Loaded, AcceptedIsKept
    <2>11. Loaded(c)'
      BY <2>2, <2>4, <2>7, <2>10 DEF Loaded
    <2>12. memories' \subseteq merged
      BY <2>4
    <2> HIDE DEF merged
    <2>13. HolderKnows(c)'
      BY <2>2, <2>3, <2>4, <2>7, <2>12 DEF HolderKnows, Valid
    <2>14. locked' /\ \A q \in Proposals : log[q] = 1 => log'[q] = 1
      BY <1>2, <2>4
    <2> QED BY <1>1, <2>1, <2>5, <2>6, <2>7, <2>9, <2>11, <2>13, <2>14, WriteStep
  <1>4. CASE RewriteMemories(c)
    <2> DEFINE r == [calls[c] EXCEPT !.at = "rewritten"]
    <2>1. Becomes(c, r)
      BY <1>0, <1>4, ToBecomes DEF RewriteMemories, Stages, Held
    <2>2. /\ r.at = "rewritten" /\ r.kind = calls[c].kind /\ r.about = calls[c].about
          /\ r.memories = calls[c].memories /\ r.log = calls[c].log
      BY <1>0 DEF Call
    <2> HIDE DEF r
    <2>3. UNCHANGED <<log, evidence, audited, locked>> /\ memories' = calls[c].memories
      BY <1>4 DEF RewriteMemories, proposed
    <2>4. /\ calls[c].log = log /\ memories \subseteq calls[c].memories
          /\ Valid(calls[c].memories, evidence) /\ calls[c].kind = "materialize"
      BY <1>0, <1>4 DEF RewriteMemories, At, HolderKnows, Fits
    <2>5. AcceptedIsKept'
      BY <1>0, <2>3, <2>4 DEF AcceptedIsKept, Loaded
    <2>6. MemoriesAreSupported'
      BY <2>3, <2>4 DEF MemoriesAreSupported, Supported, Valid
    <2>7. calls'[c] = r /\ r \in Call
      BY <2>1 DEF Becomes
    <2>8. Fits(c)'
      BY <2>2, <2>4, <2>7 DEF Fits, Kinds
    <2>9. Loaded(c)'
      BY <1>0, <2>2, <2>3, <2>7 DEF Loaded
    <2>10. HolderKnows(c)'
      BY <2>2, <2>3, <2>4, <2>7 DEF HolderKnows
    <2>11. locked' /\ \A q \in Proposals : log[q] = 1 => log'[q] = 1
      BY <1>2, <2>3
    <2> QED BY <1>1, <2>1, <2>5, <2>6, <2>7, <2>8, <2>9, <2>10, <2>11, WriteStep
  <1>5. CASE ApplyPatch(c)
    <2> DEFINE r == [calls[c] EXCEPT !.at = "patched", !.log = log]
    <2>1. Becomes(c, r)
      BY <1>5, ReadBecomes
    <2>2. /\ r.at = "patched" /\ r.kind = calls[c].kind /\ r.about = calls[c].about
          /\ r.memories = calls[c].memories /\ r.log = log
      BY <1>0 DEF Call
    <2> HIDE DEF r
    <2>3. /\ UNCHANGED <<log, memories, audited, locked>> /\ evidence \subseteq evidence'
          /\ calls[c].about \in Sources
      BY <1>0, <1>5 DEF ApplyPatch, proposed, TypeOK
    <2>4. calls[c].kind = "patch"
      BY <1>0, <1>5 DEF ApplyPatch, At, Fits
    <2>5. AcceptedIsKept'
      BY <1>0, <2>3 DEF AcceptedIsKept
    <2>6. MemoriesAreSupported'
      BY <1>0, <2>3 DEF MemoriesAreSupported, Supported
    <2>7. calls'[c] = r /\ r \in Call
      BY <2>1 DEF Becomes
    <2>8. Fits(c)'
      BY <2>2, <2>3, <2>4, <2>7 DEF Fits, Kinds
    <2>9. Loaded(c)'
      BY <1>0, <2>2, <2>3, <2>7 DEF Loaded
    <2>10. HolderKnows(c)'
      BY <2>2, <2>3, <2>7 DEF HolderKnows
    <2>11. locked' /\ \A q \in Proposals : log[q] = 1 => log'[q] = 1
      BY <1>2, <2>3
    <2> QED BY <1>1, <2>1, <2>5, <2>6, <2>7, <2>8, <2>9, <2>10, <2>11, WriteStep
  <1> QED BY <1>3, <1>4, <1>5

\* The lock of a killed process is removed when nobody holds it.
LEMMA RemoveLockStep ==
  ASSUME IInv, RemoveLock
  PROVE  IInv'
  <1>1. TypeOK'
    BY DEF IInv, TypeOK, RemoveLock, proposed, files
  <1>2. UNCHANGED <<calls, log, memories, evidence, audited>> /\ \A c \in Calls : ~Holds(c)
    BY DEF RemoveLock, proposed, files, Holds
  <1>3. LockIsExclusive'
    BY <1>2 DEF LockIsExclusive, Holds
  <1>4. \A c \in Calls : (Fits(c) /\ Loaded(c) /\ HolderKnows(c))'
    BY <1>2 DEF IInv, Fits, Loaded, HolderKnows, Supported
  <1>5. AcceptedIsKept' /\ MemoriesAreSupported'
    BY <1>2 DEF IInv, AcceptedIsKept, MemoriesAreSupported, Supported
  <1> QED BY <1>1, <1>3, <1>4, <1>5 DEF IInv

\* The invariant is inductive.
LEMMA NextIInv == IInv /\ [Next]_vars => IInv'
  <1> SUFFICES ASSUME IInv, [Next]_vars PROVE IInv'
    OBVIOUS
  <1>1. ASSUME NEW c \in Calls, Steps(c) PROVE IInv'
    <2>1. TypeOK'
      BY <1>1, StepTypes
    <2> QED BY <1>1, <2>1, BeginSteps, EndSteps, MoveSteps, LoadSteps, CommitSteps, BuildSteps
            DEF Steps
  <1>2. CASE UNCHANGED vars
    <2>1. TypeOK' /\ LockIsExclusive' /\ AcceptedIsKept' /\ MemoriesAreSupported'
      BY <1>2 DEF IInv, vars, TypeOK, LockIsExclusive, Holds, AcceptedIsKept,
                  MemoriesAreSupported, Supported
    <2>2. \A c \in Calls : (Fits(c) /\ Loaded(c) /\ HolderKnows(c))'
      BY <1>2 DEF IInv, vars, Fits, Loaded, HolderKnows, Supported
    <2> QED BY <2>1, <2>2 DEF IInv
  <1>3. Next => RemoveLock \/ \E c \in Calls : Steps(c)
    BY DEF Next, Steps
  <1> QED BY <1>1, <1>2, <1>3, RemoveLockStep

\* The invariant holds throughout.
THEOREM Invariance == Spec => []IInv
  <1> QED BY InitIInv, NextIInv, PTL DEF Spec

-----------------------------------------------------------------------------
(* What it gives.                                                          *)

\* Every variable keeps its type, in any number of calls.
THEOREM TypeCorrect == Spec => []TypeOK
  <1>1. IInv => TypeOK
    BY DEF IInv
  <1> QED BY <1>1, Invariance, PTL

\* The directory excludes: no two calls hold the lock, and the lock is not
\* free while one does, whatever is killed and whoever cleans up after it.
THEOREM LockExcludes == Spec => []LockIsExclusive
  <1>1. IInv => LockIsExclusive
    BY DEF IInv
  <1> QED BY <1>1, Invariance, PTL

\* What was accepted stays in both files, and is logged exactly once.
THEOREM AcceptedStays == Spec => []AcceptedIsKept
  <1>1. IInv => AcceptedIsKept
    BY DEF IInv
  <1> QED BY <1>1, Invariance, PTL

\* Memories rest on evidence, whatever is deleted between the reads.
THEOREM EvidenceStays == Spec => []MemoriesAreSupported
  <1>1. IInv => MemoriesAreSupported
    BY DEF IInv
  <1> QED BY <1>1, Invariance, PTL

\* A rejected proposal is not accepted: only a commit adds to the log, and it
\* looks at the row under the lock; whoever rewrites the log writes what is
\* in it.
THEOREM RejectedStays == Spec => RejectedStaysOut
  <1> DEFINE A == \A p \in Proposals : row[p] = "rejected" /\ log[p] = 0 => log'[p] = 0
  <1>1. IInv /\ [Next]_vars => [A]_vars
    <2> SUFFICES ASSUME IInv, Next PROVE A
      BY DEF vars
    <2>1. CASE log' = log
      BY <2>1
    <2>2. ASSUME NEW c \in Calls, Append(c) PROVE A
      <3>1. row[calls[c].about] # "rejected" /\ log \in [Proposals -> Nat]
        BY <2>2, CallStep DEF Append, Committable
      <3>2. \A p \in Proposals : p # calls[c].about => log'[p] = log[p]
        BY <2>2, <3>1 DEF Append
      <3> QED BY <3>1, <3>2
    <2>3. ASSUME NEW c \in Calls, RewriteLog(c) PROVE A
      <3>1. log' = log
        BY <2>3, CallStep DEF RewriteLog, At, HolderKnows
      <3> QED BY <3>1
    <2>4. \/ log' = log
          \/ \E c \in Calls : Append(c) \/ RewriteLog(c)
      BY DEF Next, Propose, Decide, DeleteSource, Patch, Recompile, Acquire, TimeOut, Fail,
             Crash, Stage, Write, Remember, Record, Discard, Reject, LoadSources, LoadMemories,
             Compute, RewriteMemories, ApplyPatch, RemoveLock, files
    <2> QED BY <2>1, <2>2, <2>3, <2>4
  <1> QED BY <1>1, Invariance, PTL DEF Spec, RejectedStaysOut
=============================================================================
