------------------------ MODULE EngineRuntime_proofs ------------------------
(***************************************************************************)
(* Proofs about EngineRuntime.  The inductive invariant adds to the two    *)
(* safety properties what the promises and the pipes look like: every      *)
(* request in the queue or active is pending, none is there twice, and     *)
(* only a running child has anything left to read.                         *)
(***************************************************************************)
EXTENDS EngineRuntime, TLAPS

\* The requests the runtime holds are pending and all different.
HeldArePending ==
  /\ active # None => outcome[active] = "pending"
  /\ \A i \in 1..Len(queue) : outcome[queue[i]] = "pending" /\ queue[i] # active
  /\ \A i, k \in 1..Len(queue) : queue[i] = queue[k] => i = k

\* Only running children have requests to read, and those that never ran said
\* nothing.
PipesOfTheLiving ==
  \A c \in Children : /\ proc[c] # "alive" => inbox[c] = << >>
                      /\ proc[c] \in {"unborn", "broken", "stillborn"} => outbox[c] = << >>

IInv == /\ TypeOK
        /\ OnlyActiveInFlight
        /\ NothingIsParked
        /\ HeldArePending
        /\ PipesOfTheLiving

\* What pump needs of the queue q and the promises o it is called with.
Pumpable(q, o) ==
  /\ q \in Seq(Requests)
  /\ o \in [Requests -> Outcomes]
  /\ \A i \in 1..Len(q) : o[q[i]] = "pending"
  /\ \A i, k \in 1..Len(q) : q[i] = q[k] => i = k
  /\ child = None => Len(q) <= 1
  /\ \A c \in heard : inbox[c] = << >> /\ outbox'[c] = << >>
  /\ outbox' \in [Children -> Seq(Lines)]
  /\ \A c \in Children :
       proc[c] \in {"unborn", "broken", "stillborn"} => outbox'[c] = << >>

-----------------------------------------------------------------------------

THEOREM InitIInv == Init => IInv
<1> SUFFICES ASSUME Init PROVE IInv
  OBVIOUS
<1>1. /\ queue = << >> /\ Len(queue) = 0 /\ queue \in Seq(Requests)
      /\ active = None /\ child = None /\ heard = {}
  BY DEF Init
<1>2. TypeOK
  <2>1. << >> \in Seq(Requests) /\ << >> \in Seq(Lines)
    OBVIOUS
  <2> QED
    BY <1>1, <2>1 DEF Init, TypeOK, ProcStates, Outcomes
<1>3. OnlyActiveInFlight /\ NothingIsParked /\ HeldArePending
  BY <1>1 DEF OnlyActiveInFlight, NothingIsParked, HeldArePending
<1>4. PipesOfTheLiving
  BY DEF Init, PipesOfTheLiving
<1> QED
  BY <1>2, <1>3, <1>4 DEF IInv

\* A step after which nothing is queued, active or to be delivered to the
\* runtime, and that gives no child anything to read, keeps the invariant.
LEMMA IdleIInv ==
  ASSUME TypeOK', PipesOfTheLiving', queue' = << >>, active' = None,
         \A c \in heard' : inbox'[c] = << >> /\ outbox'[c] = << >>
  PROVE  IInv'
<1>0. Len(<< >>) = 0
  OBVIOUS
<1>1. OnlyActiveInFlight'
  <2>1. ASSUME NEW c \in heard'
        PROVE  /\ c # child' => inbox'[c] = << >> /\ outbox'[c] = << >>
               /\ Len(inbox'[c]) + Len(outbox'[c]) <= 1
               /\ inbox'[c] # << >> => inbox'[c][1] = active'
               /\ outbox'[c] # << >> => outbox'[c][1].id = active'
    <3>1. inbox'[c] = << >> /\ outbox'[c] = << >>
      OBVIOUS
    <3>2. Len(inbox'[c]) + Len(outbox'[c]) <= 1
      BY <1>0, <3>1
    <3> QED
      BY <3>1, <3>2, Zenon
  <2> QED
    BY <2>1 DEF OnlyActiveInFlight
<1>2. Len(queue') = 0
  BY <1>0
<1>3. NothingIsParked' /\ HeldArePending'
  BY <1>2 DEF NothingIsParked, HeldArePending
<1> QED
  BY <1>1, <1>3 DEF IInv

\* pump leaves a state in which only the request it wrote is in flight.
LEMMA PumpIInv ==
  ASSUME IInv, NEW q, NEW o, Pumpable(q, o), Pump(q, o), partial' \in BOOLEAN
  PROVE  IInv'
  <1>0. TypeOK /\ PipesOfTheLiving
    BY DEF IInv
  <1>1. CASE q = << >>
    <2>1. /\ queue' = q /\ active' = None /\ outcome' = o
          /\ UNCHANGED <<child, stopping, heard, proc, inbox>>
      BY <1>1 DEF Pump
    <2> QED
      BY <1>0, <1>1, <2>1 DEF IInv, TypeOK, OnlyActiveInFlight, NothingIsParked,
         HeldArePending, PipesOfTheLiving, Pumpable
  <1>2. CASE q # << >>
    <2>0. /\ Head(q) = q[1] /\ Head(q) \in Requests
          /\ Tail(q) \in Seq(Requests) /\ Len(Tail(q)) = Len(q) - 1 /\ Len(q) >= 1
          /\ \A i \in 1..Len(Tail(q)) : Tail(q)[i] = q[i + 1] /\ i + 1 \in 1..Len(q)
      BY <1>2 DEF Pumpable
    <2>1. ASSUME NEW c \in Children, Written(q, c, o), proc' \in [Children -> ProcStates],
                 child' = c, stopping' \in BOOLEAN, heard' \in SUBSET Children,
                 heard' \subseteq heard \cup {c}, outbox'[c] = << >> \/ c \notin heard',
                 inbox[c] = << >> \/ c \notin heard',
                 \A d \in Children : d # c => proc'[d] = proc[d],
                 proc'[c] \in {"unborn", "broken", "stillborn"} => outbox'[c] = << >>,
                 proc'[c] # "alive" => inbox[c] = << >>
          PROVE  IInv'
      <3>1. /\ queue' = Tail(q) /\ active' = Head(q) /\ outcome' = o
            /\ inbox' = [inbox EXCEPT ![c] = IF proc'[c] = "alive" THEN Append(@, Head(q)) ELSE @]
        BY <2>1 DEF Written
      <3>2. TypeOK'
        BY <1>0, <2>0, <2>1, <3>1 DEF TypeOK, Pumpable
      <3>3. OnlyActiveInFlight'
        <4>1. ASSUME NEW d \in heard', d # c
              PROVE  inbox'[d] = << >> /\ outbox'[d] = << >>
          BY <1>0, <2>1, <3>1, <4>1 DEF Pumpable, TypeOK
        <4>2. ASSUME c \in heard'
              PROVE  /\ outbox'[c] = << >>
                     /\ inbox'[c] = << >> \/ inbox'[c] = <<Head(q)>>
          <5>1. inbox[c] = << >> /\ outbox'[c] = << >>
            BY <2>1, <4>2
          <5>2. inbox'[c] = IF proc'[c] = "alive" THEN Append(<< >>, Head(q)) ELSE << >>
            BY <1>0, <3>1, <5>1 DEF TypeOK
          <5> QED
            BY <2>0, <5>1, <5>2
        <4>3. ASSUME NEW d \in heard'
              PROVE  /\ d # child' => inbox'[d] = << >> /\ outbox'[d] = << >>
                     /\ Len(inbox'[d]) + Len(outbox'[d]) <= 1
                     /\ inbox'[d] # << >> => inbox'[d][1] = active'
                     /\ outbox'[d] # << >> => outbox'[d][1].id = active'
          <5>0. /\ Len(<< >>) = 0 /\ Len(<<Head(q)>>) = 1
                /\ <<Head(q)>>[1] = Head(q)
            OBVIOUS
          <5>1. CASE d # c
            <6>1. inbox'[d] = << >> /\ outbox'[d] = << >>
              BY <4>1, <4>3, <5>1
            <6>2. Len(inbox'[d]) = 0 /\ Len(outbox'[d]) = 0
              BY <5>0, <6>1
            <6> QED
              BY <6>1, <6>2
          <5>2. CASE d = c /\ inbox'[c] = << >>
            <6>1. inbox'[d] = << >> /\ outbox'[d] = << >> /\ d = child'
              BY <2>1, <4>2, <4>3, <5>2
            <6>2. Len(inbox'[d]) = 0 /\ Len(outbox'[d]) = 0
              BY <5>0, <6>1
            <6> QED
              BY <6>1, <6>2
          <5>3. CASE d = c /\ inbox'[c] = <<Head(q)>>
            <6>1. inbox'[d] = <<Head(q)>> /\ outbox'[d] = << >> /\ d = child'
              BY <2>1, <4>2, <4>3, <5>3
            <6>2. Len(inbox'[d]) = 1 /\ Len(outbox'[d]) = 0 /\ inbox'[d][1] = Head(q)
              BY <5>0, <6>1
            <6>3. outbox'[d] = << >> /\ d = child'
              BY <6>1
            <6>4. Len(inbox'[d]) + Len(outbox'[d]) <= 1
              BY <6>2
            <6>5. inbox'[d][1] = active'
              BY <3>1, <6>2
            <6> QED
              BY <6>3, <6>4, <6>5, Zenon
          <5> QED
            BY <4>2, <4>3, <5>1, <5>2, <5>3
        <4> QED
          BY <4>3 DEF OnlyActiveInFlight
      <3>4. NothingIsParked' /\ HeldArePending'
        <4>1. active' # None
          BY <2>0, <3>1, NoneAssumption
        <4>2. outcome'[active'] = "pending"
          BY <2>0, <3>1 DEF Pumpable
        <4>3. \A i \in 1..Len(Tail(q)) : o[Tail(q)[i]] = "pending" /\ Tail(q)[i] # Head(q)
          BY <2>0 DEF Pumpable
        <4>4. \A i, k \in 1..Len(Tail(q)) : Tail(q)[i] = Tail(q)[k] => i = k
          BY <2>0 DEF Pumpable
        <4> QED
          BY <3>1, <4>1, <4>2, <4>3, <4>4 DEF NothingIsParked, HeldArePending
      <3>5. PipesOfTheLiving'
        BY <1>0, <2>1, <3>1 DEF PipesOfTheLiving, Pumpable, TypeOK
      <3> QED
        BY <3>2, <3>3, <3>4, <3>5 DEF IInv
    <2>2. CASE child # None
      <3>1. /\ child \in Children
            /\ UNCHANGED <<child, stopping, heard, proc>>
            /\ IF proc[child] = "broken" THEN Unwritable(q, o) ELSE Written(q, child, o)
        BY <1>0, <1>2, <2>2 DEF Pump, TypeOK
      <3>2. CASE proc[child] = "broken"
        <4>1. /\ queue' = << >> /\ active' = None /\ UNCHANGED inbox
              /\ outcome' \in [Requests -> Outcomes]
          BY <3>1, <3>2 DEF Unwritable, Pumpable, Outcomes
        <4>2. TypeOK' /\ PipesOfTheLiving'
          BY <1>0, <3>1, <4>1 DEF TypeOK, PipesOfTheLiving, Pumpable
        <4>3. \A c \in heard' : inbox'[c] = << >> /\ outbox'[c] = << >>
          BY <3>1, <4>1 DEF Pumpable
        <4> QED
          BY <4>1, <4>2, <4>3, IdleIInv
      <3>3. CASE proc[child] # "broken"
        <4>1. Written(q, child, o)
          BY <3>1, <3>3
        <4>2. /\ proc' = proc /\ heard' = heard /\ child' = child /\ stopping' = stopping
          BY <3>1
        <4>3. /\ outbox'[child] = << >> \/ child \notin heard
              /\ inbox[child] = << >> \/ child \notin heard
              /\ proc[child] \in {"unborn", "broken", "stillborn"} => outbox'[child] = << >>
              /\ proc[child] # "alive" => inbox[child] = << >>
          BY <1>0, <3>1 DEF Pumpable, PipesOfTheLiving
        <4>4. /\ proc' \in [Children -> ProcStates]
              /\ stopping' \in BOOLEAN /\ heard' \in SUBSET Children
              /\ heard' \subseteq heard \cup {child}
              /\ \A d \in Children : d # child => proc'[d] = proc[d]
              /\ proc[child] \in {"unborn", "broken", "stillborn"} => outbox'[child] = << >>
          BY <1>0, <4>2, <4>3 DEF TypeOK
        <4> QED
          BY <2>1, <3>1, <4>1, <4>2, <4>3, <4>4
      <3> QED
        BY <3>2, <3>3
    <2>3. CASE child = None
      <3>1. /\ stopping' = FALSE
            /\ \/ SpawnThrows /\ Unstarted(q, o)
               \/ \E c \in Children : Spawns(c, "broken") /\ UNCHANGED heard /\ Unstarted(q, o)
               \/ \E c \in Children, state \in {"alive", "stillborn"} :
                    Spawns(c, state) /\ heard' = heard \cup {c} /\ Written(q, c, o)
        BY <1>2, <2>3 DEF Pump
      <3>2. ASSUME Unstarted(q, o), UNCHANGED heard, child' \in Children \cup {None},
                   proc' \in [Children -> ProcStates],
                   \A c \in Children : proc'[c] = proc[c] \/ (proc[c] = "unborn" /\ proc'[c] = "broken")
            PROVE  IInv'
        <4>1. /\ queue' = << >> /\ active' = None /\ UNCHANGED inbox
              /\ outcome' \in [Requests -> Outcomes]
          BY <2>0, <2>3, <3>2 DEF Unstarted, Pumpable, Outcomes
        <4>2. TypeOK'
          <5>1. queue' \in Seq(Requests) /\ active' \in Requests \cup {None}
            BY <4>1
          <5> QED
            BY <1>0, <3>1, <3>2, <4>1, <5>1 DEF TypeOK, Pumpable
        <4>3. PipesOfTheLiving'
          BY <1>0, <3>2, <4>1 DEF PipesOfTheLiving, Pumpable
        <4>4. \A c \in heard' : inbox'[c] = << >> /\ outbox'[c] = << >>
          BY <3>2, <4>1 DEF Pumpable
        <4> QED
          BY <4>1, <4>2, <4>3, <4>4, IdleIInv
      <3>3. CASE SpawnThrows /\ Unstarted(q, o)
        BY <1>0, <3>2, <3>3 DEF SpawnThrows, TypeOK
      <3>4. ASSUME NEW c \in Children, Spawns(c, "broken"), UNCHANGED heard, Unstarted(q, o)
            PROVE  IInv'
        BY <1>0, <3>2, <3>4 DEF Spawns, TypeOK, ProcStates
      <3>5. ASSUME NEW c \in Children, NEW state \in {"alive", "stillborn"},
                   Spawns(c, state), heard' = heard \cup {c}, Written(q, c, o)
            PROVE  IInv'
        <4>1. /\ proc[c] = "unborn" /\ child' = c /\ proc' = [proc EXCEPT ![c] = state]
          BY <3>5 DEF Spawns
        <4>2. /\ proc' \in [Children -> ProcStates]
              /\ proc'[c] = state
              /\ \A d \in Children : d # c => proc'[d] = proc[d]
          BY <1>0, <4>1 DEF TypeOK, ProcStates
        <4>3. inbox[c] = << >> /\ outbox'[c] = << >>
          BY <1>0, <4>1 DEF PipesOfTheLiving, Pumpable
        <4> QED
          BY <1>0, <2>1, <3>1, <3>5, <4>1, <4>2, <4>3 DEF TypeOK
      <3> QED
        BY <3>1, <3>3, <3>4, <3>5
    <2> QED
      BY <2>2, <2>3
  <1> QED
    BY <1>1, <1>2

-----------------------------------------------------------------------------
(* Every action keeps the invariant.                                       *)

\* The arithmetic of one thing in flight.
LEMMA AtMostOne ==
  ASSUME NEW m \in Nat, NEW n \in Nat, m + n <= 1
  PROVE  /\ n # 0 => n = 1 /\ m = 0
         /\ m # 0 => m = 1 /\ n = 0
         /\ n <= 1
OBVIOUS

LEMMA EmptySequence ==
  ASSUME NEW S, NEW s \in Seq(S)
  PROVE  Len(s) = 0 <=> s = << >>
OBVIOUS

\* Sequences with at most one element.
LEMMA ShortSequence ==
  ASSUME NEW S, NEW s \in Seq(S)
  PROVE  /\ Len(s) \in Nat
         /\ Len(s) = 0 <=> s = << >>
         /\ s # << >> => s[1] \in S /\ Head(s) = s[1] /\ 1 \in 1..Len(s)
         /\ Len(s) = 1 => Tail(s) = << >>
<1>1. Len(s) \in Nat /\ s \in [1..Len(s) -> S]
  OBVIOUS
<1>2. Len(s) = 0 <=> s = << >>
  OBVIOUS
<1>3. s # << >> => s[1] \in S /\ Head(s) = s[1] /\ 1 \in 1..Len(s)
  BY <1>1, <1>2
<1>4. ASSUME Len(s) = 1
      PROVE  Tail(s) = << >>
  <2>1. Tail(s) \in Seq(S) /\ Len(Tail(s)) = 0
    BY <1>4, <1>2
  <2> QED
    BY <2>1, EmptySequence
<1> QED
  BY <1>1, <1>2, <1>3, <1>4

\* What is in flight when nothing is active: nothing the runtime hears.
LEMMA IdlePipes ==
  ASSUME IInv, active = None, NEW c \in heard
  PROVE  inbox[c] = << >> /\ outbox[c] = << >>
<1>1. /\ inbox[c] \in Seq(Requests) /\ outbox[c] \in Seq(Lines)
      /\ inbox[c] # << >> => inbox[c][1] = None
      /\ outbox[c] # << >> => outbox[c][1].id = None
  BY DEF IInv, TypeOK, OnlyActiveInFlight
<1>2. inbox[c] # << >> => inbox[c][1] \in Requests
  BY <1>1
<1>3. outbox[c] # << >> => outbox[c][1].id \in Requests
  <2>1. outbox[c] # << >> => outbox[c][1] \in Lines
    BY <1>1
  <2> QED
    BY <2>1 DEF Lines
<1> QED
  BY <1>1, <1>2, <1>3, NoneAssumption

\* A line the runtime hears comes from its present child, is about the
\* active request and is the last thing in flight.
LEMMA HeardLine ==
  ASSUME IInv, NEW c \in heard, outbox[c] # << >>
  PROVE  /\ c = child
         /\ active \in Requests
         /\ outbox[c][1].id = active
         /\ inbox[c] = << >>
         /\ Tail(outbox[c]) = << >>
         /\ \A d \in heard : inbox[d] = << >> /\ (d # c => outbox[d] = << >>)
<1>1. /\ inbox[c] \in Seq(Requests) /\ outbox[c] \in Seq(Lines)
      /\ c = child
      /\ Len(inbox[c]) + Len(outbox[c]) <= 1
      /\ outbox[c][1].id = active
  BY DEF IInv, TypeOK, OnlyActiveInFlight
<1>2. Len(outbox[c]) = 1 /\ Len(inbox[c]) = 0 /\ outbox[c][1] \in Lines
  <2>1. Len(inbox[c]) \in Nat /\ Len(outbox[c]) \in Nat /\ Len(outbox[c]) # 0
    BY <1>1, ShortSequence
  <2>2. Len(outbox[c]) = 1 /\ Len(inbox[c]) = 0
    BY <1>1, <2>1, AtMostOne, Zenon
  <2> QED
    BY <1>1, <2>2, ShortSequence
<1>3. inbox[c] = << >> /\ Tail(outbox[c]) = << >>
  BY <1>1, <1>2, ShortSequence
<1>4. active \in Requests
  BY <1>1, <1>2 DEF Lines
<1>5. \A d \in heard : d # c => inbox[d] = << >> /\ outbox[d] = << >>
  BY <1>1 DEF IInv, OnlyActiveInFlight
<1> QED
  BY <1>1, <1>3, <1>4, <1>5

\* Rejecting everything at once keeps the invariant when nothing is in flight
\* any more that the runtime would hear.
LEMMA FailRuntimeIInv ==
  ASSUME IInv, FailRuntime, child' \in Children \cup {None}, stopping' \in BOOLEAN,
         partial' \in BOOLEAN, heard' \in SUBSET Children, PipesOfTheLiving',
         proc' \in [Children -> ProcStates], inbox' \in [Children -> Seq(Requests)],
         outbox' \in [Children -> Seq(Lines)],
         \A c \in heard' : inbox'[c] = << >> /\ outbox'[c] = << >>
  PROVE  IInv'
<1>1. queue' = << >> /\ active' = None /\ outcome' \in [Requests -> Outcomes]
  BY DEF FailRuntime, FailedRuntime, IInv, TypeOK, Outcomes
<1>2. << >> \in Seq(Requests)
  OBVIOUS
<1>3. TypeOK'
  BY <1>1, <1>2 DEF TypeOK
<1> QED
  BY <1>1, <1>3, IdleIInv

\* Changes of the pipes that keep whatever is in flight about the active
\* request leave the rest of the invariant alone.
LEMMA PipesIInv ==
  ASSUME IInv, UNCHANGED <<queue, active, outcome>>, child' \in Children \cup {None},
         stopping' \in BOOLEAN, partial' \in BOOLEAN, heard' \in SUBSET Children,
         proc' \in [Children -> ProcStates], inbox' \in [Children -> Seq(Requests)],
         outbox' \in [Children -> Seq(Lines)], OnlyActiveInFlight', PipesOfTheLiving'
  PROVE  IInv'
<1>1. TypeOK'
  BY DEF IInv, TypeOK
<1>2. NothingIsParked' /\ HeldArePending'
  BY DEF IInv, NothingIsParked, HeldArePending
<1> QED
  BY <1>1, <1>2 DEF IInv

LEMMA RunIInv ==
  ASSUME IInv, NEW r \in Requests, Run(r)
  PROVE  IInv'
<1>0. TypeOK /\ HeldArePending /\ PipesOfTheLiving /\ NothingIsParked
  BY DEF IInv
<1>1. outcome[r] = "new" /\ UNCHANGED outbox
  BY DEF Run
<1> DEFINE q == Append(queue, r)
           o == Settle(r, "pending")
<1>2. /\ q \in Seq(Requests) /\ Len(q) = Len(queue) + 1 /\ Len(queue) \in Nat
      /\ \A i \in 1..Len(queue) : q[i] = queue[i]
      /\ q[Len(q)] = r
  BY <1>0 DEF TypeOK
<1>3. o \in [Requests -> Outcomes] /\ o[r] = "pending" /\ \A s \in Requests : s # r => o[s] = outcome[s]
  BY <1>0 DEF TypeOK, Settle, Outcomes
<1>4. \A i \in 1..Len(queue) : queue[i] \in Requests /\ queue[i] # r
  BY <1>0, <1>1 DEF TypeOK, HeldArePending
<1>5. /\ \A i \in 1..Len(q) : o[q[i]] = "pending"
      /\ \A i, k \in 1..Len(q) : q[i] = q[k] => i = k
  <2>1. \A i \in 1..Len(q) : i \in 1..Len(queue) \/ i = Len(q)
    BY <1>2
  <2>2. \A i \in 1..Len(queue) : o[q[i]] = "pending"
    BY <1>0, <1>2, <1>3, <1>4 DEF HeldArePending
  <2> QED
    BY <1>0, <1>2, <1>3, <1>4, <2>1, <2>2 DEF HeldArePending
<1>6. CASE active # None
  <2>1. /\ queue' = q /\ outcome' = o
        /\ UNCHANGED <<active, child, stopping, partial, heard, proc, inbox, outbox>>
    BY <1>1, <1>6 DEF Run
  <2>2. active \in Requests /\ active # r
    BY <1>0, <1>1, <1>6 DEF TypeOK, HeldArePending
  <2>3. TypeOK'
    BY <1>0, <1>2, <1>3, <2>1 DEF TypeOK
  <2>4. HeldArePending'
    <3>1. \A i \in 1..Len(q) : q[i] # active
      BY <1>0, <1>2, <2>2 DEF HeldArePending
    <3>2. o[active] = "pending"
      BY <1>0, <1>3, <1>6, <2>2 DEF HeldArePending
    <3> QED
      BY <1>5, <2>1, <3>1, <3>2 DEF HeldArePending
  <2>5. NothingIsParked' /\ OnlyActiveInFlight' /\ PipesOfTheLiving'
    BY <1>6, <2>1 DEF IInv, NothingIsParked, OnlyActiveInFlight, PipesOfTheLiving
  <2> QED
    BY <2>3, <2>4, <2>5 DEF IInv
<1>7. CASE active = None
  <2>1. Pump(q, o) /\ partial' = (partial /\ child' = child)
    BY <1>7 DEF Run
  <2>2. queue = << >>
    BY <1>0, <1>7 DEF NothingIsParked
  <2>3. Len(q) <= 1
    BY <1>2, <2>2
  <2>4. \A c \in heard : inbox[c] = << >> /\ outbox[c] = << >>
    BY <1>7, IdlePipes
  <2>5. Pumpable(q, o)
    BY <1>0, <1>1, <1>2, <1>3, <1>5, <2>3, <2>4 DEF Pumpable, TypeOK, PipesOfTheLiving
  <2>6. partial' \in BOOLEAN
    BY <2>1
  <2> QED
    BY <2>1, <2>5, <2>6, PumpIInv
<1> QED
  BY <1>6, <1>7

LEMMA ResetIInv ==
  ASSUME IInv, Reset
  PROVE  IInv'
<1>1. /\ child' = None /\ FailRuntime /\ stopping' = FALSE /\ partial' = FALSE /\ heard' = {}
      /\ UNCHANGED <<proc, inbox, outbox>>
  BY DEF Reset
<1>2. TypeOK /\ PipesOfTheLiving
  BY DEF IInv
<1>3. PipesOfTheLiving'
  BY <1>1, <1>2 DEF PipesOfTheLiving
<1> QED
  BY <1>1, <1>2, <1>3, FailRuntimeIInv DEF TypeOK

LEMMA ServeIInv ==
  ASSUME IInv, NEW c \in Children, Serve(c)
  PROVE  IInv'
<1>0. TypeOK /\ PipesOfTheLiving /\ OnlyActiveInFlight
  BY DEF IInv
<1>1. PICK kind \in {"ok", "error", "refused"} :
        outbox' = [outbox EXCEPT ![c] = Append(@, [kind |-> kind, id |-> Head(inbox[c])])]
  BY DEF Serve
<1> DEFINE line == [kind |-> kind, id |-> Head(inbox[c])]
<1>2. /\ proc[c] = "alive" /\ inbox[c] # << >>
      /\ inbox' = [inbox EXCEPT ![c] = Tail(@)]
      /\ UNCHANGED <<runtime, proc, outcome>>
  BY DEF Serve
<1>3. /\ inbox[c] \in Seq(Requests) /\ outbox[c] \in Seq(Lines)
      /\ Head(inbox[c]) = inbox[c][1] /\ Head(inbox[c]) \in Requests
      /\ Tail(inbox[c]) \in Seq(Requests) /\ Len(Tail(inbox[c])) = Len(inbox[c]) - 1
      /\ Len(inbox[c]) \in Nat \ {0}
  BY <1>0, <1>2 DEF TypeOK
<1>4. line \in Lines
  BY <1>3 DEF Lines, LineKinds
<1>5. /\ inbox' \in [Children -> Seq(Requests)] /\ outbox' \in [Children -> Seq(Lines)]
      /\ inbox'[c] = Tail(inbox[c]) /\ outbox'[c] = Append(outbox[c], line)
      /\ \A d \in Children : d # c => inbox'[d] = inbox[d] /\ outbox'[d] = outbox[d]
  BY <1>0, <1>1, <1>2, <1>3, <1>4 DEF TypeOK
<1>6. PipesOfTheLiving'
  BY <1>0, <1>2, <1>5 DEF PipesOfTheLiving
<1>7. OnlyActiveInFlight'
  <2>1. CASE c \in heard
    <3>1. /\ c = child /\ Head(inbox[c]) = active
          /\ Len(inbox[c]) = 1 /\ Len(outbox[c]) = 0
      <4>1. /\ c = child /\ inbox[c][1] = active
            /\ Len(inbox[c]) + Len(outbox[c]) <= 1
        <5>1. /\ c # child => inbox[c] = << >>
              /\ inbox[c] # << >> => inbox[c][1] = active
              /\ Len(inbox[c]) + Len(outbox[c]) <= 1
          BY <1>0, <2>1 DEF OnlyActiveInFlight
        <5> QED
          BY <1>2, <5>1
      <4>2. Len(outbox[c]) \in Nat /\ Len(inbox[c]) \in Nat /\ Len(inbox[c]) # 0
        BY <1>3, ShortSequence
      <4>3. Len(inbox[c]) = 1 /\ Len(outbox[c]) = 0
        BY <4>1, <4>2, AtMostOne, Zenon
      <4> QED
        BY <1>3, <4>1, <4>3, Zenon
    <3>2. outbox[c] = << >> /\ Tail(inbox[c]) = << >>
      BY <1>3, <3>1, ShortSequence
    <3>3. Append(<< >>, line) = <<line>> /\ Len(<<line>>) = 1 /\ <<line>>[1] = line /\ Len(<< >>) = 0
      OBVIOUS
    <3>4. /\ inbox'[c] = << >> /\ Len(inbox'[c]) + Len(outbox'[c]) <= 1
          /\ outbox'[c][1].id = active
      <4>1. inbox'[c] = << >> /\ outbox'[c] = <<line>>
        BY <1>5, <3>2, <3>3
      <4>2. Len(inbox'[c]) = 0 /\ Len(outbox'[c]) = 1 /\ outbox'[c][1] = line
        BY <3>3, <4>1
      <4>3. line.id = active
        BY <3>1
      <4> HIDE DEF line
      <4> QED
        BY <4>1, <4>2, <4>3
    <3>5. UNCHANGED <<heard, child, active>>
      BY <1>2 DEF runtime
    <3> QED
      BY <1>0, <1>5, <3>1, <3>4, <3>5 DEF OnlyActiveInFlight, TypeOK
  <2>2. CASE c \notin heard
    BY <1>0, <1>2, <1>5, <2>2 DEF OnlyActiveInFlight, runtime, TypeOK
  <2> QED
    BY <2>1, <2>2
<1> QED
  BY <1>0, <1>2, <1>5, <1>6, <1>7, PipesIInv DEF runtime, TypeOK

LEMMA ExitIInv ==
  ASSUME IInv, NEW c \in Children, Exit(c)
  PROVE  IInv'
<1>0. TypeOK /\ PipesOfTheLiving /\ OnlyActiveInFlight
  BY DEF IInv
<1>1. /\ proc[c] = "alive"
      /\ proc' = [proc EXCEPT ![c] = "exited"]
      /\ inbox' = [inbox EXCEPT ![c] = << >>]
      /\ UNCHANGED <<runtime, outcome>>
  BY DEF Exit
<1>2. /\ proc' \in [Children -> ProcStates] /\ proc'[c] = "exited"
      /\ inbox' \in [Children -> Seq(Requests)] /\ inbox'[c] = << >>
      /\ \A d \in Children : d # c => inbox'[d] = inbox[d] /\ proc'[d] = proc[d]
  BY <1>0, <1>1 DEF TypeOK, ProcStates
<1>3. /\ outbox' \in [Children -> Seq(Lines)]
      /\ \A d \in Children : d # c => outbox'[d] = outbox[d]
      /\ Len(outbox'[c]) = Len(outbox[c])
      /\ outbox[c] = << >> => outbox'[c] = << >>
      /\ outbox[c] # << >> => outbox'[c][1].id = outbox[c][1].id
  <2>1. outbox[c] \in Seq(Lines)
    BY <1>0 DEF TypeOK
  <2>2. CASE UNCHANGED outbox
    BY <1>0, <2>2 DEF TypeOK
  <2>3. CASE /\ outbox[c] # << >>
             /\ outbox' = [outbox EXCEPT ![c][Len(outbox[c])].kind = "torn"]
    <3> DEFINE n == Len(outbox[c])
               last == [outbox[c][n] EXCEPT !.kind = "torn"]
               torn == [outbox[c] EXCEPT ![n] = last]
    <3>1. n \in Nat /\ 1 \in 1..n /\ n \in 1..n /\ outbox[c] \in [1..n -> Lines]
      BY <2>1, <2>3, ShortSequence
    <3>2. last \in Lines /\ last.id = outbox[c][n].id
      <4>1. outbox[c][n] \in Lines
        BY <3>1
      <4> QED
        BY <4>1 DEF Lines, LineKinds
    <3> HIDE DEF last
    <3>3. torn \in Seq(Lines) /\ Len(torn) = n /\ torn[1] = IF n = 1 THEN last ELSE outbox[c][1]
      BY <2>1, <3>1, <3>2
    <3>4. torn[1].id = outbox[c][1].id
      BY <3>2, <3>3
    <3>5. outbox' = [outbox EXCEPT ![c] = torn]
      BY <2>3 DEF last
    <3> HIDE DEF torn
    <3>6. /\ outbox'[c] = torn /\ outbox' \in [Children -> Seq(Lines)]
          /\ \A d \in Children : d # c => outbox'[d] = outbox[d]
      BY <1>0, <3>3, <3>5 DEF TypeOK
    <3> QED
      BY <2>3, <3>3, <3>4, <3>6
  <2> QED
    BY <2>2, <2>3 DEF Exit
<1>4. PipesOfTheLiving'
  BY <1>0, <1>1, <1>2, <1>3 DEF PipesOfTheLiving
<1>5. OnlyActiveInFlight'
  <2>1. UNCHANGED <<heard, child, active>> /\ heard \subseteq Children
    BY <1>0, <1>1 DEF runtime, TypeOK
  <2>2. ASSUME NEW d \in heard
        PROVE  /\ d # child => inbox'[d] = << >> /\ outbox'[d] = << >>
               /\ Len(inbox'[d]) + Len(outbox'[d]) <= 1
               /\ inbox'[d] # << >> => inbox'[d][1] = active
               /\ outbox'[d] # << >> => outbox'[d][1].id = active
    <3>1. CASE d = c
      <4>1. inbox[d] \in Seq(Requests) /\ outbox[d] \in Seq(Lines)
        BY <1>0, <3>1 DEF TypeOK
      <4>2. Len(inbox[d]) \in Nat /\ Len(outbox[d]) \in Nat /\ Len(<< >>) = 0
        BY <4>1, ShortSequence
      <4>3. /\ d # child => outbox[d] = << >>
            /\ Len(inbox[d]) + Len(outbox[d]) <= 1
            /\ outbox[d] # << >> => outbox[d][1].id = active
        BY <1>0 DEF OnlyActiveInFlight
      <4>4. inbox'[d] = << >> /\ Len(inbox'[d]) = 0
        BY <1>2, <3>1, <4>2
      <4>5. Len(inbox'[d]) + Len(outbox'[d]) <= 1
        <5>1. Len(outbox[d]) <= 1
          BY <4>2, <4>3, AtMostOne, Zenon
        <5>2. Len(outbox'[d]) = Len(outbox[d])
          BY <1>3, <3>1
        <5> QED
          BY <4>2, <4>4, <5>1, <5>2
      <4> QED
        BY <1>3, <3>1, <4>3, <4>4, <4>5
    <3>2. CASE d # c
      BY <1>0, <1>2, <1>3, <2>1, <3>2 DEF OnlyActiveInFlight
    <3> QED
      BY <3>1, <3>2
  <2> QED
    BY <2>1, <2>2 DEF OnlyActiveInFlight
<1> QED
  BY <1>0, <1>1, <1>2, <1>3, <1>4, <1>5, PipesIInv DEF runtime, TypeOK

LEMMA DeliverIInv ==
  ASSUME IInv, NEW c \in Children, Deliver(c)
  PROVE  IInv'
<1>0. TypeOK /\ PipesOfTheLiving /\ HeldArePending /\ NothingIsParked
  BY DEF IInv
<1>1. /\ outbox[c] # << >>
      /\ outbox' = [outbox EXCEPT ![c] = Tail(@)]
      /\ IF c \in heard THEN Hear(Head(outbox[c])) ELSE UNCHANGED <<runtime, proc, inbox, outcome>>
  BY DEF Deliver
<1>2. /\ outbox[c] \in Seq(Lines) /\ Tail(outbox[c]) \in Seq(Lines) /\ Head(outbox[c]) = outbox[c][1]
  BY <1>0, <1>1 DEF TypeOK
<1>3. /\ outbox' \in [Children -> Seq(Lines)] /\ outbox'[c] = Tail(outbox[c])
      /\ \A d \in Children : d # c => outbox'[d] = outbox[d]
  BY <1>0, <1>1, <1>2 DEF TypeOK
<1>4. \A d \in Children :
        proc[d] \in {"unborn", "broken", "stillborn"} => outbox'[d] = << >>
  BY <1>0, <1>1, <1>3 DEF PipesOfTheLiving
<1>5. CASE c \notin heard
  <2>1. UNCHANGED <<queue, active, child, stopping, partial, heard, proc, inbox, outcome>>
    BY <1>1, <1>5 DEF runtime
  <2>2. \A d \in heard : outbox'[d] = outbox[d]
    BY <1>0, <1>3, <1>5 DEF TypeOK
  <2>3. OnlyActiveInFlight' /\ PipesOfTheLiving'
    BY <1>0, <1>4, <2>1, <2>2 DEF IInv, OnlyActiveInFlight, PipesOfTheLiving
  <2> QED
    BY <1>0, <1>3, <2>1, <2>3, PipesIInv DEF TypeOK
<1>6. CASE c \in heard
  <2> DEFINE line == Head(outbox[c])
  <2>1. Hear(line)
    BY <1>1, <1>6
  <2>2. /\ c = child /\ active \in Requests /\ Tail(outbox[c]) = << >>
        /\ \A d \in heard : inbox[d] = << >> /\ (d # c => outbox[d] = << >>)
    BY <1>1, <1>6, HeardLine
  <2>3. \A d \in heard : inbox[d] = << >> /\ outbox'[d] = << >>
    BY <1>0, <1>3, <2>2 DEF TypeOK
  <2>4. active # None
    BY <2>2, NoneAssumption
  <2>5. ASSUME NEW result \in Outcomes, CompleteActive(result), partial' = FALSE
        PROVE  IInv'
    <3> DEFINE o == Settle(active, result)
    <3>1. o \in [Requests -> Outcomes] /\ \A r \in Requests : r # active => o[r] = outcome[r]
      BY <1>0, <2>2 DEF TypeOK, Settle
    <3>2. \A i \in 1..Len(queue) : queue[i] \in Requests /\ queue[i] # active /\ outcome[queue[i]] = "pending"
      BY <1>0 DEF TypeOK, HeldArePending
    <3>3. child # None
      BY <1>0, <2>2, NoneAssumption
    <3>4. Pumpable(queue, o)
      BY <1>0, <1>3, <1>4, <2>3, <3>1, <3>2, <3>3 DEF Pumpable, TypeOK, HeldArePending
    <3> QED
      BY <2>5, <3>4, PumpIInv DEF CompleteActive
  <2>6. CASE line.kind = "torn"
    <3>1. /\ partial' = TRUE
          /\ UNCHANGED <<queue, active, child, stopping, heard, proc, inbox, outcome>>
      BY <2>1, <2>6 DEF Hear
    <3>2. Len(<< >>) = 0
      OBVIOUS
    <3>3. OnlyActiveInFlight'
      <4>1. ASSUME NEW d \in heard
            PROVE  /\ d # child => inbox[d] = << >> /\ outbox'[d] = << >>
                   /\ Len(inbox[d]) + Len(outbox'[d]) <= 1
                   /\ inbox[d] # << >> => inbox[d][1] = active
                   /\ outbox'[d] # << >> => outbox'[d][1].id = active
        <5>1. inbox[d] = << >> /\ outbox'[d] = << >>
          BY <2>3
        <5>2. Len(inbox[d]) + Len(outbox'[d]) <= 1
          BY <3>2, <5>1
        <5> QED
          BY <5>1, <5>2, Zenon
      <4> QED
        BY <3>1, <4>1 DEF OnlyActiveInFlight
    <3>4. PipesOfTheLiving'
      BY <1>0, <1>4, <3>1 DEF PipesOfTheLiving
    <3> QED
      BY <1>0, <1>3, <3>1, <3>3, <3>4, PipesIInv DEF TypeOK
  <2>7. CASE line.kind # "torn" /\ ~partial /\ (line.kind = "refused" \/ line.id # active)
    <3>1. Stop /\ UNCHANGED <<heard, proc, inbox>> /\ partial' = FALSE
      BY <2>1, <2>4, <2>7 DEF Hear
    <3>2. PipesOfTheLiving'
      BY <1>0, <1>4, <3>1 DEF PipesOfTheLiving
    <3>3. /\ FailRuntime /\ child' = None /\ stopping' = TRUE
          /\ proc' \in [Children -> ProcStates] /\ heard' \in SUBSET Children
          /\ inbox' \in [Children -> Seq(Requests)]
          /\ \A d \in heard' : inbox'[d] = << >> /\ outbox'[d] = << >>
      BY <1>0, <2>3, <3>1 DEF Stop, TypeOK
    <3> QED
      BY <1>3, <3>1, <3>2, <3>3, FailRuntimeIInv
  <2>8. CASE line.kind # "torn" /\ (partial \/ ~(line.kind = "refused" \/ line.id # active))
    <3>1. /\ partial' = FALSE
          /\ \/ CompleteActive("failed")
             \/ CompleteActive("answered")
      BY <2>1, <2>4, <2>8 DEF Hear
    <3> QED
      BY <2>5, <3>1 DEF Outcomes
  <2> QED
    BY <2>6, <2>7, <2>8
<1> QED
  BY <1>5, <1>6

LEMMA ErrorIInv ==
  ASSUME IInv, NEW c \in Children, Error(c)
  PROVE  IInv'
<1>0. TypeOK /\ PipesOfTheLiving /\ OnlyActiveInFlight
  BY DEF IInv
<1>1. /\ proc[c] = "stillborn"
      /\ proc' = [proc EXCEPT ![c] = "exited"]
      /\ UNCHANGED <<inbox, outbox>>
  BY DEF Error
<1>2. proc' \in [Children -> ProcStates] /\ PipesOfTheLiving'
  BY <1>0, <1>1 DEF TypeOK, ProcStates, PipesOfTheLiving
<1>3. \/ UNCHANGED <<runtime, outcome>>
      \/ /\ FailRuntime /\ child = c
         /\ UNCHANGED <<child, stopping, partial, heard>>
  BY DEF Error
<1>4. CASE UNCHANGED <<runtime, outcome>>
  <2>1. OnlyActiveInFlight'
    BY <1>0, <1>1, <1>4 DEF OnlyActiveInFlight, runtime
  <2> QED
    BY <1>0, <1>1, <1>2, <1>4, <2>1, PipesIInv DEF runtime, TypeOK
<1>5. CASE /\ FailRuntime /\ child = c
           /\ UNCHANGED <<child, stopping, partial, heard>>
  <2>1. \A d \in heard : inbox[d] = << >> /\ (d # c => outbox[d] = << >>)
    BY <1>0, <1>1, <1>5 DEF OnlyActiveInFlight, PipesOfTheLiving
  <2>2. outbox[c] = << >>
    BY <1>0, <1>1 DEF PipesOfTheLiving
  <2> QED
    BY <1>0, <1>1, <1>2, <1>5, <2>1, <2>2, FailRuntimeIInv DEF TypeOK
<1> QED
  BY <1>3, <1>4, <1>5

LEMMA CloseIInv ==
  ASSUME IInv, NEW c \in Children, Close(c)
  PROVE  IInv'
<1>0. TypeOK /\ PipesOfTheLiving /\ OnlyActiveInFlight
  BY DEF IInv
<1>1. /\ proc[c] = "exited" /\ outbox[c] = << >>
      /\ proc' = [proc EXCEPT ![c] = "closed"]
      /\ UNCHANGED <<stopping, heard, inbox, outbox>>
  BY DEF Close
<1>2. proc' \in [Children -> ProcStates] /\ PipesOfTheLiving'
  BY <1>0, <1>1 DEF TypeOK, ProcStates, PipesOfTheLiving
<1>3. CASE ~(c \in heard /\ child = c)
  <2>1. UNCHANGED <<queue, active, child, partial, outcome>>
    BY <1>3 DEF Close
  <2>2. OnlyActiveInFlight'
    BY <1>0, <1>1, <2>1 DEF OnlyActiveInFlight
  <2> QED
    BY <1>0, <1>1, <1>2, <2>1, <2>2, PipesIInv DEF TypeOK
<1>4. CASE c \in heard /\ child = c
  <2>1. /\ child' = None /\ partial' = FALSE
        /\ IF stopping THEN UNCHANGED <<queue, active, outcome>> ELSE FailRuntime
    BY <1>4 DEF Close
  <2>2. \A d \in heard : inbox[d] = << >> /\ outbox[d] = << >>
    BY <1>0, <1>1, <1>4 DEF OnlyActiveInFlight, PipesOfTheLiving
  <2>3. CASE ~stopping
    BY <1>0, <1>1, <1>2, <2>1, <2>2, <2>3, FailRuntimeIInv DEF TypeOK
  <2>4. CASE stopping
    <3>1. \A d \in heard : Len(inbox[d]) + Len(outbox[d]) <= 1
      BY <1>0 DEF OnlyActiveInFlight
    <3>2. OnlyActiveInFlight'
      BY <1>0, <1>1, <2>2, <3>1 DEF OnlyActiveInFlight
    <3> QED
      BY <1>0, <1>1, <1>2, <2>1, <2>4, <3>2, PipesIInv DEF TypeOK
  <2> QED
    BY <2>3, <2>4
<1> QED
  BY <1>3, <1>4

THEOREM NextIInv == IInv /\ [Next]_vars => IInv'
<1> SUFFICES ASSUME IInv, [Next]_vars PROVE IInv'
  OBVIOUS
<1>1. ASSUME NEW r \in Requests, Run(r) PROVE IInv'
  BY <1>1, RunIInv
<1>2. CASE Reset
  BY <1>2, ResetIInv
<1>3. ASSUME NEW c \in Children, Serve(c) PROVE IInv'
  BY <1>3, ServeIInv
<1>4. ASSUME NEW c \in Children, Exit(c) PROVE IInv'
  BY <1>4, ExitIInv
<1>5. ASSUME NEW c \in Children, Deliver(c) PROVE IInv'
  BY <1>5, DeliverIInv
<1>6. ASSUME NEW c \in Children, Error(c) PROVE IInv'
  BY <1>6, ErrorIInv
<1>7. ASSUME NEW c \in Children, Close(c) PROVE IInv'
  BY <1>7, CloseIInv
<1>8. CASE UNCHANGED vars
  BY <1>8 DEF vars, IInv, TypeOK, OnlyActiveInFlight, NothingIsParked, HeldArePending,
     PipesOfTheLiving
<1> QED
  BY <1>1, <1>2, <1>3, <1>4, <1>5, <1>6, <1>7, <1>8 DEF Next

THEOREM SpecIInv == Spec => []IInv
  BY InitIInv, NextIInv, PTL DEF Spec

\* The runtime's fields, pipes and promises keep their types.
THEOREM TypeCorrect == Spec => []TypeOK
<1>1. IInv => TypeOK
  BY DEF IInv
<1> QED
  BY <1>1, SpecIInv, PTL

\* Whatever the runtime can still hear is about the request it waits for.
THEOREM InFlight == Spec => []OnlyActiveInFlight
<1>1. IInv => OnlyActiveInFlight
  BY DEF IInv
<1> QED
  BY <1>1, SpecIInv, PTL

\* The queue is empty whenever nothing is active.
THEOREM NoRequestParked == Spec => []NothingIsParked
<1>1. IInv => NothingIsParked
  BY DEF IInv
<1> QED
  BY <1>1, SpecIInv, PTL

\* The promises pump leaves settled are those it was given settled.
LEMMA PumpKeepsSettled ==
  ASSUME NEW q \in Seq(Requests), NEW o \in [Requests -> Outcomes], Pump(q, o),
         \A i \in 1..Len(q) : o[q[i]] = "pending",
         NEW r \in Requests, o[r] \in {"answered", "failed"}
  PROVE  outcome'[r] = o[r]
<1>1. CASE q = << >>
  BY <1>1 DEF Pump
<1>2. CASE q # << >>
  <2>1. Head(q) = q[1] /\ 1 \in 1..Len(q)
    BY <1>2, ShortSequence
  <2>2. r # Head(q)
    BY <2>1
  <2>3. Unstarted(q, o) \/ Unwritable(q, o) \/ \E c : Written(q, c, o)
    BY <1>2 DEF Pump
  <2>4. CASE Unstarted(q, o)
    BY <2>2, <2>4 DEF Unstarted
  <2>5. CASE Unwritable(q, o)
    BY <2>5 DEF Unwritable
  <2>6. CASE \E c : Written(q, c, o)
    BY <2>6 DEF Written
  <2> QED
    BY <2>3, <2>4, <2>5, <2>6
<1> QED
  BY <1>1, <1>2

\* Rejecting what the runtime holds rejects nothing that was settled.
LEMMA FailRuntimeKeepsSettled ==
  ASSUME IInv, FailRuntime, NEW r \in Requests, outcome[r] \in {"answered", "failed"}
  PROVE  outcome'[r] = outcome[r]
<1>1. active # None => outcome[active] = "pending"
  BY DEF IInv, HeldArePending
<1>2. r # active
  BY <1>1, NoneAssumption
<1>3. r \notin Queued
  BY DEF IInv, HeldArePending, Queued
<1> QED
  BY <1>2, <1>3 DEF FailRuntime, FailedRuntime

LEMMA StepKeepsSettled ==
  ASSUME IInv, Next, NEW r \in Requests, outcome[r] \in {"answered", "failed"}
  PROVE  outcome'[r] = outcome[r]
<1>0. TypeOK /\ HeldArePending
  BY DEF IInv
<1>1. ASSUME NEW s \in Requests, Run(s)
      PROVE  outcome'[r] = outcome[r]
  <2> DEFINE q == Append(queue, s)
             o == Settle(s, "pending")
  <2>1. outcome[s] = "new" /\ r # s
    BY <1>1 DEF Run
  <2>2. o \in [Requests -> Outcomes] /\ o[r] = outcome[r] /\ o[s] = "pending"
    BY <1>0, <2>1 DEF Settle, TypeOK, Outcomes
  <2>3. /\ q \in Seq(Requests)
        /\ \A i \in 1..Len(q) : q[i] = s \/ \E k \in 1..Len(queue) : q[i] = queue[k]
    BY <1>0 DEF TypeOK
  <2>4. \A k \in 1..Len(queue) : queue[k] \in Requests /\ queue[k] # s /\ outcome[queue[k]] = "pending"
    BY <1>0, <2>1 DEF HeldArePending, TypeOK
  <2>5. \A i \in 1..Len(q) : o[q[i]] = "pending"
    BY <1>0, <2>2, <2>3, <2>4 DEF Settle, TypeOK
  <2>6. outcome' = o \/ Pump(q, o)
    BY <1>1 DEF Run
  <2> HIDE DEF q, o
  <2> QED
    BY <2>2, <2>3, <2>5, <2>6, PumpKeepsSettled
<1>2. CASE Reset
  BY <1>2, FailRuntimeKeepsSettled DEF Reset
<1>3. ASSUME NEW c \in Children, Serve(c) \/ Exit(c)
      PROVE  outcome'[r] = outcome[r]
  BY <1>3 DEF Serve, Exit
<1>4. ASSUME NEW c \in Children, Deliver(c)
      PROVE  outcome'[r] = outcome[r]
  <2>1. CASE c \notin heard
    BY <1>4, <2>1 DEF Deliver
  <2>2. CASE c \in heard
    <3>1. active \in Requests /\ active # None
      BY <1>4, <2>2, HeardLine, NoneAssumption DEF Deliver
    <3>2. r # active
      BY <1>0, <3>1 DEF HeldArePending
    <3>3. ASSUME NEW result \in Outcomes, CompleteActive(result)
          PROVE  outcome'[r] = outcome[r]
      <4> DEFINE o == Settle(active, result)
      <4>1. o \in [Requests -> Outcomes] /\ o[r] = outcome[r]
        BY <1>0, <3>1, <3>2 DEF Settle, TypeOK
      <4>2. \A i \in 1..Len(queue) : o[queue[i]] = "pending"
        BY <1>0, <3>1 DEF HeldArePending, Settle, TypeOK
      <4>3. Pump(queue, o) /\ queue \in Seq(Requests)
        BY <1>0, <3>3 DEF CompleteActive, TypeOK
      <4> HIDE DEF o
      <4> QED
        BY <4>1, <4>2, <4>3, PumpKeepsSettled
    <3>4. \/ outcome' = outcome
          \/ CompleteActive("failed")
          \/ CompleteActive("answered")
          \/ Stop
      BY <1>4, <2>2 DEF Deliver, Hear
    <3> QED
      BY <3>3, <3>4, FailRuntimeKeepsSettled DEF Stop, Outcomes
  <2> QED
    BY <2>1, <2>2
<1>5. ASSUME NEW c \in Children, Error(c) \/ Close(c)
      PROVE  outcome'[r] = outcome[r]
  <2>1. FailRuntime \/ outcome' = outcome
    BY <1>5 DEF Error, Close
  <2> QED
    BY <2>1, FailRuntimeKeepsSettled
<1> QED
  BY <1>1, <1>2, <1>3, <1>4, <1>5 DEF Next

\* A settled promise is never settled again, whatever happens to the child
\* and to the other requests.
THEOREM PromisesSettleOnce == Spec => SettledStays
<1>1. ASSUME IInv, [Next]_vars
      PROVE  [\A r \in Requests :
                outcome[r] \in {"answered", "failed"} => outcome'[r] = outcome[r]]_vars
  BY <1>1, StepKeepsSettled
<1> QED
  BY <1>1, SpecIInv, PTL DEF Spec, SettledStays

-----------------------------------------------------------------------------
(* Nobody is forgotten.                                                    *)

\* Every pending request is one the runtime holds.
PendingIsHeld == \A r \in Requests : outcome[r] = "pending" => r = active \/ r \in Queued

\* The active request was written to a child whose events the runtime hears,
\* which has a line to read or to deliver if it runs, and an error or close
\* event to deliver if it does not.
ActiveIsAwaited ==
  active # None =>
    /\ child \in heard
    /\ proc[child] \in {"alive", "stillborn", "exited"}
    /\ proc[child] = "alive" => inbox[child] # << >> \/ outbox[child] # << >>

\* A child that was kept is heard unless it is broken, and was not stopped.
\* Its lines are whole as long as it runs.
ChildIsHeard ==
  child # None =>
    /\ ~stopping
    /\ proc[child] \in {"alive", "stillborn", "exited", "broken"}
    /\ child \in heard \/ proc[child] = "broken"
    /\ proc[child] = "alive" /\ outbox[child] # << >> => outbox[child][1].kind # "torn"

Attended == PendingIsHeld /\ ActiveIsAwaited /\ ChildIsHeard

AttendedInv == IInv /\ Attended

\* The requests in a sequence are its first one and the rest.
LEMMA HeadOrTail ==
  ASSUME NEW q \in Seq(Requests), q # << >>, NEW i \in 1..Len(q)
  PROVE  q[i] = Head(q) \/ \E k \in 1..Len(Tail(q)) : Tail(q)[k] = q[i]
<1>1. Len(Tail(q)) = Len(q) - 1 /\ \A k \in 1..Len(Tail(q)) : Tail(q)[k] = q[k + 1]
  OBVIOUS
<1>2. i = 1 \/ i - 1 \in 1..Len(Tail(q))
  BY <1>1
<1>3. CASE i = 1
  BY <1>3
<1>4. CASE i - 1 \in 1..Len(Tail(q))
  <2>1. Tail(q)[i - 1] = q[(i - 1) + 1] /\ (i - 1) + 1 = i
    BY <1>1, <1>4
  <2> QED
    BY <1>4, <2>1
<1> QED
  BY <1>2, <1>3, <1>4

\* A sequence that was appended to has an element, the new one if it was empty.
LEMMA AppendedLine ==
  ASSUME NEW S, NEW s \in Seq(S), NEW e \in S, NEW t, t = Append(s, e)
  PROVE  t # << >> /\ (s = << >> => t[1] = e)
<1>1. t \in Seq(S) /\ Len(t) = Len(s) + 1 /\ Len(s) \in Nat /\ t[Len(s) + 1] = e
  OBVIOUS
<1>2. t # << >>
  <2>1. Len(t) # 0
    BY <1>1
  <2> QED
    BY <1>1, <2>1, ShortSequence
<1>3. s = << >> => Len(s) = 0
  OBVIOUS
<1>4. Len(s) = 0 => t[1] = e
  BY <1>1
<1> QED
  BY <1>2, <1>3, <1>4

\* So is the pipe of a child that a request was written to.
LEMMA InboxGrows ==
  ASSUME NEW c, NEW r \in Requests, inbox[c] \in Seq(Requests), inbox'[c] = Append(inbox[c], r)
  PROVE  inbox'[c] # << >>
<1>1. Len(Append(inbox[c], r)) = Len(inbox[c]) + 1 /\ Len(inbox[c]) \in Nat
  OBVIOUS
<1>2. Len(inbox'[c]) # 0
  BY <1>1
<1>3. inbox'[c] \in Seq(Requests)
  OBVIOUS
<1> QED
  BY <1>2, <1>3, ShortSequence

\* pump leaves a request with a child that will answer it or end, or rejects it.
LEMMA PumpAttends ==
  ASSUME TypeOK, ChildIsHeard, NEW q \in Seq(Requests), NEW o \in [Requests -> Outcomes],
         Pump(q, o), outbox' \in [Children -> Seq(Lines)],
         \A r \in Requests : o[r] = "pending" => \E i \in 1..Len(q) : q[i] = r,
         \A c \in heard : outbox'[c] = << >>,
         \A c \in Children : proc[c] = "unborn" => outbox'[c] = << >>
  PROVE  Attended'
<1>1. CASE q = << >>
  <2>1. /\ queue' = q /\ active' = None /\ outcome' = o
        /\ UNCHANGED <<child, stopping, heard, proc, inbox>>
    BY <1>1 DEF Pump
  <2>2. Len(q) = 0
    BY <1>1
  <2>3. PendingIsHeld'
    BY <2>1, <2>2 DEF PendingIsHeld
  <2>4. ActiveIsAwaited' /\ ChildIsHeard'
    BY <2>1 DEF ActiveIsAwaited, ChildIsHeard
  <2> QED
    BY <2>3, <2>4 DEF Attended
<1>2. CASE q # << >>
  <2>1. Head(q) \in Requests /\ Tail(q) \in Seq(Requests) /\ Head(q) # None
    <3>1. Head(q) = q[1] /\ q[1] \in Requests /\ Tail(q) \in Seq(Requests)
      BY <1>2
    <3> QED
      BY <3>1, NoneAssumption
  <2>2. ASSUME queue' = Tail(q), active' = Head(q), outcome' = o
        PROVE  PendingIsHeld'
    BY <1>2, <2>2, HeadOrTail DEF PendingIsHeld, Queued
  <2>3. ASSUME Unstarted(q, o), child' = None \/ proc'[child'] = "broken", stopping' = FALSE
        PROVE  Attended'
    <3>1. queue' = Tail(q) /\ active' = None /\ outcome' = [o EXCEPT ![Head(q)] = "failed"]
      BY <2>3 DEF Unstarted
    <3>2. \A r \in Requests : outcome'[r] = "pending" => o[r] = "pending" /\ r # Head(q)
      BY <2>1, <3>1
    <3>3. PendingIsHeld'
      BY <1>2, <3>1, <3>2, HeadOrTail DEF PendingIsHeld, Queued
    <3>4. ActiveIsAwaited' /\ ChildIsHeard'
      BY <2>3, <3>1 DEF ActiveIsAwaited, ChildIsHeard
    <3> QED
      BY <3>3, <3>4 DEF Attended
  <2>4. ASSUME NEW c \in Children, Written(q, c, o), child' = c, stopping' = FALSE, c \in heard',
               proc'[c] \in {"alive", "stillborn", "exited"}, outbox'[c] = << >>
        PROVE  Attended'
    <3>1. /\ queue' = Tail(q) /\ active' = Head(q) /\ outcome' = o
          /\ inbox' = [inbox EXCEPT ![c] = IF proc'[c] = "alive" THEN Append(@, Head(q)) ELSE @]
      BY <2>4 DEF Written
    <3>2. inbox[c] \in Seq(Requests)
      BY DEF TypeOK
    <3>3. ASSUME proc'[c] = "alive" PROVE inbox'[c] # << >>
      <4>1. inbox'[c] = Append(inbox[c], Head(q))
        BY <3>1, <3>3 DEF TypeOK
      <4>2. Head(q) \in Requests /\ inbox[c] \in Seq(Requests)
        BY <2>1, <3>2
      <4> QED
        BY <4>1, <4>2, InboxGrows
    <3>4. PendingIsHeld'
      BY <2>2, <3>1
    <3>5. ActiveIsAwaited' /\ ChildIsHeard'
      BY <2>4, <3>3 DEF ActiveIsAwaited, ChildIsHeard
    <3> QED
      BY <3>4, <3>5 DEF Attended
  <2>5. CASE child # None
    <3>1. /\ UNCHANGED <<child, stopping, heard, proc>>
          /\ IF proc[child] = "broken" THEN Unwritable(q, o) ELSE Written(q, child, o)
          /\ child \in Children
      BY <1>2, <2>5 DEF Pump, TypeOK
    <3>2. CASE proc[child] = "broken"
      <4>1. /\ queue' = << >> /\ active' = None
            /\ outcome' = [r \in Requests |->
                             IF \E i \in 1..Len(q) : q[i] = r THEN "failed" ELSE o[r]]
        BY <3>1, <3>2 DEF Unwritable
      <4>2. PendingIsHeld'
        BY <4>1 DEF PendingIsHeld
      <4>3. ActiveIsAwaited' /\ ChildIsHeard'
        BY <2>5, <3>1, <3>2, <4>1 DEF ActiveIsAwaited, ChildIsHeard
      <4> QED
        BY <4>2, <4>3 DEF Attended
    <3>3. CASE proc[child] # "broken"
      <4>1. Written(q, child, o)
        BY <3>1, <3>3
      <4>2. /\ child \in heard' /\ stopping' = FALSE /\ child' = child
            /\ proc'[child] \in {"alive", "stillborn", "exited"}
        BY <2>5, <3>1, <3>3 DEF ChildIsHeard, TypeOK
      <4>3. outbox'[child] = << >>
        BY <3>1, <4>2
      <4> QED
        BY <2>4, <3>1, <4>1, <4>2, <4>3
    <3> QED
      BY <3>2, <3>3
  <2>6. CASE child = None
    <3>1. stopping' = FALSE
      BY <1>2, <2>6 DEF Pump
    <3>2. CASE SpawnThrows /\ Unstarted(q, o)
      BY <2>3, <2>6, <3>1, <3>2 DEF SpawnThrows
    <3>3. ASSUME NEW c \in Children, Spawns(c, "broken"), Unstarted(q, o)
          PROVE  Attended'
      <4>1. child' = c /\ proc'[c] = "broken"
        BY <3>3 DEF Spawns, TypeOK
      <4> QED
        BY <2>3, <3>1, <3>3, <4>1
    <3>4. ASSUME NEW c \in Children, NEW state \in {"alive", "stillborn"}, Spawns(c, state),
                 heard' = heard \cup {c}, Written(q, c, o)
          PROVE  Attended'
      <4>1. child' = c /\ proc'[c] = state /\ outbox'[c] = << >>
        BY <3>4 DEF Spawns, TypeOK
      <4> QED
        BY <2>4, <3>1, <3>4, <4>1
    <3> QED
      BY <1>2, <2>6, <3>2, <3>3, <3>4 DEF Pump
  <2> QED
    BY <2>5, <2>6
<1> QED
  BY <1>1, <1>2

\* When all is rejected nobody is left to be forgotten.
LEMMA FailRuntimeAttends ==
  ASSUME PendingIsHeld, FailRuntime, ChildIsHeard'
  PROVE  Attended'
<1>1. active' = None /\ \A r \in Requests : outcome'[r] # "pending"
  BY DEF FailRuntime, FailedRuntime, PendingIsHeld
<1> QED
  BY <1>1 DEF Attended, PendingIsHeld, ActiveIsAwaited

LEMMA RunAttends ==
  ASSUME AttendedInv, NEW r \in Requests, Run(r)
  PROVE  Attended'
<1>0. TypeOK /\ NothingIsParked /\ PipesOfTheLiving /\ Attended
  BY DEF AttendedInv, IInv
<1> DEFINE q == Append(queue, r)
           o == Settle(r, "pending")
<1>1. /\ q \in Seq(Requests) /\ Len(q) = Len(queue) + 1 /\ Len(queue) \in Nat
      /\ \A i \in 1..Len(queue) : q[i] = queue[i]
      /\ q[Len(q)] = r
  BY <1>0 DEF TypeOK
<1>2. o \in [Requests -> Outcomes] /\ \A s \in Requests : s # r => o[s] = outcome[s]
  BY <1>0 DEF TypeOK, Settle, Outcomes
<1>3. \A s \in Requests : o[s] = "pending" =>
        s = active \/ \E i \in 1..Len(q) : q[i] = s
  <2> SUFFICES ASSUME NEW s \in Requests, o[s] = "pending", s # active
               PROVE  \E i \in 1..Len(q) : q[i] = s
    OBVIOUS
  <2>1. CASE s = r
    <3>1. Len(q) \in 1..Len(q)
      BY <1>1
    <3> QED
      BY <1>1, <2>1, <3>1
  <2>2. CASE s # r
    <3>1. PICK i \in 1..Len(queue) : queue[i] = s
      BY <1>0, <1>2, <2>2 DEF Attended, PendingIsHeld, Queued
    <3>2. i \in 1..Len(q) /\ q[i] = s
      BY <1>1, <3>1
    <3> QED
      BY <3>2
  <2> QED
    BY <2>1, <2>2
<1>4. CASE active # None
  <2>1. /\ queue' = q /\ outcome' = o
        /\ UNCHANGED <<active, child, stopping, heard, proc, inbox, outbox>>
    BY <1>4 DEF Run
  <2>2. PendingIsHeld'
    BY <1>3, <2>1 DEF PendingIsHeld, Queued
  <2>3. ActiveIsAwaited' /\ ChildIsHeard'
    BY <1>0, <2>1 DEF Attended, ActiveIsAwaited, ChildIsHeard
  <2> QED
    BY <2>2, <2>3 DEF Attended
<1>5. CASE active = None
  <2>1. Pump(q, o) /\ outbox' = outbox
    BY <1>5 DEF Run
  <2>2. \A c \in heard : outbox'[c] = << >>
    BY <1>5, <2>1, IdlePipes DEF AttendedInv
  <2>3. \A s \in Requests : o[s] = "pending" => \E i \in 1..Len(q) : q[i] = s
    BY <1>3, <1>5, NoneAssumption
  <2>4. /\ outbox' \in [Children -> Seq(Lines)]
        /\ \A c \in Children : proc[c] = "unborn" => outbox'[c] = << >>
    BY <1>0, <2>1 DEF TypeOK, PipesOfTheLiving
  <2> HIDE DEF q, o
  <2> QED
    BY <1>0, <1>1, <1>2, <2>1, <2>2, <2>3, <2>4, PumpAttends DEF Attended
<1> QED
  BY <1>4, <1>5

\* A line that is heard settles the active request, or its child has ended.
LEMMA DeliverAttends ==
  ASSUME AttendedInv, NEW c \in Children, Deliver(c)
  PROVE  Attended'
<1>0. IInv /\ TypeOK /\ PipesOfTheLiving /\ Attended
  BY DEF AttendedInv, IInv
<1>1. /\ outbox[c] # << >>
      /\ outbox' = [outbox EXCEPT ![c] = Tail(@)]
      /\ IF c \in heard THEN Hear(Head(outbox[c])) ELSE UNCHANGED <<runtime, proc, inbox, outcome>>
  BY DEF Deliver
<1>2. /\ outbox[c] \in Seq(Lines) /\ Tail(outbox[c]) \in Seq(Lines)
      /\ Head(outbox[c]) = outbox[c][1]
  BY <1>0, <1>1 DEF TypeOK
<1>3. /\ outbox' \in [Children -> Seq(Lines)] /\ outbox'[c] = Tail(outbox[c])
      /\ \A d \in Children : d # c => outbox'[d] = outbox[d]
  BY <1>0, <1>1, <1>2 DEF TypeOK
<1>4. CASE c \notin heard
  <2>1. UNCHANGED <<queue, active, child, stopping, heard, proc, inbox, outcome>>
    BY <1>1, <1>4 DEF runtime
  <2>2. child # None => child \in Children
    BY <1>0 DEF TypeOK
  <2>3. PendingIsHeld'
    BY <1>0, <2>1 DEF Attended, PendingIsHeld, Queued
  <2>4. ActiveIsAwaited'
    <3>1. active # None => child # None /\ child # c
      BY <1>0, <1>4, NoneAssumption DEF Attended, ActiveIsAwaited, TypeOK
    <3> QED
      BY <1>0, <1>3, <2>1, <2>2, <3>1 DEF Attended, ActiveIsAwaited
  <2>5. ChildIsHeard'
    <3>1. child # None /\ proc[child] = "alive" => child # c
      BY <1>0, <1>4 DEF Attended, ChildIsHeard
    <3> QED
      BY <1>0, <1>3, <2>1, <2>2, <3>1 DEF Attended, ChildIsHeard
  <2> QED
    BY <2>3, <2>4, <2>5 DEF Attended
<1>5. CASE c \in heard
  <2> DEFINE line == Head(outbox[c])
  <2>1. Hear(line)
    BY <1>1, <1>5
  <2>2. /\ c = child /\ active \in Requests /\ active # None /\ Tail(outbox[c]) = << >>
        /\ \A d \in heard : d # c => outbox[d] = << >>
    BY <1>0, <1>1, <1>5, HeardLine, NoneAssumption
  <2>3. \A d \in heard : outbox'[d] = << >>
    BY <1>0, <1>3, <2>2 DEF TypeOK
  <2>4. child # None
    BY <2>2, NoneAssumption
  <2>5. CASE line.kind = "torn"
    <3>1. UNCHANGED <<queue, active, child, stopping, heard, proc, inbox, outcome>>
      BY <2>1, <2>5 DEF Hear
    <3>2. proc[child] # "alive"
      BY <1>0, <1>1, <1>2, <2>2, <2>4, <2>5 DEF Attended, ChildIsHeard
    <3> QED
      BY <1>0, <3>1, <3>2 DEF Attended, PendingIsHeld, Queued, ActiveIsAwaited, ChildIsHeard
  <2>6. CASE line.kind # "torn" /\ ~partial /\ (line.kind = "refused" \/ line.id # active)
    <3>1. FailRuntime /\ child' = None
      BY <2>1, <2>2, <2>6 DEF Hear, Stop
    <3>2. ChildIsHeard'
      BY <3>1 DEF ChildIsHeard
    <3> QED
      BY <1>0, <3>1, <3>2, FailRuntimeAttends DEF Attended
  <2>7. CASE line.kind # "torn" /\ (partial \/ ~(line.kind = "refused" \/ line.id # active))
    <3>1. PICK result \in {"failed", "answered"} : CompleteActive(result)
      BY <2>1, <2>2, <2>7 DEF Hear
    <3> DEFINE o == Settle(active, result)
    <3>2. /\ o \in [Requests -> Outcomes] /\ o[active] = result
          /\ \A r \in Requests : r # active => o[r] = outcome[r]
      BY <1>0, <2>2 DEF TypeOK, Settle, Outcomes
    <3>3. \A r \in Requests : o[r] = "pending" => \E i \in 1..Len(queue) : queue[i] = r
      BY <1>0, <3>2 DEF Attended, PendingIsHeld, Queued
    <3>4. Pump(queue, o) /\ queue \in Seq(Requests)
      BY <1>0, <3>1 DEF CompleteActive, TypeOK
    <3>5. \A d \in Children : proc[d] = "unborn" => outbox'[d] = << >>
      BY <1>0, <1>1, <1>3 DEF PipesOfTheLiving
    <3> HIDE DEF o
    <3> QED
      BY <1>0, <1>3, <2>3, <3>2, <3>3, <3>4, <3>5, PumpAttends DEF Attended
  <2> QED
    BY <2>5, <2>6, <2>7
<1> QED
  BY <1>4, <1>5

\* The child answers what it reads, or ends and will say so.
LEMMA ChildAttends ==
  ASSUME AttendedInv, NEW c \in Children, Serve(c) \/ Exit(c) \/ Error(c) \/ Close(c)
  PROVE  Attended'
<1>0. IInv /\ TypeOK /\ Attended /\ PendingIsHeld /\ (child # None => child \in Children)
  BY DEF AttendedInv, IInv, Attended, TypeOK
<1>1. CASE Serve(c)
  <2>1. /\ UNCHANGED <<queue, active, child, stopping, heard, proc, outcome>>
        /\ proc[c] = "alive" /\ inbox[c] # << >>
        /\ \A d \in Children : d # c => inbox'[d] = inbox[d] /\ outbox'[d] = outbox[d]
    BY <1>0, <1>1 DEF Serve, runtime, TypeOK
  <2>2. PICK kind \in {"ok", "error", "refused"} :
          outbox' = [outbox EXCEPT ![c] = Append(@, [kind |-> kind, id |-> Head(inbox[c])])]
    BY <1>1 DEF Serve
  <2> DEFINE line == [kind |-> kind, id |-> Head(inbox[c])]
  <2>3. outbox'[c] = Append(outbox[c], line) /\ outbox[c] \in Seq(Lines) /\ line \in Lines
    <3>1. inbox[c] \in Seq(Requests) /\ Head(inbox[c]) \in Requests
      BY <1>0, <2>1, ShortSequence DEF TypeOK
    <3> QED
      BY <1>0, <2>2, <3>1 DEF TypeOK, Lines, LineKinds
  <2>4. line.kind # "torn"
    OBVIOUS
  <2> HIDE DEF line
  <2>5. outbox'[c] # << >> /\ (outbox[c] = << >> => outbox'[c][1] = line)
    BY <2>3, AppendedLine
  <2>6. c = child => outbox[c] = << >>
    <3>1. ASSUME c = child PROVE c \in heard
      BY <1>0, <2>1, <3>1, NoneAssumption DEF Attended, ChildIsHeard
    <3>2. ASSUME c \in heard PROVE outbox[c] = << >>
      <4>1. Len(inbox[c]) + Len(outbox[c]) <= 1
        BY <1>0, <3>2 DEF IInv, OnlyActiveInFlight
      <4>2. Len(inbox[c]) \in Nat /\ Len(inbox[c]) # 0 /\ Len(outbox[c]) \in Nat
            /\ (Len(outbox[c]) = 0 <=> outbox[c] = << >>)
        BY <1>0, <2>1, <2>3, ShortSequence DEF TypeOK
      <4>3. Len(outbox[c]) = 0
        BY <4>1, <4>2, AtMostOne, Zenon
      <4> QED
        BY <4>2, <4>3
    <3> QED
      BY <3>1, <3>2
  <2>7. PendingIsHeld'
    BY <1>0, <2>1 DEF PendingIsHeld, Queued
  <2>8. ActiveIsAwaited'
    <3>1. active # None => child # None
      BY <1>0, NoneAssumption DEF Attended, ActiveIsAwaited, TypeOK
    <3> QED
      BY <1>0, <2>1, <2>5, <3>1 DEF Attended, ActiveIsAwaited
  <2>9. ChildIsHeard'
    BY <1>0, <2>1, <2>4, <2>5, <2>6 DEF Attended, ChildIsHeard
  <2> QED
    BY <2>7, <2>8, <2>9 DEF Attended
<1>2. CASE Exit(c)
  <2>1. /\ UNCHANGED <<queue, active, child, stopping, heard, outcome>>
        /\ proc' = [proc EXCEPT ![c] = "exited"] /\ proc[c] = "alive"
        /\ \A d \in Children : d # c => inbox'[d] = inbox[d] /\ outbox'[d] = outbox[d]
    BY <1>0, <1>2 DEF Exit, runtime, TypeOK
  <2>2. proc'[c] = "exited" /\ \A d \in Children : d # c => proc'[d] = proc[d]
    BY <1>0, <2>1 DEF TypeOK
  <2>3. PendingIsHeld'
    BY <1>0, <2>1 DEF PendingIsHeld, Queued
  <2>4. active # None => child # None
    BY <1>0, NoneAssumption DEF Attended, ActiveIsAwaited, TypeOK
  <2>5. ActiveIsAwaited'
    BY <1>0, <2>1, <2>2, <2>4 DEF Attended, ActiveIsAwaited
  <2>6. ChildIsHeard'
    BY <1>0, <2>1, <2>2 DEF Attended, ChildIsHeard
  <2> QED
    BY <2>3, <2>5, <2>6 DEF Attended
<1>3. CASE Error(c)
  <2>1. /\ proc[c] = "stillborn" /\ proc' = [proc EXCEPT ![c] = "exited"]
        /\ UNCHANGED <<child, stopping, heard, inbox, outbox>>
    BY <1>3 DEF Error, runtime
  <2>2. proc'[c] = "exited" /\ \A d \in Children : d # c => proc'[d] = proc[d]
    BY <1>0, <2>1 DEF TypeOK
  <2>3. ChildIsHeard'
    BY <1>0, <2>1, <2>2 DEF Attended, ChildIsHeard
  <2>4. CASE c \in heard /\ child = c
    BY <1>0, <1>3, <2>3, <2>4, FailRuntimeAttends DEF Error
  <2>5. CASE ~(c \in heard /\ child = c)
    <3>1. UNCHANGED <<queue, active, outcome>>
      BY <1>3, <2>5 DEF Error, runtime
    <3>2. PendingIsHeld'
      BY <1>0, <3>1 DEF PendingIsHeld, Queued
    <3>3. active # None => child # None
      BY <1>0, NoneAssumption DEF Attended, ActiveIsAwaited, TypeOK
    <3>4. ActiveIsAwaited'
      BY <1>0, <2>1, <2>2, <3>1, <3>3 DEF Attended, ActiveIsAwaited
    <3> QED
      BY <2>3, <3>2, <3>4 DEF Attended
  <2> QED
    BY <2>4, <2>5
<1>4. CASE Close(c)
  <2>1. /\ proc[c] = "exited" /\ proc' = [proc EXCEPT ![c] = "closed"]
        /\ UNCHANGED <<stopping, heard, inbox>>
        /\ outbox' = outbox
    BY <1>4 DEF Close
  <2>2. \A d \in Children : d # c => proc'[d] = proc[d]
    BY <1>0, <2>1 DEF TypeOK
  <2>3. CASE c \in heard /\ child = c
    <3>1. child # None
      BY <2>3, NoneAssumption
    <3>2. child' = None /\ FailRuntime
      BY <1>0, <1>4, <2>3, <3>1 DEF Close, Attended, ChildIsHeard
    <3>3. ChildIsHeard'
      BY <3>2 DEF ChildIsHeard
    <3> QED
      BY <1>0, <3>2, <3>3, FailRuntimeAttends
  <2>4. CASE ~(c \in heard /\ child = c)
    <3>1. UNCHANGED <<queue, active, child, outcome>>
      BY <1>4, <2>4 DEF Close
    <3>2. child # c
      BY <1>0, <2>1, <2>4, NoneAssumption DEF Attended, ChildIsHeard
    <3>3. PendingIsHeld'
      BY <1>0, <3>1 DEF PendingIsHeld, Queued
    <3>4. active # None => child # None
      BY <1>0, NoneAssumption DEF Attended, ActiveIsAwaited, TypeOK
    <3>5. ActiveIsAwaited' /\ ChildIsHeard'
      BY <1>0, <2>1, <2>2, <3>1, <3>2, <3>4 DEF Attended, ActiveIsAwaited, ChildIsHeard
    <3> QED
      BY <3>3, <3>5 DEF Attended
  <2> QED
    BY <2>3, <2>4
<1> QED
  BY <1>1, <1>2, <1>3, <1>4

LEMMA StepAttends == AttendedInv /\ [Next]_vars => AttendedInv'
<1> SUFFICES ASSUME AttendedInv, [Next]_vars PROVE Attended'
  BY NextIInv DEF AttendedInv
<1>1. CASE Reset
  <2>1. FailRuntime /\ child' = None
    BY <1>1 DEF Reset
  <2>2. ChildIsHeard'
    BY <2>1 DEF ChildIsHeard
  <2> QED
    BY <2>1, <2>2, FailRuntimeAttends DEF AttendedInv, Attended
<1>2. CASE UNCHANGED vars
  BY <1>2 DEF vars, AttendedInv, Attended, PendingIsHeld, Queued, ActiveIsAwaited, ChildIsHeard
<1> QED
  BY <1>1, <1>2, RunAttends, DeliverAttends, ChildAttends DEF Next

\* In no state does a caller wait for a request that the runtime has dropped, or
\* the runtime for a child that has nothing more to tell it: over answers cut
\* short, failed spawns, stops and resets, every pending request is in the
\* queue of an active one, which somebody will settle.
THEOREM NoCallerIsForgotten == Spec => [](PendingIsHeld /\ ActiveIsAwaited)
<1>1. Init => AttendedInv
  <2> SUFFICES ASSUME Init PROVE Attended
    BY InitIInv DEF AttendedInv
  <2> QED
    BY DEF Init, Attended, PendingIsHeld, ActiveIsAwaited, ChildIsHeard
<1>2. AttendedInv => PendingIsHeld /\ ActiveIsAwaited
  BY DEF AttendedInv, Attended
<1> QED
  BY <1>1, <1>2, StepAttends, PTL DEF Spec

=============================================================================
