-------------------------- MODULE RemoteTaskProofs --------------------------
(***************************************************************************)
(* Proofs about RemoteTask for every number of plans, pages and commands,  *)
(* and every budget and bound.                                             *)
(*                                                                         *)
(* What a record or a page file says depends on what the command that      *)
(* writes it has found out some steps ago, while other commands ran:       *)
(* Knows lists that by place.  It stays true because artifacts, deletions, *)
(* the completion of a task and the page records only ever come (Grows).   *)
(***************************************************************************)
EXTENDS RemoteTask, FiniteSetTheorems, TLAPS

Places == Requests \cup LocalPlaces \cup Over \cup {"idle"}
States == {"none", "ready", "running", "completed", "failed", "cancelled"}
Cmds ==
  [kind : Kinds, plan : Plans \cup {Null}, option : BOOLEAN, pc : Places, attempt : Nat,
   polls : Nat, cost : Nat, todo : SUBSET Pages, retention : Retentions,
   seen : Records \cup {Null}, events : Nat, traces : Nat, cancelled : {"no", "passed", "yes"}]

StateTypes ==
  /\ svc \in [Plans -> [state : States, cost : Nat]]
  /\ deleted \subseteq Plans /\ artifacts \subseteq Plans
  /\ pageFile \in [Pages -> Plans \cup {"local", Null}]
  /\ task \in [Plans -> Records \cup {Null}]
  /\ audit \in [Plans \X Jobs -> {audit[l] : l \in Plans \X Jobs}]
  /\ \A l \in Plans \X Jobs : IsFiniteSet(audit[l])
  /\ slot \in Slots \cup {Null}
Types == StateTypes /\ cmd \in [Slots -> Cmds]

\* A task that completed within the budget.
Good(p) == svc[p].state = "completed" /\ svc[p].cost <= Budget

\* Which commands come to a place, and what each of them knows there.
Knows(c) ==
  /\ c.pc # "idle" => c.plan \in Plans
  /\ c.pc = "status" => c.kind = "import"
  /\ c.pc = "cancel" => c.kind = "cancel"
  /\ c.pc = "audit" => c.kind = "run"
  /\ c.pc = "delete" => c.kind \in {"run", "desktop", "delete"}
  /\ c.pc = "records" => c.kind \in {"run", "desktop"}
  /\ c.pc \in {"read", "act"} => c.kind \in {"cancel", "delete"}
  /\ c.pc \in {"records", "put", "audit", "reput"} => c.plan \in artifacts
  /\ c.pc = "delete" /\ c.kind # "delete" => c.plan \in artifacts
  /\ c.seen # Null /\ c.seen.artifact => c.plan \in artifacts
  /\ c.retention = "acknowledged" => c.plan \in deleted
  /\ c.pc \in {"read", "act"} /\ c.kind = "delete" => c.plan \in deleted
  /\ c.pc \in {"receipt", "result", "package", "install", "records"} /\ c.kind \in {"run", "desktop"}
       => Good(c.plan)
  /\ c.pc \in {"package", "install"} => c.todo = Pages
  /\ c.pc = "records" => \A g \in Pages \ c.todo : pageFile[g] = c.plan
  /\ c.pc = "fallback" => \A g \in Pages \ c.todo : pageFile[g] # Null

\* What the files and the records have in common.
Shared ==
  /\ InstalledHasArtifact /\ AcknowledgedMeansDeleted
  /\ summary # Null => summary = pageFile /\ \A g \in Pages : pageFile[g] # Null
  /\ \A g \in Pages, p \in Plans : pageFile[g] = p => Good(p)

IInv == Types /\ Shared /\ \A i \in Slots : Knows(cmd[i])

Grows ==
  /\ artifacts \subseteq artifacts' /\ deleted \subseteq deleted'
  /\ \A p \in Plans : Good(p) => Good(p)'
  /\ \A g \in Pages : pageFile[g] # Null => pageFile'[g] = pageFile[g]

-----------------------------------------------------------------------------
(***************************************************************************)
(* What the operators on commands return.                                  *)
(***************************************************************************)
\* What moving a command leaves alone, or forgets when the command is over.
Same(c, d) == d.kind = c.kind /\ d.plan = c.plan /\ d.seen \in {c.seen, Null}
Noted(c) == {c.retention, "not_requested"}

LEMMA IdleIs == Idle \in Cmds /\ Idle.pc = "idle" /\ Idle.retention = "not_requested" /\ Idle.seen = Null
BY DEF Idle, Cmds, Kinds, Places, Retentions, Over

LEMMA ToIs ==
  ASSUME NEW c \in Cmds, NEW place \in Places
  PROVE  /\ To(c, place) \in Cmds /\ Same(c, To(c, place))
         /\ To(c, place).pc = place /\ To(c, place).retention \in Noted(c)
         /\ place \notin Over => To(c, place).todo = c.todo
<1>1. CASE place \in Over
  <2>1. To(c, place) = [Idle EXCEPT !.kind = c.kind, !.plan = c.plan, !.pc = place]
    BY <1>1 DEF To
  <2>2. Idle \in Cmds /\ Idle.seen = Null /\ Idle.retention = "not_requested"
    BY IdleIs
  <2>3. To(c, place) \in Cmds
    BY <2>1, <2>2 DEF Cmds
  <2>4. QED
    BY <1>1, <2>1, <2>2, <2>3 DEF Cmds, Same, Noted
<1>2. CASE place \notin Over
  <2>1. To(c, place) = [c EXCEPT !.pc = place, !.attempt = 0,
                                 !.polls = IF place = "poll" THEN c.polls ELSE 0]
    BY <1>2 DEF To
  <2>2. PICK polls \in Nat : To(c, place) = [c EXCEPT !.pc = place, !.attempt = 0, !.polls = polls]
    BY <2>1 DEF Cmds
  <2>3. PICK d \in Cmds : d = To(c, place)
    BY <2>2 DEF Cmds
  <2>4. /\ d.kind = c.kind /\ d.plan = c.plan /\ d.seen = c.seen /\ d.pc = place
        /\ d.retention = c.retention /\ d.todo = c.todo
    BY <2>2, <2>3 DEF Cmds
  <2>5. QED
    BY <2>3, <2>4 DEF Same, Noted
<1>3. QED
  BY <1>1, <1>2

LEMMA PlacesAre ==
  /\ Requests \subseteq Places /\ LocalPlaces \subseteq Places /\ FallbackPlaces \subseteq Places
  /\ {"idle", "done", "failed"} \subseteq Places
BY DEF Places, LocalPlaces, FallbackPlaces, Over

LEMMA FailedIs ==
  ASSUME NEW c \in Cmds
  PROVE  /\ Failed(c) \in Cmds /\ Same(c, Failed(c)) /\ Failed(c).retention \in Noted(c)
         /\ \/ Failed(c).pc = "fallback" /\ Failed(c).todo = Pages
            \/ Failed(c).pc = "failed"
<1>1. "fallback" \in Places /\ "failed" \in Places
  BY DEF Places, LocalPlaces, FallbackPlaces, Over
<1>2. CASE c.kind = "desktop" /\ c.option /\ c.pc \notin FallbackPlaces
  <2>1. To(c, "fallback") \in Cmds /\ Same(c, To(c, "fallback")) /\ To(c, "fallback").pc = "fallback"
        /\ To(c, "fallback").retention \in Noted(c)
    BY <1>1, ToIs
  <2>2. Failed(c) = [To(c, "fallback") EXCEPT !.todo = Pages]
    BY <1>2 DEF Failed
  <2>3. Failed(c) \in Cmds /\ Failed(c).todo = Pages /\ Failed(c).pc = "fallback" /\ Failed(c).retention \in Noted(c)
    BY <2>1, <2>2 DEF Cmds
  <2>4. Same(c, Failed(c))
    BY <2>1, <2>2 DEF Cmds, Same, Noted
  <2>5. QED
    BY <2>3, <2>4
<1>3. CASE ~ (c.kind = "desktop" /\ c.option /\ c.pc \notin FallbackPlaces)
  <2>1. Failed(c) = To(c, "failed")
    BY <1>3 DEF Failed
  <2>2. QED
    BY <1>1, <2>1, ToIs
<1>4. QED
  BY <1>2, <1>3

LEMMA GivenUpIs ==
  ASSUME NEW c \in Cmds
  PROVE  /\ GivenUp(c) \in Cmds /\ Same(c, GivenUp(c))
         /\ \/ /\ c.pc = "delete" /\ c.kind # "delete" /\ GivenUp(c).retention = "failed"
               /\ GivenUp(c).pc \in {"reput", "put"}
            \/ GivenUp(c) = Failed(c)
<1>1. CASE c.pc = "delete" /\ c.kind # "delete"
  <2>1. PICK place \in {"reput", "put"} : GivenUp(c) = [To(c, place) EXCEPT !.retention = "failed"]
    BY <1>1 DEF GivenUp
  <2>2. To(c, place) \in Cmds /\ Same(c, To(c, place)) /\ To(c, place).pc = place
    BY ToIs DEF Places, LocalPlaces, Over
  <2>3. GivenUp(c) \in Cmds /\ GivenUp(c).retention = "failed" /\ GivenUp(c).pc = place
    BY <2>1, <2>2 DEF Cmds, Retentions
  <2>4. Same(c, GivenUp(c))
    BY <2>1, <2>2 DEF Cmds, Same, Noted
  <2>5. QED
    BY <1>1, <2>3, <2>4
<1>2. CASE ~ (c.pc = "delete" /\ c.kind # "delete")
  <2>1. GivenUp(c) = Failed(c)
    BY <1>2 DEF GivenUp
  <2>2. QED
    BY <2>1, FailedIs
<1>3. QED
  BY <1>1, <1>2

\* Sending, or counting an attempt, leaves what a command knows.
Alike(c, d) == Same(c, d) /\ d.pc = c.pc /\ d.todo = c.todo /\ d.retention = c.retention

LEMMA SentIs ==
  ASSUME NEW c \in Cmds
  PROVE  Sent(c) \in Cmds /\ Alike(c, Sent(c)) /\ Sent(c).cost = c.cost
<1>1. PICK n \in Nat, flag \in {"no", "passed", "yes"} :
        Sent(c) = [c EXCEPT !.traces = n, !.cancelled = flag]
  <2>1. c.traces \in Nat /\ c.cancelled \in {"no", "passed", "yes"}
    BY DEF Cmds
  <2>2. Sent(c) = [c EXCEPT !.traces = IF c.traces < TraceBound THEN c.traces + 1 ELSE c.traces,
                            !.cancelled = IF c.cancelled = "passed" THEN "yes" ELSE c.cancelled]
    BY DEF Sent
  <2>3. PICK n \in Nat : n = IF c.traces < TraceBound THEN c.traces + 1 ELSE c.traces
    BY <2>1
  <2>4. PICK flag \in {"no", "passed", "yes"} :
          flag = IF c.cancelled = "passed" THEN "yes" ELSE c.cancelled
    BY <2>1
  <2>5. QED
    BY <2>2, <2>3, <2>4
<1>2. QED
  BY <1>1 DEF Cmds, Alike, Same, Noted

LEMMA RetriedIs ==
  ASSUME NEW c \in Cmds
  PROVE  \/ Retried(c) \in Cmds /\ Alike(c, Retried(c))
         \/ Retried(c) = GivenUp(c)
<1>1. c.attempt + 1 \in Nat
  BY DEF Cmds
<1>2. [c EXCEPT !.attempt = c.attempt + 1] \in Cmds /\ Alike(c, [c EXCEPT !.attempt = c.attempt + 1])
  BY <1>1 DEF Cmds, Alike, Same, Noted
<1>3. QED
  BY <1>2 DEF Retried

LEMMA CountedIs ==
  ASSUME Types, NEW c \in Cmds, c.plan \in Plans
  PROVE  Counted(c) \in Cmds /\ Alike(c, Counted(c))
<1>1. svc[c.plan].cost \in Nat /\ c.polls + 1 \in Nat
  BY DEF Types, StateTypes, Cmds
<1>2. CASE c.pc = "poll"
  <2>1. Counted(c) = [c EXCEPT !.polls = c.polls + 1, !.cost = svc[c.plan].cost]
    BY <1>2 DEF Counted
  <2>2. QED
    BY <1>1, <2>1 DEF Cmds, Alike, Same, Noted
<1>3. CASE c.pc # "poll"
  BY <1>3 DEF Counted, Alike, Same, Noted
<1>4. QED
  BY <1>2, <1>3

\* What a command makes of a good answer.
LEMMA AnsweredIs ==
  ASSUME Types, NEW c \in Cmds, c.plan \in Plans, After(c) \in Places
  PROVE  /\ Answered(c) \in Cmds /\ Same(c, Answered(c))
         /\ IF c.pc = "delete" THEN Answered(c).retention \in {"acknowledged", "not_requested"}
                               ELSE Answered(c).retention \in Noted(c)
         /\ \/ /\ Answered(c).pc = After(c)
               /\ After(c) \notin Over => Answered(c).todo = IF c.pc = "result" THEN Pages ELSE c.todo
            \/ /\ After(c) = "failed"
               /\ \/ Answered(c).pc = "fallback" /\ Answered(c).todo = Pages
                  \/ Answered(c).pc = "failed"
<1> DEFINE next == [Counted(c) EXCEPT
                      !.todo = IF c.pc = "result" THEN Pages ELSE @,
                      !.retention = IF c.pc = "delete" THEN "acknowledged" ELSE @]
<1>1. Counted(c) \in Cmds /\ Alike(c, Counted(c))
  BY CountedIs
<1>2. next \in Cmds
  BY <1>1 DEF Cmds, Retentions
<1>3. Same(c, next)
  BY <1>1 DEF Cmds, Alike, Same, Noted
<1>4. /\ next.todo = IF c.pc = "result" THEN Pages ELSE c.todo
      /\ next.retention = IF c.pc = "delete" THEN "acknowledged" ELSE c.retention
  BY <1>1 DEF Cmds, Alike
<1>5. Answered(c) = IF After(c) = "failed" THEN Failed(next) ELSE To(next, After(c))
  BY DEF Answered
<1> HIDE DEF next
<1>6. CASE After(c) = "failed"
  BY <1>2, <1>3, <1>4, <1>5, <1>6, FailedIs DEF Same, Noted
<1>7. CASE After(c) # "failed"
  BY <1>2, <1>3, <1>4, <1>5, <1>7, ToIs DEF Same, Noted
<1>8. QED
  BY <1>6, <1>7

-----------------------------------------------------------------------------
(***************************************************************************)
(* What a command knows after a step.                                      *)
(***************************************************************************)
LEMMA AlikeKnows ==
  ASSUME NEW c \in Cmds, NEW d \in Cmds, Knows(c), Grows, Alike(c, d)
  PROVE  Knows(d)'
<1>1. c.plan \in Plans /\ Good(c.plan) => Good(c.plan)'
  BY DEF Grows
<1>2. c.pc \notin {"idle"} => c.plan \in Plans
  BY DEF Knows
<1>3. \A g \in Pages : pageFile[g] # Null => pageFile'[g] = pageFile[g]
  BY DEF Grows
<1>4. c.plan # Null \/ c.pc = "idle"
  BY <1>2, PlansAssumption
<1>5. c.pc = "records" => \A g \in Pages \ c.todo : pageFile'[g] = c.plan
  BY <1>3, <1>4 DEF Knows
<1>6. c.pc = "fallback" => \A g \in Pages \ c.todo : pageFile'[g] # Null
  BY <1>3 DEF Knows
<1>7. artifacts \subseteq artifacts' /\ deleted \subseteq deleted'
  BY DEF Grows
<1>8. QED
  BY <1>1, <1>2, <1>5, <1>6, <1>7 DEF Alike, Same, Knows, Noted

LEMMA FailedKnows ==
  ASSUME NEW c \in Cmds, Knows(c), c.pc # "idle", Grows
  PROVE  Knows(Failed(c))'
<1>1. PICK d \in Cmds : d = Failed(c)
  BY FailedIs
<1>2. /\ Same(c, d) /\ d.retention \in Noted(c)
      /\ (d.pc = "fallback" /\ d.todo = Pages) \/ d.pc = "failed"
  BY <1>1, FailedIs
<1>3. artifacts \subseteq artifacts' /\ deleted \subseteq deleted'
  BY DEF Grows
<1>4. c.plan \in Plans /\ (c.seen # Null /\ c.seen.artifact => c.plan \in artifacts)
      /\ (c.retention = "acknowledged" => c.plan \in deleted)
  BY DEF Knows
<1>5. Knows(d)'
  BY <1>2, <1>3, <1>4 DEF Knows, Same, Noted
<1>6. QED
  BY <1>1, <1>5

LEMMA GivenUpKnows ==
  ASSUME NEW c \in Cmds, Knows(c), c.pc # "idle", Grows
  PROVE  Knows(GivenUp(c))'
<1>1. PICK d \in Cmds : d = GivenUp(c)
  BY GivenUpIs
<1>2. CASE /\ c.pc = "delete" /\ c.kind # "delete" /\ Same(c, d)
           /\ d.retention = "failed" /\ d.pc \in {"reput", "put"}
  <2>1. c.plan \in Plans /\ c.plan \in artifacts'
    BY <1>2 DEF Knows, Grows
  <2>2. Knows(d)'
    BY <1>2, <2>1 DEF Knows, Same, Noted
  <2>3. QED
    BY <1>1, <2>2
<1>3. CASE d = Failed(c)
  BY <1>1, <1>3, FailedKnows
<1>4. QED
  BY <1>1, <1>2, <1>3, GivenUpIs

\* A step of command i makes it one that knows what it should.
Moves(i) == \E d \in Cmds : cmd' = [cmd EXCEPT ![i] = d] /\ Knows(d)'

LEMMA MovesKnow ==
  ASSUME Types, \A k \in Slots : Knows(cmd[k]), NEW i \in Slots, Moves(i), Grows
  PROVE  cmd' \in [Slots -> Cmds] /\ \A k \in Slots : Knows(cmd[k])'
<1>1. PICK d \in Cmds : cmd' = [cmd EXCEPT ![i] = d] /\ Knows(d)'
  BY DEF Moves
<1>2. cmd \in [Slots -> Cmds] /\ cmd' \in [Slots -> Cmds]
  BY <1>1 DEF Types
<1>3. ASSUME NEW k \in Slots PROVE Knows(cmd[k])'
  <2>1. CASE k = i
    <3>1. cmd'[k] = d
      BY <1>1, <1>2, <2>1
    <3>2. QED
      BY <1>1, <3>1
  <2>2. CASE k # i
    <3>1. PICK c \in Cmds : c = cmd[k] /\ c = cmd'[k]
      BY <1>1, <1>2, <2>2
    <3>2. Knows(c)'
      BY <3>1, AlikeKnows DEF Alike, Same, Noted
    <3>3. QED
      BY <3>1, <3>2
  <2>3. QED
    BY <2>1, <2>2
<1>4. QED
  BY <1>2, <1>3

LEMMA SharedStays ==
  ASSUME Types, Shared, Grows, UNCHANGED <<task, pageFile, summary>> PROVE Shared'
BY DEF Shared, InstalledHasArtifact, AcknowledgedMeansDeleted, Grows

-----------------------------------------------------------------------------
(***************************************************************************)
(* Requests.                                                               *)
(***************************************************************************)
LEMMA ServeGrows ==
  ASSUME Types, NEW op, NEW p \in Plans, Serve(op, p), UNCHANGED <<artifacts, pageFile>>
  PROVE  /\ svc' \in [Plans -> [state : States, cost : Nat]] /\ deleted' \subseteq Plans
         /\ Grows /\ (op = "delete" => p \in deleted')
<1>1. svc \in [Plans -> [state : States, cost : Nat]] /\ deleted \subseteq Plans
  BY DEF Types, StateTypes
<1>2. PICK state \in States :
        /\ svc' = [svc EXCEPT ![p] = [svc[p] EXCEPT !.state = state]]
        /\ svc[p].state = "completed" => state = "completed"
  <2>1. svc[p].state \in States
    BY <1>1
  <2>2. QED
    BY <2>1 DEF Serve, States
<1>3. svc' \in [Plans -> [state : States, cost : Nat]]
  BY <1>1, <1>2
<1>4. ASSUME NEW q \in Plans, Good(q) PROVE Good(q)'
  <2>1. svc'[q].cost = svc[q].cost /\ svc'[q].state = "completed"
    BY <1>1, <1>2, <1>4 DEF Good
  <2>2. QED
    BY <1>4, <2>1 DEF Good
<1>5. deleted \subseteq deleted' /\ deleted' \subseteq Plans /\ (op = "delete" => p \in deleted')
  BY <1>1 DEF Serve
<1>6. QED
  BY <1>3, <1>4, <1>5 DEF Grows

LEMMA AnsweredKnows ==
  ASSUME Types, NEW c \in Cmds, Knows(c), c.pc \in Requests, Grows, c.pc = "delete" => c.plan \in deleted'
  PROVE  Answered(c) \in Cmds /\ \A d : d = Answered(c) => Knows(d)'
<1>1. c.plan \in Plans /\ c.kind \in Kinds /\ c.pc # "idle"
  BY DEF Knows, Cmds, Requests
<1>2. After(c) \in Places
  BY DEF After, Polled, Requests, Places, LocalPlaces, FallbackPlaces, Over
<1>3. Answered(c) \in Cmds
  BY <1>1, <1>2, AnsweredIs
<1>4. ASSUME NEW d \in Cmds, d = Answered(c) PROVE Knows(d)'
  <2>1. /\ Same(c, d)
        /\ IF c.pc = "delete" THEN d.retention \in {"acknowledged", "not_requested"} ELSE d.retention \in Noted(c)
        /\ \/ /\ d.pc = After(c)
              /\ d.pc \notin Over => d.todo = IF c.pc = "result" THEN Pages ELSE c.todo
           \/ /\ After(c) = "failed"
              /\ (d.pc = "fallback" /\ d.todo = Pages) \/ d.pc = "failed"
    BY <1>1, <1>2, <1>4, AnsweredIs
  <2>2. /\ artifacts \subseteq artifacts' /\ deleted \subseteq deleted'
        /\ Good(c.plan) => Good(c.plan)'
    BY <1>1 DEF Grows
  <2>3. d.plan \in Plans /\ d.plan = c.plan /\ d.kind = c.kind
    BY <1>1, <2>1 DEF Same, Noted
  <2>4. d.seen # Null /\ d.seen.artifact => d.plan \in artifacts'
    BY <2>1, <2>2 DEF Same, Knows, Noted
  <2>5. d.retention = "acknowledged" => d.plan \in deleted'
    BY <2>1, <2>2, <2>3 DEF Knows, Noted
  <2>6. CASE d.pc = "failed" \/ (d.pc = "fallback" /\ d.todo = Pages)
    BY <2>3, <2>4, <2>5, <2>6 DEF Knows
  <2>7. CASE d.pc = After(c) /\ c.pc \in {"create", "upload", "start"}
    BY <2>3, <2>4, <2>5, <2>7 DEF After, Knows
  <2>8. CASE d.pc = After(c) /\ c.pc = "poll"
    <3>1. \/ d.pc \in {"poll", "failed"}
          \/ d.pc \in {"receipt", "result"} /\ Good(c.plan)
      <4>1. svc[c.plan].cost \in Nat
        BY <1>1 DEF Types, StateTypes
      <4>2. Budget \in Nat
        BY BoundsAssumption
      <4>3. QED
        BY <2>8, <4>1, <4>2 DEF After, Polled, Good
    <3>2. QED
      BY <2>2, <2>3, <2>4, <2>5, <3>1 DEF Knows
  <2>9. CASE d.pc = After(c) /\ c.pc = "status"
    <3>1. d.kind = "import" /\ d.pc \in {"result", "done"}
      BY <2>3, <2>9 DEF After, Knows
    <3>2. QED
      BY <2>3, <2>4, <2>5, <3>1 DEF Knows
  <2>10. CASE d.pc = After(c) /\ c.pc = "result"
    <3>1. d.pc \in {"package", "install"} /\ d.todo = Pages
      BY <2>1, <2>10 DEF After, Over
    <3>2. d.kind \in {"run", "desktop"} => Good(d.plan)'
      BY <2>2, <2>3, <2>10 DEF Knows
    <3>3. QED
      BY <2>3, <2>4, <2>5, <3>1, <3>2 DEF Knows
  <2>11. CASE d.pc = After(c) /\ c.pc = "delete"
    <3>1. \/ d.kind = "run" /\ d.pc = "reput" /\ d.plan \in artifacts'
          \/ d.kind = "desktop" /\ d.pc = "put" /\ d.plan \in artifacts'
          \/ d.kind = "delete" /\ d.pc = "read" /\ d.plan \in deleted'
      BY <2>2, <2>3, <2>11 DEF After, Knows
    <3>2. QED
      BY <2>3, <2>4, <2>5, <3>1 DEF Knows
  <2>12. CASE d.pc = After(c) /\ c.pc = "cancel"
    <3>1. d.kind = "cancel" /\ d.pc = "read"
      BY <2>3, <2>12 DEF After, Knows
    <3>2. QED
      BY <2>3, <2>4, <2>5, <3>1 DEF Knows
  <2>13. QED
    BY <2>1, <2>6, <2>7, <2>8, <2>9, <2>10, <2>11, <2>12 DEF Requests
<1>5. QED
  BY <1>3, <1>4

\* What a step of command i does, together.
StepKeeps(i) ==
  /\ StateTypes' /\ Moves(i) /\ Grows /\ Shared'

LEMMA AttemptKeeps ==
  ASSUME IInv, NEW i \in Slots, Attempt(i) PROVE StepKeeps(i)
<1>1. PICK c \in Cmds : c = cmd[i]
  BY DEF IInv, Types
<1>2. /\ Knows(c) /\ c.pc \in Requests /\ c.pc # "idle" /\ c.plan \in Plans
      /\ UNCHANGED <<artifacts, pageFile, summary, task, audit, slot>>
  BY <1>1 DEF IInv, Attempt, Requests, Knows, fileVars, storeVars
<1>3. PICK t \in Cmds : t = Sent(c) /\ Alike(c, t)
  BY SentIs
<1>4. Knows(t) /\ t.pc = c.pc /\ t.plan = c.plan /\ t.pc \in Requests /\ t.pc # "idle"
  <2>1. t.pc = c.pc /\ t.plan = c.plan
    BY <1>3 DEF Alike, Same, Noted
  <2>2. Knows(t)
    BY <1>2, <1>3 DEF Knows, Alike, Same, Noted
  <2>3. QED
    BY <1>2, <2>1, <2>2
<1>5. ASSUME Grows PROVE Shared'
  BY <1>2, <1>5, SharedStays DEF IInv
<1>6. ASSUME Grows, NEW d, d \in {GivenUp(c), Retried(t), GivenUp(t)}, Become(i, d) PROVE Moves(i)
  <2>1. d \in Cmds /\ Knows(d)'
    <3>1. GivenUp(c) \in Cmds /\ Knows(GivenUp(c))'
      BY <1>2, <1>6, GivenUpIs, GivenUpKnows
    <3>2. GivenUp(t) \in Cmds /\ Knows(GivenUp(t))'
      BY <1>4, <1>6, GivenUpIs, GivenUpKnows
    <3>3. Retried(t) \in Cmds /\ Knows(Retried(t))'
      BY <1>4, <1>6, <3>2, RetriedIs, AlikeKnows
    <3>4. QED
      BY <1>6, <3>1, <3>2, <3>3
  <2>2. QED
    BY <1>6, <2>1 DEF Moves, Become
<1>7. CASE UNCHANGED serviceVars /\ \E d \in {GivenUp(c), Retried(t), GivenUp(t)} : Become(i, d)
  <2>1. UNCHANGED <<svc, deleted>>
    BY <1>7 DEF serviceVars
  <2>2. Grows /\ StateTypes'
    BY <1>2, <2>1 DEF IInv, Types, StateTypes, Grows, Good
  <2>3. QED
    BY <1>5, <1>6, <1>7, <2>2 DEF StepKeeps
<1>8. ASSUME Serve(c.pc, c.plan)
      PROVE  StateTypes' /\ Grows /\ (c.pc = "delete" => c.plan \in deleted')
  <2>1. Grows /\ svc' \in [Plans -> [state : States, cost : Nat]] /\ deleted' \subseteq Plans
        /\ (c.pc = "delete" => c.plan \in deleted')
    BY <1>2, <1>8, ServeGrows DEF IInv
  <2>2. StateTypes'
    BY <1>2, <2>1 DEF IInv, Types, StateTypes
  <2>3. QED
    BY <2>1, <2>2
<1>9. CASE Serve(c.pc, c.plan) /\ \E d \in {GivenUp(c), Retried(t), GivenUp(t)} : Become(i, d)
  BY <1>5, <1>6, <1>8, <1>9 DEF StepKeeps
<1>10. CASE Serve(c.pc, c.plan) /\ Become(i, Answered(t))
  <2>1. Answered(t) \in Cmds /\ \A d : d = Answered(t) => Knows(d)'
    BY <1>4, <1>8, <1>10, AnsweredKnows DEF IInv
  <2>2. PICK d \in Cmds : d = Answered(t)
    BY <2>1
  <2>3. cmd' = [cmd EXCEPT ![i] = d] /\ Knows(d)'
    BY <1>10, <2>1, <2>2 DEF Become
  <2>4. QED
    BY <1>5, <1>8, <1>10, <2>3 DEF StepKeeps, Moves
<1>11. QED
  BY <1>1, <1>3, <1>7, <1>9, <1>10 DEF Attempt

-----------------------------------------------------------------------------
(***************************************************************************)
(* Files and records.                                                      *)
(***************************************************************************)
LEMMA FailMoves ==
  ASSUME IInv, NEW i \in Slots, cmd[i].pc # "idle", Grows, Fail(i) PROVE Moves(i)
<1>1. PICK c \in Cmds : c = cmd[i]
  BY DEF IInv, Types
<1>2. Knows(Failed(c))' /\ Failed(c) \in Cmds
  BY <1>1, FailedKnows, FailedIs DEF IInv
<1>3. QED
  BY <1>1, <1>2 DEF Fail, Become, Moves

\* A command that goes somewhere else knows what it knew, and must know what
\* the place asks for.
LEMMA GoMoves ==
  ASSUME IInv, NEW i \in Slots, NEW place \in Places, NEW d \in Cmds, Grows, cmd[i].pc # "idle",
         Become(i, d), Same(cmd[i], d), d.pc = place, d.retention \in Noted(cmd[i]),
         place \notin Requests \cup {"records", "read", "act", "receipt", "result", "package", "install", "fallback"},
         place \in {"put", "audit", "reput"} => cmd[i].plan \in artifacts',
         place = "audit" => cmd[i].kind = "run"
  PROVE  Moves(i)
<1>1. PICK c \in Cmds : c = cmd[i]
  BY DEF IInv, Types
<1>2. /\ c.plan \in Plans /\ (c.seen # Null /\ c.seen.artifact => c.plan \in artifacts')
      /\ (c.retention = "acknowledged" => c.plan \in deleted')
  BY <1>1 DEF IInv, Knows, Grows
<1>3. Knows(d)'
  BY <1>1, <1>2 DEF Knows, Same, Requests, Noted
<1>4. QED
  BY <1>3 DEF Become, Moves

LEMMA QuietGrows ==
  ASSUME IInv, UNCHANGED <<svc, deleted, artifacts, pageFile>>
  PROVE  Grows /\ (UNCHANGED <<task, summary>> => Shared') /\ (UNCHANGED <<task, audit, slot>> => StateTypes')
<1>1. Grows
  BY DEF Grows, Good
<1>2. UNCHANGED <<task, summary>> => Shared'
  BY <1>1, SharedStays DEF IInv
<1>3. UNCHANGED <<task, audit, slot>> => StateTypes'
  BY DEF IInv, Types, StateTypes
<1>4. QED
  BY <1>1, <1>2, <1>3

LEMMA ReceiptKeeps ==
  ASSUME IInv, NEW i \in Slots, WriteReceipt(i) \/ EnsurePackage(i) PROVE StepKeeps(i)
<1>1. PICK c \in Cmds : c = cmd[i] /\ Knows(c)
  BY DEF IInv, Types
<1>2. /\ c.pc \in {"receipt", "package"}
      /\ UNCHANGED <<svc, deleted, artifacts, pageFile, summary, task, audit, slot>>
  BY <1>1 DEF WriteReceipt, EnsurePackage, At, serviceVars, storeVars
<1>3. Grows /\ Shared' /\ StateTypes'
  BY <1>2, QuietGrows
<1>4. CASE Fail(i)
  BY <1>1, <1>2, <1>3, <1>4, FailMoves DEF StepKeeps
<1>5. ASSUME NEW place \in {"result", "install"}, Go(i, place), place = "install" => c.pc = "package"
      PROVE  StepKeeps(i)
  <2>1. place \in Places
    BY DEF Places, Requests, LocalPlaces, Over
  <2>2. PICK d \in Cmds : d = To(c, place)
    BY <2>1, ToIs
  <2>3. Same(c, d) /\ d.pc = place /\ d.todo = c.todo /\ d.retention \in Noted(c)
    BY <2>1, <2>2, ToIs DEF Over
  <2>4. c.plan \in Plans /\ (Good(c.plan) => Good(c.plan)')
    BY <1>1, <1>2, <1>3 DEF Knows, Grows
  <2>5. Knows(d)'
    BY <1>1, <1>2, <1>5, <2>3, <2>4 DEF Knows, Same, Noted
  <2>6. QED
    BY <1>1, <1>3, <1>5, <2>2, <2>5 DEF Go, Become, Moves, StepKeeps
<1>6. Fail(i) \/ Go(i, "result") \/ (Go(i, "install") /\ c.pc = "package")
  BY <1>1 DEF WriteReceipt, EnsurePackage, At
<1>7. QED
  BY <1>4, <1>5, <1>6

LEMMA InstallKeeps ==
  ASSUME IInv, NEW i \in Slots, InstallArtifact(i) PROVE StepKeeps(i)
<1>1. PICK c \in Cmds : c = cmd[i] /\ Knows(c)
  BY DEF IInv, Types
<1>2. /\ c.pc = "install" /\ c.plan \in Plans /\ c.todo = Pages /\ c.kind \in Kinds
      /\ UNCHANGED <<svc, deleted, pageFile, summary, task, audit, slot>>
  BY <1>1 DEF InstallArtifact, At, Knows, Cmds, serviceVars, storeVars
<1>3. CASE Fail(i) /\ UNCHANGED artifacts
  BY <1>1, <1>2, <1>3, QuietGrows, FailMoves DEF StepKeeps
<1>4. ASSUME artifacts' = artifacts \cup {c.plan},
             NEW place \in {"records", "put", "done"}, Go(i, place), place = "records" => IntoPackage(c)
      PROVE  StepKeeps(i)
  <2>1. Grows /\ c.plan \in artifacts'
    BY <1>2, <1>4 DEF Grows, Good
  <2>2. Shared' /\ StateTypes'
    BY <1>2, <1>4, <2>1, SharedStays DEF IInv, Types, StateTypes
  <2>3. Go(i, place) /\ (place = "records" => c.kind \in {"run", "desktop"})
    BY <1>4 DEF IntoPackage
  <2>4. place \in Places
    BY DEF Places, LocalPlaces, Over
  <2>5. PICK d \in Cmds : d = To(c, place)
    BY <2>4, ToIs
  <2>6. /\ Same(c, d) /\ d.pc = place /\ d.retention \in Noted(c)
        /\ place # "done" => d.todo = c.todo
    BY <2>4, <2>5, ToIs DEF Over
  <2>7. Good(c.plan) => Good(c.plan)'
    BY <1>2, <2>1 DEF Grows
  <2>8. /\ c.seen # Null /\ c.seen.artifact => c.plan \in artifacts'
        /\ c.retention = "acknowledged" => c.plan \in deleted'
    BY <1>1, <2>1 DEF Knows, Grows
  <2>9. Knows(d)'
    BY <1>1, <1>2, <2>1, <2>3, <2>6, <2>7, <2>8 DEF Knows, Same, Noted
  <2>10. QED
    BY <1>1, <2>1, <2>2, <2>3, <2>5, <2>9 DEF Go, Become, Moves, StepKeeps
<1>5. \/ Fail(i) /\ UNCHANGED artifacts
      \/ /\ artifacts' = artifacts \cup {c.plan}
         /\ \E place \in {"records", "put", "done"} : Go(i, place) /\ (place = "records" => IntoPackage(c))
  BY <1>1 DEF InstallArtifact
<1>6. QED
  BY <1>3, <1>4, <1>5

\* Page records: a file that is there is never replaced.
LEMMA PageGrows ==
  ASSUME IInv, NEW g \in Pages, NEW v \in Plans \cup {"local"}, v \in Plans => Good(v),
         pageFile[g] = Null, pageFile' = [pageFile EXCEPT ![g] = v],
         UNCHANGED <<svc, deleted, artifacts, summary, task, audit, slot>>
  PROVE  Grows /\ Shared' /\ StateTypes' /\ pageFile'[g] = v
<1>1. pageFile \in [Pages -> Plans \cup {"local", Null}]
  BY DEF IInv, Types, StateTypes
<1>2. Grows /\ pageFile'[g] = v
  BY <1>1 DEF Grows, Good
<1>3. StateTypes'
  BY <1>1 DEF IInv, Types, StateTypes
<1>4. summary = Null
  BY DEF IInv, Shared
<1>5. ASSUME NEW h \in Pages, NEW p \in Plans, pageFile'[h] = p PROVE Good(p)'
  <2>1. Good(p)
    BY <1>1, <1>5, PlansAssumption DEF IInv, Shared
  <2>2. QED
    BY <1>2, <2>1 DEF Grows
<1>6. InstalledHasArtifact' /\ AcknowledgedMeansDeleted'
  BY DEF IInv, Shared, InstalledHasArtifact, AcknowledgedMeansDeleted
<1>7. QED
  BY <1>2, <1>3, <1>4, <1>5, <1>6 DEF Shared

LEMMA RecordKeeps ==
  ASSUME IInv, NEW i \in Slots, WriteRecord(i) PROVE StepKeeps(i)
<1>1. PICK c \in Cmds : c = cmd[i] /\ Knows(c)
  BY DEF IInv, Types
<1>2. /\ c.pc = "records" /\ c.plan \in Plans /\ c.plan \in artifacts /\ c.kind \in {"run", "desktop"}
      /\ c.todo \subseteq Pages /\ Good(c.plan) /\ \A h \in Pages \ c.todo : pageFile[h] = c.plan
      /\ UNCHANGED <<svc, deleted, artifacts, summary, task, audit, slot>>
  BY <1>1 DEF WriteRecord, At, Knows, Cmds, serviceVars, storeVars
<1>3. CASE Fail(i) /\ UNCHANGED pageFile
  BY <1>1, <1>2, <1>3, QuietGrows, FailMoves DEF StepKeeps
<1>4. ASSUME NEW g \in c.todo, pageFile[g] = Null, pageFile' = [pageFile EXCEPT ![g] = c.plan],
             Become(i, [c EXCEPT !.todo = c.todo \ {g}])
      PROVE  StepKeeps(i)
  <2>1. Grows /\ Shared' /\ StateTypes' /\ pageFile'[g] = c.plan
    BY <1>2, <1>4, PageGrows
  <2>2. PICK d \in Cmds : d = [c EXCEPT !.todo = c.todo \ {g}]
    BY <1>2 DEF Cmds
  <2>3. Same(c, d) /\ d.pc = "records" /\ d.todo = c.todo \ {g} /\ d.retention \in Noted(c)
    BY <1>2, <2>2 DEF Cmds, Same, Noted
  <2>4. \A h \in Pages \ d.todo : pageFile'[h] = c.plan
    BY <1>2, <2>1, <2>3, PlansAssumption DEF Grows
  <2>5. Good(c.plan)' /\ c.plan \in artifacts'
    BY <1>2, <2>1 DEF Grows
  <2>6. /\ c.seen # Null /\ c.seen.artifact => c.plan \in artifacts'
        /\ c.retention = "acknowledged" => c.plan \in deleted'
    BY <1>1, <1>2 DEF Knows
  <2>7. Knows(d)'
    BY <1>2, <2>3, <2>4, <2>5, <2>6 DEF Knows, Same, Noted
  <2>8. QED
    BY <1>1, <1>4, <2>1, <2>2, <2>7 DEF Become, Moves, StepKeeps
<1>5. QED
  BY <1>1, <1>3, <1>4 DEF WriteRecord

LEMMA SummaryKeeps ==
  ASSUME IInv, NEW i \in Slots, WriteSummary(i) PROVE StepKeeps(i)
<1>1. PICK c \in Cmds : c = cmd[i] /\ Knows(c)
  BY DEF IInv, Types
<1>2. /\ c.pc = "records" /\ c.plan \in Plans /\ c.plan \in artifacts /\ c.kind \in {"run", "desktop"}
      /\ \A g \in Pages : pageFile[g] = c.plan
      /\ UNCHANGED <<svc, deleted, artifacts, pageFile, task, audit, slot>>
  BY <1>1 DEF WriteSummary, At, Knows, serviceVars, storeVars
<1>3. Grows /\ StateTypes' /\ (UNCHANGED summary => Shared')
  BY <1>2, QuietGrows
<1>4. CASE Fail(i) /\ UNCHANGED summary
  BY <1>1, <1>2, <1>3, <1>4, FailMoves DEF StepKeeps
<1>5. ASSUME NEW place \in {"delete", "put"}, summary' = [g \in Pages |-> c.plan], Go(i, place),
             place = "delete" => c.kind = "desktop"
      PROVE  StepKeeps(i)
  <2>1. summary' = pageFile' /\ \A g \in Pages : pageFile'[g] # Null
    BY <1>2, <1>5, PlansAssumption DEF IInv, Types, StateTypes
  <2>2. Shared'
    BY <1>2, <2>1 DEF IInv, Shared, InstalledHasArtifact, AcknowledgedMeansDeleted, Good
  <2>3. place \in Places
    BY DEF Places, Requests, LocalPlaces, Over
  <2>4. PICK d \in Cmds : d = To(c, place)
    BY <2>3, ToIs
  <2>5. Same(c, d) /\ d.pc = place /\ d.retention \in Noted(c)
    BY <2>3, <2>4, ToIs
  <2>6. /\ c.plan \in artifacts'
        /\ c.retention = "acknowledged" => c.plan \in deleted'
    BY <1>1, <1>2 DEF Knows
  <2>7. Knows(d)'
    BY <1>2, <1>5, <2>5, <2>6 DEF Knows, Same, Noted
  <2>8. QED
    BY <1>1, <1>3, <1>5, <2>2, <2>4, <2>7 DEF Go, Become, Moves, StepKeeps
<1>6. QED
  BY <1>1, <1>4, <1>5 DEF WriteSummary, Recorded

LEMMA FallbackKeeps ==
  ASSUME IInv, NEW i \in Slots, Fallback(i) PROVE StepKeeps(i)
<1>1. PICK c \in Cmds : c = cmd[i] /\ Knows(c)
  BY DEF IInv, Types
<1>2. /\ c.pc = "fallback" /\ c.plan \in Plans /\ c.todo \subseteq Pages
      /\ \A h \in Pages \ c.todo : pageFile[h] # Null
      /\ UNCHANGED <<svc, deleted, artifacts, task, audit, slot>>
  BY <1>1 DEF Fallback, At, Knows, Cmds, serviceVars, storeVars
<1>3. pageFile \in [Pages -> Plans \cup {"local", Null}]
  BY DEF IInv, Types, StateTypes
<1>4. ASSUME NEW g \in c.todo, UNCHANGED summary, Become(i, [c EXCEPT !.todo = c.todo \ {g}]),
             pageFile' = [pageFile EXCEPT ![g] = IF pageFile[g] = Null THEN "local" ELSE pageFile[g]]
      PROVE  StepKeeps(i)
  <2>1. Grows /\ Shared' /\ StateTypes' /\ pageFile'[g] # Null
    <3>1. CASE pageFile[g] = Null
      <4>1. pageFile' = [pageFile EXCEPT ![g] = "local"]
        BY <1>4, <3>1
      <4>2. QED
        BY <1>2, <1>4, <3>1, <4>1, PageGrows, PlansAssumption
    <3>2. CASE pageFile[g] # Null
      <4>1. UNCHANGED pageFile
        BY <1>3, <1>4, <3>2
      <4>2. QED
        BY <1>2, <1>4, <3>2, <4>1, QuietGrows
    <3>3. QED
      BY <3>1, <3>2
  <2>2. PICK d \in Cmds : d = [c EXCEPT !.todo = c.todo \ {g}]
    BY <1>2 DEF Cmds
  <2>3. Same(c, d) /\ d.pc = "fallback" /\ d.todo = c.todo \ {g} /\ d.retention \in Noted(c)
    BY <1>2, <2>2 DEF Cmds, Same, Noted
  <2>4. \A h \in Pages \ d.todo : pageFile'[h] # Null
    BY <1>2, <2>1, <2>3 DEF Grows
  <2>5. /\ c.seen # Null /\ c.seen.artifact => c.plan \in artifacts'
        /\ c.retention = "acknowledged" => c.plan \in deleted'
    BY <1>1, <1>2 DEF Knows
  <2>6. Knows(d)'
    BY <1>2, <2>3, <2>4, <2>5 DEF Knows, Same, Noted
  <2>7. QED
    BY <1>1, <1>4, <2>1, <2>2, <2>6 DEF Become, Moves, StepKeeps
<1>5. CASE c.todo = {} /\ summary' = pageFile /\ Go(i, "fcount") /\ UNCHANGED pageFile
  <2>1. Grows /\ StateTypes'
    BY <1>2, <1>5, QuietGrows
  <2>2. Shared'
    BY <1>2, <1>5, <2>1 DEF IInv, Shared, InstalledHasArtifact, AcknowledgedMeansDeleted, Good
  <2>3. "fcount" \in Places
    BY DEF Places, LocalPlaces, FallbackPlaces, Over
  <2>4. Moves(i)
    BY <1>1, <1>2, <1>5, <2>1, <2>3, ToIs, GoMoves DEF Go, Requests
  <2>5. QED
    BY <2>1, <2>2, <2>4 DEF StepKeeps
<1>6. QED
  BY <1>1, <1>4, <1>5 DEF Fallback

\* A record may be stored that says what is true of its plan.
Candidates == [state : {"result_installed", "cancelled"}, retention : Retentions, cost : Nat, artifact : BOOLEAN]
True(p, record) ==
  /\ record \in Candidates
  /\ record.artifact => p \in artifacts
  /\ record.retention = "acknowledged" => p \in deleted

LEMMA StoredKeeps ==
  ASSUME IInv, NEW p \in Plans, NEW record, True(p, record), Accepts(record),
         task' = [task EXCEPT ![p] = record],
         UNCHANGED <<svc, deleted, artifacts, pageFile, summary, audit, slot>>
  PROVE  Shared' /\ StateTypes'
<1>1. task \in [Plans -> Records \cup {Null}] /\ Budget \in Nat
  BY BoundsAssumption DEF IInv, Types, StateTypes
<1>2. record \in Records
  BY <1>1 DEF True, Candidates, Records, Accepts
<1>3. StateTypes'
  BY <1>1, <1>2 DEF IInv, Types, StateTypes
<1>4. ASSUME NEW q \in Plans, task'[q] # Null
      PROVE  /\ task'[q].artifact => q \in artifacts
             /\ task'[q].retention = "acknowledged" => q \in deleted
  <2>1. CASE q = p
    BY <1>1, <2>1 DEF True
  <2>2. CASE q # p
    BY <1>1, <1>4, <2>2 DEF IInv, Shared, InstalledHasArtifact, AcknowledgedMeansDeleted
  <2>3. QED
    BY <2>1, <2>2
<1>5. QED
  BY <1>3, <1>4 DEF IInv, Shared, InstalledHasArtifact, AcknowledgedMeansDeleted, Good

LEMMA PutKeeps ==
  ASSUME IInv, NEW i \in Slots, cmd[i].pc # "idle", NEW record, True(cmd[i].plan, record),
         NEW place \in {"audit", "count", "acount"}, PutTask(i, record, place),
         place = "audit" => cmd[i].kind = "run" /\ cmd[i].plan \in artifacts,
         UNCHANGED <<svc, deleted, artifacts, pageFile, summary, audit, slot>>
  PROVE  StepKeeps(i)
<1>1. PICK c \in Cmds : c = cmd[i] /\ Knows(c)
  BY DEF IInv, Types
<1>2. c.plan \in Plans
  BY <1>1 DEF Knows
<1>3. Grows /\ (UNCHANGED task => Shared' /\ StateTypes')
  BY QuietGrows
<1>4. CASE Accepts(record)
  <2>1. Shared' /\ StateTypes'
    BY <1>1, <1>2, <1>4, StoredKeeps DEF PutTask
  <2>2. place \in Places
    BY DEF Places, LocalPlaces, Over
  <2>3. Moves(i)
    BY <1>1, <1>3, <1>4, <2>2, ToIs, GoMoves DEF PutTask, Go, Requests
  <2>4. QED
    BY <1>3, <2>1, <2>3 DEF StepKeeps
<1>5. CASE ~ Accepts(record)
  BY <1>3, <1>5, FailMoves DEF PutTask, StepKeeps
<1>6. QED
  BY <1>4, <1>5

LEMMA RecordIs ==
  ASSUME NEW c \in Cmds, NEW retention \in Retentions
  PROVE  /\ Record(c, retention) \in Candidates
         /\ Record(c, retention).retention = retention /\ Record(c, retention).artifact
BY DEF Record, Candidates, Cmds

LEMMA RecordsKeep ==
  ASSUME IInv, NEW i \in Slots, Put(i) \/ PutRetention(i) \/ WriteAction(i)
  PROVE  StepKeeps(i)
<1>1. PICK c \in Cmds : c = cmd[i] /\ Knows(c)
  BY DEF IInv, Types
<1>2. /\ c.pc \in {"put", "reput", "act"} /\ c.plan \in Plans /\ c.retention \in Retentions
      /\ UNCHANGED <<svc, deleted, artifacts, pageFile, summary, audit, slot>>
  BY <1>1 DEF Put, PutRetention, WriteAction, At, Knows, Cmds, serviceVars, fileVars
<1>3. {"pending", "not_requested", "acknowledged"} \subseteq Retentions
  BY DEF Retentions
<1>4. CASE Put(i)
  <2>1. c.plan \in artifacts /\ (c.retention = "acknowledged" => c.plan \in deleted)
    BY <1>1, <1>4 DEF Put, At, Knows
  <2>2. True(c.plan, Record(c, "pending")) /\ True(c.plan, Record(c, c.retention))
    BY <1>2, <1>3, <2>1, RecordIs DEF True
  <2>3. \/ PutTask(i, Record(c, "pending"), "audit") /\ c.kind = "run"
        \/ PutTask(i, Record(c, c.retention), "count")
    BY <1>1, <1>4 DEF Put
  <2>4. QED
    BY <1>1, <1>2, <2>1, <2>2, <2>3, PutKeeps
<1>5. CASE PutRetention(i)
  <2>1. c.plan \in artifacts /\ (c.retention = "acknowledged" => c.plan \in deleted)
    BY <1>1, <1>5 DEF PutRetention, At, Knows
  <2>2. True(c.plan, Record(c, c.retention))
    BY <1>2, <2>1, RecordIs DEF True
  <2>3. Grows /\ (UNCHANGED task => Shared' /\ StateTypes')
    BY <1>2, QuietGrows
  <2>4. Shared' /\ StateTypes'
    BY <1>1, <1>2, <1>5, <2>2, <2>3, StoredKeeps DEF PutRetention
  <2>5. "reaudit" \in Places
    BY DEF Places, LocalPlaces, Over
  <2>6. Moves(i)
    BY <1>1, <1>2, <1>5, <2>3, <2>5, ToIs, GoMoves DEF PutRetention, Go, Requests
  <2>7. QED
    BY <2>3, <2>4, <2>6 DEF StepKeeps
<1>6. CASE WriteAction(i)
  <2>1. /\ c.kind \in {"cancel", "delete"} /\ (c.kind = "delete" => c.plan \in deleted)
        /\ c.seen \in Records \cup {Null} /\ (c.seen # Null /\ c.seen.artifact => c.plan \in artifacts)
    BY <1>1, <1>6 DEF WriteAction, At, Knows, Cmds
  <2>2. PICK seen \in Candidates :
          /\ seen.artifact => c.plan \in artifacts
          /\ ActionRecord(c) = IF c.kind = "cancel"
                               THEN [seen EXCEPT !.state = "cancelled", !.retention = "not_requested"]
                               ELSE [seen EXCEPT !.state = "result_installed", !.retention = "acknowledged"]
    <3>1. CASE c.seen = Null
      <4>1. /\ [Record(c, "pending") EXCEPT !.artifact = FALSE] \in Candidates
            /\ ~ [Record(c, "pending") EXCEPT !.artifact = FALSE].artifact
        <5>1. Record(c, "pending") \in Candidates
          BY <1>3, RecordIs
        <5>2. QED
          BY <5>1 DEF Candidates
      <4>2. QED
        BY <3>1, <4>1 DEF ActionRecord
    <3>2. CASE c.seen # Null
      <4>1. c.seen \in Candidates
        BY <2>1, <3>2, BoundsAssumption DEF Records, Candidates
      <4>2. QED
        BY <2>1, <3>2, <4>1 DEF ActionRecord
    <3>3. QED
      BY <3>1, <3>2
  <2>3. True(c.plan, ActionRecord(c))
    <3>1. CASE c.kind = "cancel"
      BY <1>3, <2>2, <3>1 DEF True, Candidates
    <3>2. CASE c.kind = "delete"
      BY <1>3, <2>1, <2>2, <3>2 DEF True, Candidates
    <3>3. QED
      BY <2>1, <3>1, <3>2
  <2>4. PutTask(i, ActionRecord(c), "acount")
    BY <1>1, <1>6 DEF WriteAction
  <2>5. QED
    BY <1>1, <1>2, <2>3, <2>4, PutKeeps
<1>7. QED
  BY <1>4, <1>5, <1>6

-----------------------------------------------------------------------------
(***************************************************************************)
(* Events.                                                                 *)
(***************************************************************************)
LEMMA LogIsThere ==
  ASSUME NEW c \in Cmds, c.plan \in Plans PROVE Log(c) \in Plans \X Jobs
BY DEF Log, Jobs

\* Only the log of events and the command itself change.
LEMMA AuditKeeps ==
  ASSUME IInv, NEW log \in Plans \X Jobs, NEW event,
         UNCHANGED audit \/ audit' = [audit EXCEPT ![log] = audit[log] \cup {event}],
         UNCHANGED <<svc, deleted, artifacts, pageFile, summary, task, slot>>
  PROVE  Grows /\ Shared' /\ StateTypes'
<1>1. audit' \in [Plans \X Jobs -> {audit'[l] : l \in Plans \X Jobs}]
      /\ \A l \in Plans \X Jobs : IsFiniteSet(audit'[l])
  <2>1. CASE UNCHANGED audit
    BY <2>1 DEF IInv, Types, StateTypes
  <2>2. CASE audit' = [audit EXCEPT ![log] = audit[log] \cup {event}]
    <3>1. \A l \in Plans \X Jobs : audit'[l] = IF l = log THEN audit[l] \cup {event} ELSE audit[l]
      BY <2>2 DEF IInv, Types, StateTypes
    <3>2. \A l \in Plans \X Jobs : IsFiniteSet(audit[l]) /\ IsFiniteSet(audit[l] \cup {event})
      BY FS_AddElement DEF IInv, Types, StateTypes
    <3>3. \A l \in Plans \X Jobs : IsFiniteSet(audit'[l])
      BY <3>1, <3>2
    <3>4. audit' \in [Plans \X Jobs -> {audit'[l] : l \in Plans \X Jobs}]
      BY <2>2 DEF IInv, Types, StateTypes
    <3>5. QED
      BY <3>3, <3>4
  <2>3. QED
    BY <2>1, <2>2
<1>2. Grows /\ Shared'
  BY QuietGrows
<1>3. QED
  BY <1>1, <1>2 DEF IInv, Types, StateTypes

LEMMA AppendKeeps ==
  ASSUME IInv, NEW i \in Slots, cmd[i].pc # "idle", NEW event, NEW d \in Cmds, Append(i, event, d),
         Grows => Knows(d)',
         UNCHANGED <<svc, deleted, artifacts, pageFile, summary, task, slot>>
  PROVE  StepKeeps(i)
<1>1. PICK c \in Cmds : c = cmd[i] /\ Knows(c)
  BY DEF IInv, Types
<1>2. Log(c) \in Plans \X Jobs
  BY <1>1, LogIsThere DEF Knows
<1>3. UNCHANGED audit \/ audit' = [audit EXCEPT ![Log(c)] = audit[Log(c)] \cup {event}]
  BY <1>1 DEF Append
<1>4. Grows /\ Shared' /\ StateTypes'
  BY <1>2, <1>3, AuditKeeps
<1>5. Fail(i) \/ Become(i, d)
  BY DEF Append
<1>6. Moves(i)
  BY <1>4, <1>5, FailMoves DEF Moves, Become
<1>7. QED
  BY <1>4, <1>6 DEF StepKeeps

\* Going on with nothing but the log changed.
LEMMA GoKeeps ==
  ASSUME IInv, NEW i \in Slots, NEW place \in {"reaudit", "count", "done"}, cmd[i].pc # "idle", Go(i, place),
         NEW log \in Plans \X Jobs, NEW event,
         UNCHANGED audit \/ audit' = [audit EXCEPT ![log] = audit[log] \cup {event}],
         UNCHANGED <<svc, deleted, artifacts, pageFile, summary, task, slot>>
  PROVE  StepKeeps(i)
<1>1. PICK c \in Cmds : c = cmd[i]
  BY DEF IInv, Types
<1>2. place \in Places
  BY DEF Places, LocalPlaces, Over
<1>3. Grows /\ Shared' /\ StateTypes'
  BY AuditKeeps
<1>4. Moves(i)
  BY <1>1, <1>2, <1>3, ToIs, GoMoves DEF Go, Requests
<1>5. QED
  BY <1>3, <1>4 DEF StepKeeps

\* The steps that append an event, and where they take a command.
LEMMA EventsKeep ==
  ASSUME IInv, NEW i \in Slots,
         AuditResult(i) \/ AuditRetention(i) \/ AppendEvent(i) \/ AppendTrace(i)
  PROVE  StepKeeps(i)
<1>1. PICK c \in Cmds : c = cmd[i] /\ Knows(c)
  BY DEF IInv, Types
<1>2. /\ c.pc \in {"audit", "reaudit", "event", "fevent", "traces"} /\ c.plan \in Plans
      /\ UNCHANGED <<svc, deleted, artifacts, pageFile, summary, task, slot>>
  BY <1>1 DEF AuditResult, AuditRetention, AppendEvent, AppendTrace, At, Knows, serviceVars, fileVars
<1>3. Log(c) \in Plans \X Jobs
  BY <1>2, LogIsThere
<1>4. /\ c.seen # Null /\ c.seen.artifact => c.plan \in artifacts
      /\ c.retention = "acknowledged" => c.plan \in deleted
      /\ c.pc = "audit" => c.kind = "run" /\ c.plan \in artifacts
  BY <1>1 DEF Knows
<1>5. CASE AuditResult(i)
  <2>1. PICK place \in {"delete", "count"} : Append(i, <<"result", 0>>, To(c, place)) /\ c.pc = "audit"
    BY <1>1, <1>5 DEF AuditResult, At
  <2>2. place \in Places
    BY DEF Places, LocalPlaces, Requests, Over
  <2>3. PICK d \in Cmds : d = To(c, place)
    BY <2>2, ToIs
  <2>4. Same(c, d) /\ d.pc = place /\ d.retention \in Noted(c)
    BY <2>2, <2>3, ToIs
  <2>5. Knows(d)'
    BY <1>2, <1>4, <2>1, <2>4 DEF Knows, Same, Noted
  <2>6. QED
    BY <1>1, <1>2, <2>1, <2>3, <2>5, AppendKeeps
<1>6. CASE AuditRetention(i)
  <2>1. Go(i, "count") /\ audit' = [audit EXCEPT ![Log(c)] = audit[Log(c)] \cup {<<"retention", 0>>}]
    BY <1>1, <1>6 DEF AuditRetention
  <2>2. QED
    BY <1>1, <1>2, <1>3, <2>1, GoKeeps
<1>7. CASE AppendEvent(i)
  <2>1. PICK place \in {"done", "count"} : \E event : Append(i, event, To(c, place))
    BY <1>1, <1>7 DEF AppendEvent
  <2>2. place \in Places
    BY DEF Places, LocalPlaces, Over
  <2>3. PICK d \in Cmds : d = To(c, place)
    BY <2>2, ToIs
  <2>4. Same(c, d) /\ d.pc = place /\ d.retention \in Noted(c)
    BY <2>2, <2>3, ToIs
  <2>5. Knows(d)'
    BY <1>2, <1>4, <2>4 DEF Knows, Same, Noted
  <2>6. PICK event : Append(i, event, d)
    BY <2>1, <2>3
  <2>7. QED
    BY <1>1, <1>2, <2>1, <2>3, <2>5, <2>6, AppendKeeps
<1>8. CASE AppendTrace(i)
  <2>1. CASE c.traces = 0
    <3>1. Go(i, "done") /\ UNCHANGED audit
      BY <1>1, <1>8, <2>1 DEF AppendTrace
    <3>2. QED
      BY <1>1, <1>2, <1>3, <3>1, GoKeeps
  <2>2. CASE c.traces # 0
    <3>1. PICK event : Append(i, event, [c EXCEPT !.traces = c.traces - 1, !.events = c.events + 1])
      BY <1>1, <1>8, <2>2 DEF AppendTrace
    <3>2. c.traces - 1 \in Nat /\ c.events + 1 \in Nat
      BY <2>2 DEF Cmds
    <3>3. PICK d \in Cmds : d = [c EXCEPT !.traces = c.traces - 1, !.events = c.events + 1]
      BY <3>2 DEF Cmds
    <3>4. Alike(c, d)
      BY <3>3 DEF Cmds, Alike, Same, Noted
    <3>5. QED
      BY <1>1, <1>2, <3>1, <3>3, <3>4, AlikeKnows, AppendKeeps
  <2>3. QED
    BY <2>1, <2>2
<1>9. QED
  BY <1>5, <1>6, <1>7, <1>8

LEMMA ReadsKeep ==
  ASSUME IInv, NEW i \in Slots, ReadTask(i) \/ CountEvents(i) \/ LocalError(i)
  PROVE  StepKeeps(i)
<1>1. PICK c \in Cmds : c = cmd[i] /\ Knows(c)
  BY DEF IInv, Types
<1>2. /\ c.pc # "idle" /\ c.plan \in Plans
      /\ UNCHANGED <<svc, deleted, artifacts, pageFile, summary, task, audit, slot>>
  <2>1. "idle" \notin LocalPlaces
    BY DEF LocalPlaces, FallbackPlaces
  <2>2. QED
    BY <1>1, <2>1 DEF ReadTask, CountEvents, LocalError, At, Knows, serviceVars, fileVars, storeVars
<1>3. Grows /\ Shared' /\ StateTypes'
  BY <1>2, QuietGrows
<1>4. CASE ReadTask(i)
  <2>1. "act" \in Places
    BY DEF Places, LocalPlaces, Over
  <2>2. To(c, "act") \in Cmds /\ Same(c, To(c, "act")) /\ To(c, "act").pc = "act"
        /\ To(c, "act").retention \in Noted(c)
    BY <2>1, ToIs
  <2>3. task[c.plan] \in Records \cup {Null}
    BY <1>2 DEF IInv, Types, StateTypes
  <2>4. PICK d \in Cmds : d = [To(c, "act") EXCEPT !.seen = task[c.plan]]
    BY <2>2, <2>3 DEF Cmds
  <2>5. /\ d.kind = c.kind /\ d.plan = c.plan /\ d.pc = "act" /\ d.retention \in Noted(c)
        /\ d.seen = task[c.plan]
    BY <2>2, <2>4 DEF Cmds, Same, Noted
  <2>6. /\ c.kind \in {"cancel", "delete"} /\ (c.kind = "delete" => c.plan \in deleted)
        /\ c.retention = "acknowledged" => c.plan \in deleted
    BY <1>1, <1>4 DEF ReadTask, At, Knows
  <2>7. task[c.plan] # Null /\ task[c.plan].artifact => c.plan \in artifacts
    BY <1>2 DEF IInv, Shared, InstalledHasArtifact
  <2>8. Knows(d)'
    BY <1>2, <2>5, <2>6, <2>7 DEF Knows, Noted
  <2>9. QED
    BY <1>1, <1>3, <1>4, <2>4, <2>8 DEF ReadTask, Become, Moves, StepKeeps
<1>5. CASE CountEvents(i)
  <2>1. PICK place \in {"event", "fevent", "traces"} :
          Become(i, [To(c, place) EXCEPT !.events = Cardinality(audit[Log(c)])])
    BY <1>1, <1>5 DEF CountEvents
  <2>2. place \in Places
    BY DEF Places, LocalPlaces, FallbackPlaces, Over
  <2>3. Cardinality(audit[Log(c)]) \in Nat
    BY <1>2, LogIsThere, FS_CardinalityType DEF IInv, Types, StateTypes
  <2>4. To(c, place) \in Cmds /\ Same(c, To(c, place)) /\ To(c, place).pc = place
        /\ To(c, place).retention \in Noted(c)
    BY <2>2, ToIs
  <2>5. PICK d \in Cmds : d = [To(c, place) EXCEPT !.events = Cardinality(audit[Log(c)])]
    BY <2>3, <2>4 DEF Cmds
  <2>6. Same(c, d) /\ d.pc = place /\ d.retention \in Noted(c)
    BY <2>4, <2>5 DEF Cmds, Same, Noted
  <2>7. Moves(i)
    BY <1>1, <1>2, <1>3, <2>1, <2>2, <2>5, <2>6, GoMoves DEF Requests
  <2>8. QED
    BY <1>3, <2>7 DEF StepKeeps
<1>6. CASE LocalError(i)
  <2>1. Fail(i) \/ \E place \in {"reaudit", "count"} : Go(i, place)
    BY <1>6 DEF LocalError
  <2>2. CASE Fail(i)
    BY <1>1, <1>2, <1>3, <2>2, FailMoves DEF StepKeeps
  <2>3. ASSUME NEW place \in {"reaudit", "count"}, Go(i, place) PROVE StepKeeps(i)
    BY <1>1, <1>2, <2>3, LogIsThere, GoKeeps
  <2>4. QED
    BY <2>1, <2>2, <2>3
<1>7. QED
  BY <1>4, <1>5, <1>6

-----------------------------------------------------------------------------
(***************************************************************************)
(* Commands come and go, and the service works.                            *)
(***************************************************************************)
LEMMA IdleKnows == Knows(Idle)'
BY IdleIs DEF Knows

LEMMA NothingShared ==
  ASSUME IInv, UNCHANGED <<serviceVars, fileVars, storeVars>>, slot' \in Slots \cup {Null}
  PROVE  Grows /\ Shared' /\ StateTypes'
<1>1. UNCHANGED <<svc, deleted, artifacts, pageFile, summary, task, audit>>
  BY DEF serviceVars, fileVars, storeVars
<1>2. Grows /\ Shared'
  BY <1>1, QuietGrows
<1>3. QED
  BY <1>1, <1>2 DEF IInv, Types, StateTypes

LEMMA BeginKeeps ==
  ASSUME IInv, NEW i \in Slots, NEW kind \in Kinds, NEW p \in Plans, NEW option \in BOOLEAN,
         Begin(i, kind, p, option)
  PROVE  StepKeeps(i)
<1>1. Grows /\ Shared' /\ StateTypes'
  BY NothingShared DEF Begin, IInv, Types, StateTypes
<1>2. /\ FirstPlace(kind) \in {"create", "status", "cancel", "delete"} /\ FirstPlace(kind) \in Places
      /\ FirstPlace(kind) = "status" => kind = "import"
      /\ FirstPlace(kind) = "cancel" => kind = "cancel"
      /\ FirstPlace(kind) = "delete" => kind = "delete"
  BY DEF FirstPlace, Kinds, Places, Requests, Over
<1>3. PICK d \in Cmds : d = [Idle EXCEPT !.kind = kind, !.plan = p, !.option = option, !.pc = FirstPlace(kind)]
  BY <1>2, IdleIs DEF Cmds
<1>4. d.kind = kind /\ d.plan = p /\ d.pc = FirstPlace(kind) /\ d.seen = Null /\ d.retention # "acknowledged"
  BY <1>3 DEF Idle
<1>5. Knows(d)'
  BY <1>2, <1>4 DEF Knows
<1>6. QED
  BY <1>1, <1>3, <1>5 DEF Begin, Become, Moves, StepKeeps

LEMMA FinishKeeps == ASSUME IInv, NEW i \in Slots, Finish(i) PROVE StepKeeps(i)
<1>1. Grows /\ Shared' /\ StateTypes'
  BY NothingShared DEF Finish, IInv, Types, StateTypes
<1>2. QED
  BY <1>1, IdleIs, IdleKnows DEF Finish, Become, Moves, StepKeeps

LEMMA CancelKeeps == ASSUME IInv, ApiCancelCurrent PROVE slot \in Slots /\ StepKeeps(slot)
<1>1. slot \in Slots
  BY DEF ApiCancelCurrent, IInv, Types, StateTypes
<1>2. Grows /\ Shared' /\ StateTypes'
  BY NothingShared DEF ApiCancelCurrent, IInv, Types, StateTypes
<1>3. PICK c \in Cmds : c = cmd[slot] /\ Knows(c)
  BY <1>1 DEF IInv, Types
<1>4. PICK d \in Cmds, flag \in {"passed", "yes"} : d = [c EXCEPT !.cancelled = flag] /\ Become(slot, d)
  <2>1. PICK flag \in {"passed", "yes"} : Become(slot, [c EXCEPT !.cancelled = flag])
    BY <1>3 DEF ApiCancelCurrent, Cancelled
  <2>2. QED
    BY <2>1 DEF Cmds
<1>5. Alike(c, d)
  BY <1>4 DEF Cmds, Alike, Same, Noted
<1>6. Knows(d)'
  BY <1>2, <1>3, <1>5, AlikeKnows
<1>7. cmd' = [cmd EXCEPT ![slot] = d]
  BY <1>4 DEF Become
<1>8. QED
  BY <1>1, <1>2, <1>6, <1>7 DEF Moves, StepKeeps

LEMMA StepIsKept == ASSUME IInv, NEW i \in Slots, Step(i) PROVE StepKeeps(i)
BY AttemptKeeps, ReceiptKeeps, InstallKeeps, RecordKeeps, SummaryKeeps, FallbackKeeps, RecordsKeep,
   EventsKeep, ReadsKeep, FinishKeeps DEF Step

LEMMA KeptMeansInvariant == ASSUME IInv, NEW i \in Slots, StepKeeps(i) PROVE IInv'
BY MovesKnow DEF StepKeeps, IInv, Types

LEMMA DieKeeps == ASSUME IInv, NEW i \in Slots, Die(i) PROVE IInv'
<1>1. Grows /\ Shared' /\ StateTypes'
  BY NothingShared DEF Die, IInv, Types, StateTypes
<1>2. ASSUME NEW k \in Slots PROVE cmd'[k] \in Cmds /\ Knows(cmd[k])'
  <2>1. CASE cmd'[k] = Idle
    BY <2>1, IdleIs, IdleKnows
  <2>2. CASE cmd'[k] = cmd[k]
    <3>1. PICK c \in Cmds : c = cmd[k] /\ c = cmd'[k]
      BY <2>2 DEF IInv, Types
    <3>2. Knows(c)'
      BY <1>1, <3>1, AlikeKnows DEF IInv, Alike, Same, Noted
    <3>3. QED
      BY <3>1, <3>2
  <2>3. QED
    BY <2>1, <2>2 DEF Die
<1>3. cmd' \in [Slots -> Cmds]
  BY <1>2 DEF Die
<1>4. QED
  BY <1>1, <1>2, <1>3 DEF IInv, Types

LEMMA ServiceKeeps == ASSUME IInv, NEW p \in Plans, ServiceWorks(p) PROVE IInv'
<1>1. svc \in [Plans -> [state : States, cost : Nat]] /\ svc[p].state = "running"
  BY DEF IInv, Types, StateTypes, ServiceWorks
<1>2. PICK state \in States, cost \in Nat : svc' = [svc EXCEPT ![p] = [state |-> state, cost |-> cost]]
  <2>1. svc[p].cost \in Nat /\ CostBound \in Nat
    BY <1>1, BoundsAssumption
  <2>2. \A n \in svc[p].cost .. CostBound : n \in Nat
    BY <2>1
  <2>3. QED
    BY <2>2 DEF ServiceWorks, States
<1>3. svc' \in [Plans -> [state : States, cost : Nat]]
  BY <1>1, <1>2
<1>4. UNCHANGED <<deleted, artifacts, pageFile, summary, task, audit, slot, cmd>>
  BY DEF ServiceWorks, fileVars, storeVars
<1>5. ASSUME NEW q \in Plans, Good(q) PROVE Good(q)'
  BY <1>1, <1>2, <1>5 DEF Good
<1>6. Grows
  BY <1>4, <1>5 DEF Grows
<1>7. Shared' /\ StateTypes'
  BY <1>3, <1>4, <1>6, SharedStays DEF IInv, Types, StateTypes
<1>8. ASSUME NEW k \in Slots PROVE Knows(cmd[k])'
  <2>1. PICK c \in Cmds : c = cmd[k] /\ c = cmd'[k]
    BY <1>4 DEF IInv, Types
  <2>2. Knows(c)'
    BY <1>6, <2>1, AlikeKnows DEF IInv, Alike, Same, Noted
  <2>3. QED
    BY <2>1, <2>2
<1>9. QED
  BY <1>4, <1>7, <1>8 DEF IInv, Types

-----------------------------------------------------------------------------
(***************************************************************************)
(* The theorems.                                                           *)
(***************************************************************************)
LEMMA IInvInit == Init => IInv
<1> SUFFICES ASSUME Init PROVE IInv
  OBVIOUS
<1>1. audit \in [Plans \X Jobs -> {audit[l] : l \in Plans \X Jobs}]
      /\ \A l \in Plans \X Jobs : IsFiniteSet(audit[l])
  BY FS_EmptySet DEF Init
<1>2. svc \in [Plans -> [state : States, cost : Nat]]
  BY DEF Init, States
<1>3. cmd \in [Slots -> Cmds] /\ \A k \in Slots : cmd[k] = Idle
  BY IdleIs DEF Init
<1>4. \A k \in Slots : Knows(cmd[k])
  BY <1>3, IdleIs DEF Knows
<1>5. Shared
  BY PlansAssumption DEF Init, Shared, InstalledHasArtifact, AcknowledgedMeansDeleted
<1>6. QED
  BY <1>1, <1>2, <1>3, <1>4, <1>5 DEF Init, IInv, Types, StateTypes

LEMMA IInvStep == IInv /\ [Next]_vars => IInv'
<1>1. ASSUME IInv, UNCHANGED vars PROVE IInv'
  BY <1>1 DEF IInv, Types, StateTypes, Shared, InstalledHasArtifact, AcknowledgedMeansDeleted, Good, Knows,
              vars, serviceVars, fileVars, storeVars
<1>2. ASSUME IInv, ApiCancelCurrent PROVE IInv'
  BY <1>2, CancelKeeps, KeptMeansInvariant
<1>3. ASSUME IInv, NEW i \in Slots, Step(i) \/ Die(i) PROVE IInv'
  BY <1>3, StepIsKept, KeptMeansInvariant, DieKeeps
<1>4. ASSUME IInv, NEW i \in Slots, NEW kind \in Kinds, NEW p \in Plans, NEW option \in BOOLEAN,
             Begin(i, kind, p, option)
      PROVE  IInv'
  BY <1>4, BeginKeeps, KeptMeansInvariant
<1>5. QED
  BY <1>1, <1>2, <1>3, <1>4, ServiceKeeps DEF Next

LEMMA Invariance == Spec => []IInv
BY IInvInit, IInvStep, PTL DEF Spec

\* A stored record that names an artifact finds it in the package, for any
\* number of commands and deaths.
THEOREM InstalledHasArtifactCorrect == Spec => []InstalledHasArtifact
<1>1. IInv => InstalledHasArtifact
  BY DEF IInv, Shared
<1>2. QED
  BY <1>1, Invariance, PTL

\* The summary describes the page records beside it.
THEOREM SummaryMatchesPagesCorrect == Spec => []SummaryMatchesPages
<1>1. IInv => SummaryMatchesPages
  BY DEF IInv, Shared, SummaryMatchesPages
<1>2. QED
  BY <1>1, Invariance, PTL

\* Every page of a result in the package is of a task that completed within
\* the budget.
THEOREM OverBudgetCorrect == Spec => []OverBudgetResultNotInPackage
<1>1. IInv => OverBudgetResultNotInPackage
  BY DEF IInv, Shared, OverBudgetResultNotInPackage, Good
<1>2. QED
  BY <1>1, Invariance, PTL

\* A record says that content was deleted only when the service deleted it.
THEOREM AcknowledgedCorrect == Spec => []AcknowledgedMeansDeleted
<1>1. IInv => AcknowledgedMeansDeleted
  BY DEF IInv, Shared
<1>2. QED
  BY <1>1, Invariance, PTL
=============================================================================
