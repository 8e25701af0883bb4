------------------------- MODULE ScriptRunnerProofs -------------------------
(***************************************************************************)
(* The threads of run_script, for every number of calls, pids and          *)
(* descendants: RunnerInv is inductive, the kill stays with its own group, *)
(* and the call implements the two steps Script.tla takes it for.          *)
(***************************************************************************)
EXTENDS ScriptRunner, TLAPS

\* The first state has no call.
LEMMA RunnerInvInit == RunnerInit => RunnerInv
  BY RunnerBounds, SMT DEF RunnerInit, RunnerInv, RunnerTypeOK, CallInHand, NotYetCalled, WaiterKeepsOrder,
         NothingLeftToKill, OneGroupPerNumber, TimeoutClears, NothingUnreaped, Holds, Call

\* A script that ends adds at most its own call to done.
LEMMA WorkedTyped ==
    ASSUME done \subseteq Call, NEW c \in Call, UNCHANGED done \/ Worked(c)
    PROVE  done' \subseteq Call
  BY Zenon DEF Worked

\* The steps of main keep RunnerInv.
LEMMA MainKeeps ==
    ASSUME RunnerInv, (\E p \in Pid : Spawn(p)) \/ SpawnFails \/ MainStep \/ Crash
    PROVE  RunnerInv'
<1> USE RunnerBounds DEF RunnerInv, RunnerTypeOK, CallInHand, NotYetCalled, WaiterKeepsOrder,
        NothingLeftToKill, OneGroupPerNumber, TimeoutClears, NothingUnreaped, Holds, Call,
        childVars, threadVars
<1>1. ASSUME NEW p \in Pid, Spawn(p) PROVE RunnerInv'
  BY <1>1, SMTT(60) DEF Spawn, Free
<1>2. CASE SpawnFails
  BY <1>2, SMTT(60) DEF SpawnFails
<1>3. CASE Receive
  BY <1>3, SMTT(60) DEF Receive, Return
<1>4. CASE Timeout
  BY <1>4, SMTT(60) DEF Timeout
<1>5. CASE Kill
  <2> USE <1>5 DEF Kill, KillGroup
  <2>1. current \in Call
    OBVIOUS
  <2>2. done' \subseteq Call
    BY <2>1, WorkedTyped
  <2>3. /\ leader' \in [Call -> {"none", "running", "zombie", "reaped"}]
        /\ members' \in [Call -> 0 .. MaxMembers]
    OBVIOUS
  <2>4. \A c \in Call :
           /\ leader'[c] = leader[c] \/ (leader[c] = "running" /\ leader'[c] = "zombie")
           /\ members'[c] = members[c] \/ (Holds(c) /\ members'[c] = 0)
           /\ Holds(c)' => Holds(c)
    BY <2>3
  <2>5. NothingLeftToKill'
    BY <2>1, <2>3
  <2>6. OneGroupPerNumber'
    BY <2>1, <2>4
  <2>7. QED
    BY <2>1, <2>2, <2>3, <2>4, <2>5, <2>6, SMTT(60)
<1>6. CASE Join
  BY <1>6, SMTT(60) DEF Join, Return
<1>7. CASE Crash
  BY <1>7, SMTT(60) DEF Crash, Return
<1>8. QED
  BY <1>1, <1>2, <1>3, <1>4, <1>5, <1>6, <1>7 DEF MainStep

\* The steps of the waiter threads and of the machine's processes keep it.
LEMMA OthersKeep ==
    ASSUME RunnerInv, (\E c \in Call : WaiterStep(c)) \/ Machine
    PROVE  RunnerInv'
<1> USE RunnerBounds DEF RunnerInv, RunnerTypeOK, CallInHand, NotYetCalled, WaiterKeepsOrder,
        NothingLeftToKill, OneGroupPerNumber, TimeoutClears, NothingUnreaped, Holds, Call,
        childVars, threadVars
<1>1. ASSUME NEW c \in Call, Reap(c) PROVE RunnerInv'
  BY <1>1, SMTT(60) DEF Reap
<1>2. ASSUME NEW c \in Call, Send(c) PROVE RunnerInv'
  <2>1. channel[c] = <<>>
    BY <1>2 DEF Send
  <2>2. Append(<<>>, "exited") = <<"exited">>
    OBVIOUS
  <2>3. channel' = [channel EXCEPT ![c] = <<"exited">>]
    BY <1>2, <2>1, <2>2, Zenon DEF Send
  <2>4. channel' \in [Call -> {<<>>, <<"exited">>}]
    BY <2>3
  <2>5. \A d \in Call : channel'[d] = IF d = c THEN <<"exited">> ELSE channel[d]
    BY <2>3
  <2>6. RunnerTypeOK'
    BY <1>2, <2>4 DEF Send
  <2>7. WaiterKeepsOrder'
    BY <1>2, <2>5 DEF Send
  <2>8. QED
    BY <1>2, <2>6, <2>7, SMTT(60) DEF Send
<1>3. ASSUME NEW c \in Call, Fork(c) PROVE RunnerInv'
  BY <1>3, SMTT(60) DEF Fork
<1>4. ASSUME NEW c \in Call, MemberEnds(c) PROVE RunnerInv'
  BY <1>4, SMTT(60) DEF MemberEnds
<1>5. ASSUME NEW c \in Call, LeaderEnds(c) PROVE RunnerInv'
  BY <1>5, SMTT(60) DEF LeaderEnds, Worked
<1>6. ASSUME NEW c \in Call, InitReaps(c) PROVE RunnerInv'
  BY <1>6, SMTT(60) DEF InitReaps
<1>7. ASSUME NEW p \in Pid, StrangerStarts(p) PROVE RunnerInv'
  BY <1>7, SMTT(60) DEF StrangerStarts, Free
<1>8. ASSUME NEW p \in Pid, StrangerEnds(p) PROVE RunnerInv'
  BY <1>8, SMTT(60) DEF StrangerEnds
<1>9. QED
  BY <1>1, <1>2, <1>3, <1>4, <1>5, <1>6, <1>7, <1>8 DEF Machine, WaiterStep
-----------------------------------------------------------------------------
\* A step that changes nothing keeps it.
LEMMA StutterKeeps == ASSUME RunnerInv, UNCHANGED runnerVars PROVE RunnerInv'
  BY DEF RunnerInv, RunnerTypeOK, CallInHand, NotYetCalled, WaiterKeepsOrder, NothingLeftToKill,
         OneGroupPerNumber, TimeoutClears, NothingUnreaped, Holds, Call,
         runnerVars, childVars, threadVars

\* Every step keeps it.
LEMMA StepKeeps == RunnerInv /\ [RunnerNext]_runnerVars => RunnerInv'
  BY MainKeeps, OthersKeep, StutterKeeps DEF RunnerNext

\* RunnerInv holds in every state: whatever the two threads, the scripts and the
\* other programs of the machine do.
THEOREM RunnerInvariant == RunnerSpec => []RunnerInv
  BY RunnerInvInit, StepKeeps, PTL DEF RunnerSpec

\* CRITICAL #1: nothing of the group of a call that timed out is left.
THEOREM TimedOutCallsClear == RunnerSpec => []TimeoutClears
<1>1. RunnerInv => TimeoutClears
  BY DEF RunnerInv
<1>2. QED
  BY <1>1, RunnerInvariant, PTL

\* "Reap the child to avoid a zombie": nothing of a finished call is left unreaped.
THEOREM NothingLeftUnreaped == RunnerSpec => []NothingUnreaped
<1>1. RunnerInv => NothingUnreaped
  BY DEF RunnerInv
<1>2. QED
  BY <1>1, RunnerInvariant, PTL

\* What the kill of the current call does to the shells, given RunnerInv.
LEMMA KillStrikes ==
    ASSUME RunnerInv, Kill
    PROVE  /\ current \in Call
           /\ \A c \in Call \ {current} : leader'[c] = leader[c] /\ members'[c] = members[c]
           /\ leader'[current] = IF leader[current] = "running" THEN "zombie" ELSE leader[current]
           /\ Holds(current) => pid[current] \notin strangers
  BY DEF RunnerInv, RunnerTypeOK, CallInHand, OneGroupPerNumber, Kill, KillGroup, Holds, Call

-----------------------------------------------------------------------------
(* The call implements Script. *)

\* What the call of Script sees changes only with these.
LEMMA Unseen ==
    ASSUME done' = done,
           (main' \in {"waiting", "killing"}) = (main \in {"waiting", "killing"}),
           \A c \in Call : leader'[c] = "running" <=> leader[c] = "running",
           \A c \in Call : leader[c] = "running" => ret'[c] = ret[c]
    PROVE  UNCHANGED (Abstract!callVars)
<1>1. Shells' = Shells
  BY Zenon DEF Shells, Shell
<1>2. CallStep' = CallStep
  BY DEF CallStep
<1>3. QED
  BY <1>1, <1>2 DEF Abstract!callVars

\* The shells the engine waits for: its current one, while it runs.
LEMMA OwnedShells ==
    ASSUME RunnerInv, main \in {"waiting", "killing"}
    PROVE  /\ current \in Call
           /\ Abstract!Owned = IF leader[current] = "running" THEN {Shell(current)} ELSE {}
<1>1. current \in Call /\ ret[current] = "none"
  BY DEF RunnerInv, RunnerTypeOK, CallInHand, Call
<1>2. \A c \in Call : leader[c] = "running" /\ ret[c] # "crashed" => c = current
  BY DEF RunnerInv, NothingUnreaped
<1>3. \A c \in Call : Shell(c).owner = "engine" <=> ret[c] # "crashed"
  BY DEF Shell
<1>4. QED
  BY <1>1, <1>2, <1>3 DEF Abstract!Owned, Shells

\* A spawn of run_script is Script's Spawn.
LEMMA SpawnImplements ==
    ASSUME RunnerInv, NEW p \in Pid, Spawn(p)
    PROVE  Abstract!CallNext(Call)
<1> DEFINE c == current + 1
<1>1. c \in Call /\ ret[c] = "none" /\ leader[c] = "none"
  BY RunnerBounds DEF RunnerInv, RunnerTypeOK, NotYetCalled, Spawn, Call
<1>2. leader' = [leader EXCEPT ![c] = "running"] /\ ret' = ret /\ done' = done
  BY DEF Spawn
<1>3. \A d \in Call : leader'[d] = IF d = c THEN "running" ELSE leader[d]
  BY <1>2 DEF RunnerInv, RunnerTypeOK
<1>4. \A d : Shell(d)' = Shell(d)
  BY <1>2 DEF Shell
<1>5. Shell(c) = [script |-> c, way |-> "run", owner |-> "engine"]
  BY <1>1 DEF Shell
<1>6. Shells' = Shells \cup {Shell(c)}
  <2>1. {d \in Call : leader'[d] = "running"} = {d \in Call : leader[d] = "running"} \cup {c}
    BY <1>1, <1>3
  <2>2. QED
    BY <1>4, <2>1 DEF Shells
<1>7. CallStep = [step |-> "start"] /\ CallStep' = [step |-> "spawned"]
  BY DEF CallStep, Spawn
<1>8. Abstract!Spawn(c, "run")
  BY <1>2, <1>5, <1>6, <1>7 DEF Abstract!Spawn
<1>9. QED
  BY <1>1, <1>8 DEF Abstract!CallNext

\* A message received in time is the end of a call whose script exited.
LEMMA ReceiveImplements ==
    ASSUME RunnerInv, Receive
    PROVE  Abstract!CallNext(Call)
<1>1. leader[current] = "reaped" /\ current \in Call
  BY DEF RunnerInv, RunnerTypeOK, CallInHand, WaiterKeepsOrder, Receive, Call
<1>2. Abstract!Owned = {} /\ CallStep = [step |-> "spawned"]
  BY <1>1, OwnedShells DEF Receive, CallStep
<1>3. leader' = leader /\ done' = done /\ (\A c \in Call : c # current => ret'[c] = ret[c])
  BY DEF Receive, Return, childVars, RunnerInv, RunnerTypeOK
<1>4. Shells' = Shells
  BY <1>1, <1>3 DEF Shells, Shell
<1>5. CallStep' = [step |-> "start"]
  BY DEF Receive, Return, CallStep
<1>6. QED
  BY <1>2, <1>3, <1>4, <1>5 DEF Abstract!CallNext, Abstract!Exited, Abstract!Over

\* The kill of the process group is the Kill of Script, also when the shell ended by
\* itself a moment ago.
LEMMA KillImplements ==
    ASSUME RunnerInv, Kill
    PROVE  Abstract!CallNext(Call)
<1>1. current \in Call /\ ret[current] = "none"
  BY DEF RunnerInv, RunnerTypeOK, CallInHand, Kill, Call
<1>2. ret' = ret /\ \A d : Shell(d)' = Shell(d)
  BY DEF Kill, Shell
<1>3. \A c \in Call : leader'[c] = "running" <=> leader[c] = "running" /\ c # current
  BY KillStrikes
<1>4. Abstract!Owned = IF leader[current] = "running" THEN {Shell(current)} ELSE {}
  BY OwnedShells DEF Kill
<1>5. Shells' = Shells \ Abstract!Owned
  <2>1. \A c \in Call : Shell(c).script = c
    BY DEF Shell
  <2>2. {d \in Call : leader'[d] = "running"} = {d \in Call : leader[d] = "running"} \ {current}
    BY <1>3
  <2>3. Shells' = {Shell(d) : d \in {e \in Call : leader[e] = "running"} \ {current}}
    BY <1>2, <2>2 DEF Shells
  <2>4. QED
    BY <1>1, <1>4, <2>1, <2>3 DEF Shells
<1>6. Shell(current) = [script |-> current, way |-> "run", owner |-> "engine"]
  BY <1>1 DEF Shell
<1>7. done' \in {done} \cup {Abstract!Effect(q) : q \in Abstract!Owned}
  <2>1. CASE leader[current] = "running"
    <3>1. done' \in {done, done \cup {current}}
      BY <2>1 DEF Kill, KillGroup, Worked
    <3>2. Abstract!Effect(Shell(current)) = done \cup {current}
      BY <1>6 DEF Abstract!Effect
    <3>3. QED
      BY <1>4, <2>1, <3>1, <3>2
  <2>2. CASE leader[current] # "running"
    BY <2>2 DEF Kill, KillGroup
  <2>3. QED
    BY <2>1, <2>2
<1>8. CallStep = [step |-> "spawned"] /\ CallStep' = [step |-> "start"]
  BY DEF Kill, CallStep
<1>9. Abstract!Kill /\ Abstract!Over
  BY <1>5, <1>7, <1>8 DEF Abstract!Kill, Abstract!Over
<1>10. QED
  BY <1>9 DEF Abstract!CallNext

\* A shell that ends is an Exit of Script, having done its work or not.
LEMMA LeaderEndsImplements ==
    ASSUME RunnerInv, NEW c \in Call, LeaderEnds(c)
    PROVE  Abstract!CallNext(Call)
<1>1. ret' = ret /\ main' = main /\ \A d : Shell(d)' = Shell(d)
  BY DEF LeaderEnds, threadVars, Shell
<1>2. \A d \in Call : leader'[d] = "running" <=> leader[d] = "running" /\ d # c
  BY DEF LeaderEnds, RunnerInv, RunnerTypeOK
<1>3. Shell(c) \in Shells
  BY DEF LeaderEnds, Shells
<1>4. Shells' = Shells \ {Shell(c)}
  <2>1. \A d \in Call : Shell(d).script = d
    BY DEF Shell
  <2>2. {d \in Call : leader'[d] = "running"} = {d \in Call : leader[d] = "running"} \ {c}
    BY <1>2
  <2>3. Shells' = {Shell(d) : d \in {e \in Call : leader[e] = "running"} \ {c}}
    BY <1>1, <2>2 DEF Shells
  <2>4. QED
    BY <2>1, <2>3 DEF Shells
<1>5. done' \in {done, Abstract!Effect(Shell(c))}
  BY DEF LeaderEnds, Worked, Abstract!Effect, Shell
<1>6. CallStep' = CallStep
  BY <1>1 DEF CallStep
<1>7. Abstract!Exit(Shell(c))
  BY <1>4, <1>5, <1>6 DEF Abstract!Exit
<1>8. QED
  BY <1>3, <1>7 DEF Abstract!CallNext

\* The death of the engine makes its shell an orphan.
LEMMA CrashImplements ==
    ASSUME RunnerInv, Crash
    PROVE  Abstract!CallNext(Call)
<1>1. leader' = leader /\ done' = done /\ current \in Call
  BY DEF Crash, childVars, RunnerInv, RunnerTypeOK, CallInHand, Call
<1>2. \A d \in Call : leader[d] = "running" => ret'[d] = "crashed"
  BY <1>1 DEF Crash, Return, RunnerInv, RunnerTypeOK, NothingUnreaped
<1>3. \A d \in Call : leader[d] = "running" => Shell(d)' = [Shell(d) EXCEPT !.owner = "nobody"]
  BY <1>2 DEF Shell
<1>4. Shells' = {[q EXCEPT !.owner = "nobody"] : q \in Shells}
  BY <1>1, <1>3 DEF Shells
<1>5. CallStep' = [CallStep EXCEPT !.step = "start"]
  BY DEF Crash, Return, CallStep
<1>6. Abstract!Orphan /\ Abstract!Over
  BY <1>1, <1>4, <1>5 DEF Abstract!Orphan, Abstract!Over
<1>7. QED
  BY <1>6 DEF Abstract!CallNext

\* run_script implements the call of Script.tla: what its threads and its process
\* group do in many steps is, to the engine, a spawn, an exit, a return or a kill.
THEOREM ImplementsScript == RunnerSpec => ScriptCalls
<1>1. RunnerInit => Abstract!CallInit
  BY DEF RunnerInit, Abstract!CallInit, Shells, CallStep
<1>2. ASSUME RunnerInv, [RunnerNext]_runnerVars
      PROVE  [Abstract!CallNext(Call)]_(Abstract!callVars)
  <2> USE <1>2 DEF childVars, threadVars
  <2>1. ASSUME NEW p \in Pid, Spawn(p) PROVE Abstract!CallNext(Call)
    BY <2>1, SpawnImplements
  <2>2. CASE SpawnFails
    <3>1. \A c \in Call : leader[c] = "running" => ret'[c] = ret[c]
      BY <2>2 DEF SpawnFails, RunnerInv, RunnerTypeOK, NotYetCalled, Call
    <3>2. QED
      BY <2>2, <3>1, Unseen DEF SpawnFails
  <2>3. CASE Receive
    BY <2>3, ReceiveImplements
  <2>4. CASE Timeout
    BY <2>4, Unseen DEF Timeout
  <2>5. CASE Kill
    BY <2>5, KillImplements
  <2>6. CASE Join
    <3>1. \A c \in Call : leader[c] = "running" => ret'[c] = ret[c]
      BY <2>6 DEF Join, Return, RunnerInv, RunnerTypeOK, NothingLeftToKill
    <3>2. QED
      BY <2>6, <3>1, Unseen DEF Join, Return
  <2>7. ASSUME NEW c \in Call, WaiterStep(c) PROVE UNCHANGED (Abstract!callVars)
    BY <2>7, Unseen DEF WaiterStep, Reap, Send, RunnerInv, RunnerTypeOK
  <2>8. ASSUME NEW c \in Call, Fork(c) \/ MemberEnds(c) \/ InitReaps(c)
        PROVE  UNCHANGED (Abstract!callVars)
    BY <2>8, Unseen DEF Fork, MemberEnds, InitReaps, RunnerInv, RunnerTypeOK
  <2>9. ASSUME NEW c \in Call, LeaderEnds(c) PROVE Abstract!CallNext(Call)
    BY <2>9, LeaderEndsImplements
  <2>10. ASSUME NEW p \in Pid, StrangerStarts(p) \/ StrangerEnds(p)
         PROVE  UNCHANGED (Abstract!callVars)
    BY <2>10, Unseen DEF StrangerStarts, StrangerEnds
  <2>11. CASE Crash
    BY <2>11, CrashImplements
  <2>12. CASE UNCHANGED runnerVars
    BY <2>12, Unseen DEF runnerVars
  <2>13. QED
    BY <2>1, <2>2, <2>3, <2>4, <2>5, <2>6, <2>7, <2>8, <2>9, <2>10, <2>11, <2>12
       DEF RunnerNext, MainStep, Machine
<1>3. QED
  BY <1>1, <1>2, RunnerInvariant, PTL DEF RunnerSpec, ScriptCalls
=============================================================================
