---------------------------- MODULE ScriptRunner ----------------------------
(***************************************************************************)
(* run_script of handlers/script.rs at the level of its threads: the main  *)
(* thread that waits on a channel with a timeout, the waiter thread that   *)
(* blocks in wait(), the shell they share and the process group it leads.  *)
(* Script.tla takes a call in two steps, spawn and return; this module is  *)
(* shown to implement it.                                                  *)
(*                                                                         *)
(* A pid names a process and, through setsid, a process group.  Its number *)
(* is in use while the leader is unreaped or the group has members, and    *)
(* after that the kernel may give it to any other process of the machine.  *)
(***************************************************************************)
EXTENDS Naturals, Sequences

CONSTANTS
    Pid,            \* process numbers of the machine
    NoPid,          \* before the spawn
    MaxCalls,       \* bound: calls of run_script
    MaxMembers      \* bound: descendants a script has at a time

ASSUME RunnerBounds == MaxCalls \in Nat /\ MaxMembers \in Nat /\ NoPid \notin Pid

VARIABLES
    main,       \* what the thread that called run_script does
    current,    \* the number of the last call, 0 before the first
    pid,        \* child_pid of every call
    leader,     \* the shell of every call
    members,    \* descendants alive in its process group
    waiter,     \* the waiter thread of every call
    channel,    \* what the waiter has sent and main has not received
    ret,        \* how every call ended
    strangers,  \* pids that lead groups of other programs
    done        \* calls whose script did its work

Call == 1 .. MaxCalls

threadVars == <<main, waiter, channel, ret>>
childVars  == <<leader, members, done>>
runnerVars == <<threadVars, current, pid, childVars, strangers>>

RunnerTypeOK ==
    /\ main \in {"idle", "waiting", "killing", "joining"}
    /\ current \in 0 .. MaxCalls
    /\ pid \in [Call -> Pid \cup {NoPid}]
    /\ leader \in [Call -> {"none", "running", "zombie", "reaped"}]
    /\ members \in [Call -> 0 .. MaxMembers]
    /\ waiter \in [Call -> {"none", "waiting", "sending", "gone"}]
    /\ channel \in [Call -> {<<>>, <<"exited">>}]
    /\ ret \in [Call -> {"none", "ok", "timeout", "failed", "crashed"}]
    /\ strangers \subseteq Pid
    /\ done \subseteq Call

RunnerInit ==
    /\ main = "idle"
    /\ current = 0
    /\ pid = [c \in Call |-> NoPid]
    /\ leader = [c \in Call |-> "none"]
    /\ members = [c \in Call |-> 0]
    /\ waiter = [c \in Call |-> "none"]
    /\ channel = [c \in Call |-> <<>>]
    /\ ret = [c \in Call |-> "none"]
    /\ strangers = {}
    /\ done = {}

\* The group of call c still has its number.
Holds(c) == leader[c] \in {"running", "zombie"} \/ members[c] > 0

Free(p) == p \notin strangers /\ \A c \in Call : Holds(c) => pid[c] # p

-----------------------------------------------------------------------------
(* The main thread. *)

\* cmd.spawn() returns once the child has called setsid and exec; the waiter
\* thread takes the child.
Spawn(p) ==
    /\ main = "idle" /\ current < MaxCalls /\ Free(p)
    /\ current' = current + 1
    /\ main' = "waiting"
    /\ pid' = [pid EXCEPT ![current + 1] = p]
    /\ leader' = [leader EXCEPT ![current + 1] = "running"]
    /\ waiter' = [waiter EXCEPT ![current + 1] = "waiting"]
    /\ UNCHANGED <<members, channel, ret, strangers, done>>

\* No process was made: `?` on spawn.
SpawnFails ==
    /\ main = "idle" /\ current < MaxCalls
    /\ current' = current + 1
    /\ ret' = [ret EXCEPT ![current + 1] = "failed"]
    /\ UNCHANGED <<main, pid, childVars, waiter, channel, strangers>>

Return(r) ==
    /\ main' = "idle"
    /\ ret' = [ret EXCEPT ![current] = r]
    /\ channel' = [channel EXCEPT ![current] = <<>>]

\* recv_timeout returns the message: whatever the exit status, Ok.
Receive ==
    /\ main = "waiting"
    /\ channel[current] # <<>>
    /\ Return("ok")
    /\ UNCHANGED <<current, pid, childVars, waiter, strangers>>

\* The end of the wait is taken for the end of the script.
SlipTimeout ==
    /\ main = "waiting"
    /\ channel[current] = <<>>
    /\ Return("ok")
    /\ UNCHANGED <<current, pid, childVars, waiter, strangers>>

\* recv_timeout finds the channel empty when the time is up.
Timeout ==
    /\ main = "waiting"
    /\ channel[current] = <<>>
    /\ main' = "killing"
    /\ UNCHANGED <<current, pid, childVars, waiter, channel, ret, strangers>>

\* The effect of a script that ends: its work is done, or not.
Worked(c) == done' \in {done, done \cup {c}}

\* What SIGKILL to the group numbered p does to the groups of the calls.
KillGroup(p) ==
    LET struck == {c \in Call : Holds(c) /\ pid[c] = p}
    IN  /\ leader' = [c \in Call |->
              IF c \in struck /\ leader[c] = "running" THEN "zombie" ELSE leader[c]]
        /\ members' = [c \in Call |-> IF c \in struck THEN 0 ELSE members[c]]
        /\ IF leader[current] = "running" THEN Worked(current) ELSE UNCHANGED done

\* The leader alone is killed.
SlipKill ==
    /\ main = "killing"
    /\ leader' = [leader EXCEPT ![current] = IF @ = "running" THEN "zombie" ELSE @]
    /\ IF leader[current] = "running" THEN Worked(current) ELSE UNCHANGED done
    /\ main' = "joining"
    /\ UNCHANGED <<current, pid, members, waiter, channel, ret, strangers>>

\* The timeout gives up without a kill.
SlipNoKill ==
    /\ main = "killing"
    /\ main' = "joining"
    /\ UNCHANGED <<current, pid, childVars, waiter, channel, ret, strangers>>

\* kill(-child_pid, SIGKILL); an error, when no group has the number, is ignored.
Kill ==
    /\ main = "killing"
    /\ KillGroup(pid[current])
    /\ strangers' = strangers \ {pid[current]}
    /\ main' = "joining"
    /\ UNCHANGED <<current, pid, waiter, channel, ret>>

\* Does not wait for the waiter thread.
SlipJoin ==
    /\ main = "joining"
    /\ Return("timeout")
    /\ UNCHANGED <<current, pid, childVars, waiter, strangers>>

\* rx.recv(), then the error that says the script was killed.
Join ==
    /\ main = "joining"
    /\ channel[current] # <<>>
    /\ Return("timeout")
    /\ UNCHANGED <<current, pid, childVars, waiter, strangers>>

MainStep == Receive \/ Timeout \/ Kill \/ Join

-----------------------------------------------------------------------------
(* The waiter thread of call c. *)

\* child.wait() returns and the process is reaped.
Reap(c) ==
    /\ waiter[c] = "waiting"
    /\ leader[c] = "zombie"
    /\ leader' = [leader EXCEPT ![c] = "reaped"]
    /\ waiter' = [waiter EXCEPT ![c] = "sending"]
    /\ UNCHANGED <<main, current, pid, members, channel, ret, strangers, done>>

\* tx.send, and the thread ends.
Send(c) ==
    /\ waiter[c] = "sending"
    /\ channel' = [channel EXCEPT ![c] = Append(@, "exited")]
    /\ waiter' = [waiter EXCEPT ![c] = "gone"]
    /\ UNCHANGED <<main, current, pid, childVars, ret, strangers>>

WaiterStep(c) == Reap(c) \/ Send(c)

-----------------------------------------------------------------------------
(* The processes of the machine. *)

\* A script starts a process, which stays in its group.
Fork(c) ==
    /\ leader[c] = "running" \/ members[c] > 0
    /\ members[c] < MaxMembers
    /\ members' = [members EXCEPT ![c] = @ + 1]
    /\ UNCHANGED <<threadVars, current, pid, leader, strangers, done>>

MemberEnds(c) ==
    /\ members[c] > 0
    /\ members' = [members EXCEPT ![c] = @ - 1]
    /\ UNCHANGED <<threadVars, current, pid, leader, strangers, done>>

LeaderEnds(c) ==
    /\ leader[c] = "running"
    /\ leader' = [leader EXCEPT ![c] = "zombie"]
    /\ Worked(c)
    /\ UNCHANGED <<threadVars, current, pid, members, strangers>>

\* A shell whose engine died is reaped by init.
InitReaps(c) ==
    /\ ret[c] = "crashed" /\ leader[c] = "zombie"
    /\ leader' = [leader EXCEPT ![c] = "reaped"]
    /\ UNCHANGED <<threadVars, current, pid, members, strangers, done>>

\* Another program takes a free number, or gives one back.
StrangerStarts(p) ==
    /\ Free(p)
    /\ strangers' = strangers \cup {p}
    /\ UNCHANGED <<threadVars, current, pid, childVars>>

StrangerEnds(p) ==
    /\ p \in strangers
    /\ strangers' = strangers \ {p}
    /\ UNCHANGED <<threadVars, current, pid, childVars>>

\* The engine process dies, with both its threads; the script lives on.
Crash ==
    /\ main # "idle"
    /\ Return("crashed")
    /\ waiter' = [waiter EXCEPT ![current] = "gone"]
    /\ UNCHANGED <<current, pid, childVars, strangers>>

Machine ==
    \/ \E c \in Call : Fork(c) \/ MemberEnds(c) \/ LeaderEnds(c) \/ InitReaps(c)
    \/ \E p \in Pid : StrangerStarts(p) \/ StrangerEnds(p)

RunnerNext ==
    \/ \E p \in Pid : Spawn(p)
    \/ SpawnFails
    \/ MainStep
    \/ \E c \in Call : WaiterStep(c)
    \/ Machine
    \/ Crash

RunnerSpec == RunnerInit /\ [][RunnerNext]_runnerVars

\* Both threads are scheduled and the clock runs; a script need not ever end.
FairRunnerSpec ==
    /\ RunnerSpec
    /\ WF_runnerVars(MainStep)
    /\ \A c \in Call : WF_runnerVars(WaiterStep(c))

-----------------------------------------------------------------------------
(* Properties *)

\* CRITICAL #1: a call that timed out leaves nothing of its process group,
\* whether the script ended by itself at the last moment, had forked, or had
\* left its children behind ("killing the process group").
TimeoutClears ==
    \A c \in Call : ret[c] = "timeout" => leader[c] # "running" /\ members[c] = 0

\* "Reap the child to avoid a zombie": whichever thread comes first, a shell that
\* is not reaped and a waiter thread belong to the call in progress, or the shell
\* lost its engine.
NothingUnreaped ==
    \A c \in Call :
        leader[c] \in {"running", "zombie"} \/ waiter[c] \in {"waiting", "sending"} =>
            (main # "idle" /\ c = current) \/ ret[c] = "crashed"

\* Why they hold, in parts: the waiter of a call lives no longer than the call and
\* sends only what it has reaped; nothing is left to kill when main joins; a number
\* in use names one group, and main's own is never taken over by another call.
CallInHand ==
    main # "idle" => current # 0 /\ ret[current] = "none" /\ leader[current] # "none"

NotYetCalled ==
    \A c \in Call : c > current =>
        leader[c] = "none" /\ members[c] = 0 /\ waiter[c] = "none" /\ ret[c] = "none"

WaiterKeepsOrder ==
    \A c \in Call :
        /\ waiter[c] \in {"waiting", "sending"} \/ channel[c] # <<>> => main # "idle" /\ c = current
        /\ waiter[c] = "waiting" => leader[c] \in {"running", "zombie"}
        /\ waiter[c] = "sending" => leader[c] = "reaped" /\ channel[c] = <<>>
        /\ channel[c] # <<>> => leader[c] = "reaped" /\ waiter[c] = "gone"

NothingLeftToKill ==
    main = "joining" => leader[current] # "running" /\ members[current] = 0

OneGroupPerNumber ==
    \A c \in Call :
        /\ Holds(c) => pid[c] \notin strangers
        /\ \A d \in Call : c # d /\ Holds(c) =>
              pid[c] # pid[d] \/ ~(Holds(d) \/ (main # "idle" /\ d = current))

RunnerInv ==
    /\ RunnerTypeOK /\ CallInHand /\ NotYetCalled /\ WaiterKeepsOrder
    /\ NothingLeftToKill /\ OneGroupPerNumber /\ TimeoutClears /\ NothingUnreaped

\* CRITICAL #1: a script that hangs does not hang the engine.  The call returns
\* although neither the script nor its children ever end by themselves.
CallReturns == main # "idle" ~> main = "idle"

\* The call as Script.tla takes it: the timeout, the kill, the reaping and the
\* channel are one step there.
Shell(c) == [script |-> c, way |-> "run",
             owner |-> IF ret[c] = "crashed" THEN "nobody" ELSE "engine"]
Shells   == {Shell(c) : c \in {d \in Call : leader[d] = "running"}}
CallStep == [step |-> IF main \in {"waiting", "killing"} THEN "spawned" ELSE "start"]

Abstract == INSTANCE Script WITH running <- Shells, call <- CallStep

ScriptCalls == Abstract!CallInit /\ [][Abstract!CallNext(Call)]_(Abstract!callVars)
=============================================================================
