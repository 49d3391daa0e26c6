------------------------------- MODULE Supervisor -------------------------------
(***************************************************************************)
(* The supervisor of the gateway (src/docker/90-triton-chat-gateway.sh)    *)
(* and the operator's command `triton-gateway restart`                     *)
(* (src/docker/triton-gateway).                                            *)
(*                                                                         *)
(* They share a directory: a lock the supervisor holds for life, a state   *)
(* file it replaces atomically, a request file, and a control lock taken   *)
(* around every use of the request file.  The supervisor starts one        *)
(* gateway process after another, its generations; gateways die and hang,  *)
(* Triton may stop, the supervisor may be told to stop or be killed, and   *)
(* the hook may be run again.                                              *)
(*                                                                         *)
(* What a supervisor does under the control lock is one step.  Health      *)
(* probes have any result a living process allows.  A process that starts  *)
(* later never passes for an earlier one (the files name start times).     *)
(***************************************************************************)
EXTENDS Integers, FiniteSets

CONSTANTS
  Commands,         \* runs of `triton-gateway restart`
  Threshold,        \* GATEWAY_HEALTH_FAILURE_THRESHOLD
  MaxSupervisors,   \* bound: supervisors, one after another
  MaxFaults         \* bound: gateways that die, or are given up as unhealthy

ASSUME SupervisorAssumption ==
  /\ IsFiniteSet(Commands) /\ 0 \notin Commands
  /\ Threshold \in Nat \ {0}
  /\ MaxSupervisors \in Nat /\ MaxFaults \in Nat

VARIABLES
  sup,        \* the supervisor that holds supervisor.lock, 0 if none
  last,       \* the last supervisor there was
  pc,         \* where it is in its loop
  triton,     \* triton_seen, triton_failures
  health,     \* gateway_seen, gateway_failures
  wanted,     \* request_base while request_id is set, else 0
  state,      \* the state file
  request,    \* the request file, as a set of at most one record
  control,    \* who holds control.lock, 0 if nobody
  alive,      \* living gateway processes
  proved,     \* the last generation of this supervisor published as running
  cmd,        \* the commands
  faults

watch == <<triton, health>>
files == <<state, request>>
vars == <<sup, last, pc, watch, wanted, files, control, alive, proved, cmd, faults>>

Supervisors == 1..MaxSupervisors
Generations == 1..(1 + Cardinality(Commands) + MaxFaults)
Processes == Supervisors \X Generations

Requests == [supervisor : Supervisors, base : Generations, before : Generations \cup {0}]

TypeOK ==
  /\ sup \in 0..last /\ last \in 0..MaxSupervisors /\ (sup = 0 <=> pc = "none")
  /\ pc \in {"none", "boot", "loop", "check", "decide", "probe", "recheck", "stop",
             "start", "exiting"}
  /\ triton.seen \in BOOLEAN /\ health.seen \in BOOLEAN
  /\ {triton.failures, health.failures} \subseteq 0..(Threshold - 1)
  /\ state.generation \in Generations \cup {0} /\ state.gateway \in {0, state.generation}
  /\ state.phase \in {"starting", "running", "restarting", "stopping", "stopped"}
  /\ request \subseteq Requests /\ Cardinality(request) <= 1
  /\ wanted # 0 => \E q \in request : q.supervisor = sup /\ q.base = wanted
  /\ \A c \in Commands : control = c <=> cmd[c].at = "locked"
  /\ alive \subseteq Processes /\ proved \in 0..state.generation
  /\ \A c \in Commands : cmd[c].before \in 0..cmd[c].base

Idle == [at |-> "new", supervisor |-> 0, base |-> 0, generation |-> 0, before |-> 0]

Fresh == [seen |-> FALSE, failures |-> 0]

Init ==
  /\ sup = 0 /\ last = 0 /\ pc = "none"
  /\ triton = Fresh /\ health = Fresh /\ wanted = 0
  /\ state = [supervisor |-> 0, generation |-> 0, gateway |-> 0, phase |-> "stopped"]
  /\ request = {} /\ control = 0
  /\ alive = {} /\ proved = 0
  /\ cmd = [c \in Commands |-> Idle]
  /\ faults = 0
-----------------------------------------------------------------------------
(* The supervisor's own view: it has published what it knows, except that   *)
(* gateway_pid is empty after a stop.                                       *)
Generation == IF state.supervisor = sup THEN state.generation ELSE 0
Child == IF state.supervisor = sup /\ pc # "start" THEN state.gateway ELSE 0
ChildAlive == <<sup, Child>> \in alive

Publish(generation, gateway, phase) ==
  state' = [supervisor |-> sup, generation |-> generation, gateway |-> gateway, phase |-> phase]

To(next) == pc' = next /\ UNCHANGED <<sup, last>>

(* The hook starts a supervisor unless one holds the lock.                  *)
HookRuns ==
  /\ sup = 0 /\ last < MaxSupervisors
  /\ sup' = last + 1 /\ last' = last + 1 /\ pc' = "boot"
  /\ UNCHANGED <<watch, wanted, files, control, alive, proved, cmd, faults>>

Boots ==
  /\ pc = "boot" /\ control = 0
  /\ request' = {}
  /\ To("start")
  /\ UNCHANGED <<watch, wanted, state, control, alive, proved, cmd, faults>>

StartGateway ==
  /\ pc = "start"
  /\ alive' = alive \cup {<<sup, Generation + 1>>}
  /\ Publish(Generation + 1, Generation + 1, "starting")
  /\ health' = Fresh
  /\ To("loop")
  /\ UNCHANGED <<triton, wanted, request, control, proved, cmd, faults>>

(* The probe of Triton at the top of the loop.                              *)
TritonLive ==
  /\ pc = "loop"
  /\ triton' = [seen |-> TRUE, failures |-> 0]
  /\ To("check")
  /\ UNCHANGED <<health, wanted, files, control, alive, proved, cmd, faults>>

TritonNotYet ==
  /\ pc = "loop" /\ ~triton.seen
  /\ To("check")
  /\ UNCHANGED <<watch, wanted, files, control, alive, proved, cmd, faults>>

TritonFails ==
  /\ pc = "loop" /\ triton.seen /\ triton.failures + 1 < Threshold
  /\ triton' = [triton EXCEPT !.failures = @ + 1]
  /\ To("loop")
  /\ UNCHANGED <<health, wanted, files, control, alive, proved, cmd, faults>>
-----------------------------------------------------------------------------
(* check_request.  Variant: a request for the present generation is taken   *)
(* for an old one.                                                          *)
AcceptedStrictly == {q \in request : q.supervisor = sup /\ q.base < Generation}

Accepted == {q \in request : q.supervisor = sup /\ q.base <= Generation}

Wanted == IF Accepted = {} THEN wanted ELSE (CHOOSE q \in Accepted : TRUE).base

Served == Wanted # 0 /\ state.phase = "running" /\ Generation > Wanted

CheckRequest ==
  /\ control = 0
  /\ wanted' = IF Served THEN 0 ELSE Wanted
  /\ request' = IF Served THEN {} ELSE Accepted

Checks ==
  /\ \/ pc = "check" /\ To("decide")
     \/ pc = "recheck" /\ To("loop")
  /\ CheckRequest
  /\ UNCHANGED <<watch, state, control, alive, proved, cmd, faults>>
-----------------------------------------------------------------------------
Restarts ==
  /\ Publish(Generation, Child, "restarting")
  /\ To("stop")
  /\ UNCHANGED <<triton, wanted, request, control, alive, proved, cmd>>

RestartRequested ==
  /\ pc = "decide" /\ wanted # 0 /\ Generation <= wanted
  /\ Restarts /\ UNCHANGED <<health, faults>>

RestartDead ==
  /\ pc = "decide" /\ ~(wanted # 0 /\ Generation <= wanted) /\ ~ChildAlive
  /\ Restarts /\ UNCHANGED <<health, faults>>

NoReason ==
  /\ pc = "decide" /\ ~(wanted # 0 /\ Generation <= wanted) /\ ChildAlive
  /\ To("probe")
  /\ UNCHANGED <<watch, wanted, files, control, alive, proved, cmd, faults>>

(* The probe of the gateway: whoever listens on the port may answer it.     *)
Healthy ==
  /\ pc = "probe" /\ alive # {}
  /\ health' = [seen |-> TRUE, failures |-> 0]
  /\ Publish(Generation, Child, "running")
  /\ proved' = Child
  /\ To("recheck")
  /\ UNCHANGED <<triton, wanted, request, control, alive, cmd, faults>>

(* A failure counts when the gateway was healthy once, or its time to start *)
(* is over.                                                                 *)
Unhealthy ==
  /\ pc = "probe"
  /\ \/ ~health.seen /\ UNCHANGED health
     \/ health.failures + 1 < Threshold /\ health' = [health EXCEPT !.failures = @ + 1]
  /\ To("loop")
  /\ UNCHANGED <<triton, wanted, files, control, alive, proved, cmd, faults>>

RestartUnhealthy ==
  /\ pc = "probe" /\ health.failures + 1 = Threshold
  /\ ChildAlive => faults < MaxFaults
  /\ faults' = IF ChildAlive THEN faults + 1 ELSE faults
  /\ Restarts /\ UNCHANGED health

(* stop_gateway: SIGTERM, a grace period, SIGKILL, and wait.  The delay and  *)
(* a last probe of Triton follow: if that fails, Exits.                     *)
StopGateway ==
  /\ pc = "stop"
  /\ alive' = alive \ {<<sup, Child>>}
  /\ To("start")
  /\ UNCHANGED <<watch, wanted, files, control, proved, cmd, faults>>

-----------------------------------------------------------------------------
(* The variables of a shell that only cleans up, or is gone, matter no more. *)
Forgets == triton' = Fresh /\ health' = Fresh /\ wanted' = 0 /\ proved' = 0

(* The EXIT trap.  The supervisor exits when Triton, once seen, fails the   *)
(* threshold of probes or the one before a start; on SIGTERM or SIGINT at   *)
(* any time; and when a command of the script fails.                        *)
Exits ==
  /\ pc \notin {"none", "exiting"}
  /\ Publish(Generation, Child, "stopping")
  /\ To("exiting") /\ Forgets
  /\ UNCHANGED <<request, control, alive, cmd, faults>>

(* The signal arrives while start_gateway forks: bash runs the trap before  *)
(* the next command, which would have stored gateway_pid.                   *)
ExitsWhileForking ==
  /\ pc = "start"
  /\ alive' = alive \cup {<<sup, Generation + 1>>}
  /\ Publish(Generation, 0, "stopping")
  /\ To("exiting") /\ Forgets
  /\ UNCHANGED <<request, control, cmd, faults>>

Over == sup' = 0 /\ pc' = "none" /\ last' = last /\ Forgets

Exited ==
  /\ pc = "exiting"
  /\ alive' = alive \ {<<sup, Child>>}
  /\ Publish(Generation, 0, "stopped")
  /\ Over
  /\ UNCHANGED <<request, control, cmd, faults>>

(* SIGKILL: the locks are free, the files and the gateway stay.             *)
Killed ==
  /\ sup # 0
  /\ Over
  /\ UNCHANGED <<files, control, alive, cmd, faults>>

GatewayDies(p) ==
  /\ p \in alive /\ faults < MaxFaults
  /\ faults' = faults + 1
  /\ alive' = alive \ {p}
  /\ UNCHANGED <<sup, last, pc, watch, wanted, files, control, proved, cmd>>
-----------------------------------------------------------------------------
(* triton-gateway restart.  read_state fails unless the state file is that  *)
(* of the supervisor which holds the lock, and that is not stopping.        *)
Readable == sup # 0 /\ state.supervisor = sup /\ state.generation > 0
              /\ state.phase \notin {"stopping", "stopped"}

Current == <<state.supervisor, state.gateway>>

SupervisorStays == UNCHANGED <<sup, last, pc, watch, wanted, state, alive, proved, faults>>

CommandBegins(c) ==
  /\ cmd[c].at = "new"
  /\ Readable
  /\ cmd' = [cmd EXCEPT ![c].at = "locking"]
  /\ SupervisorStays /\ UNCHANGED <<request, control>>

(* The generation that must be exceeded: a replacement that has not passed  *)
(* its first probe will do.  Variant: it does not.                          *)
BaseWithoutJoin == state.generation

Base == IF state.phase = "starting" /\ state.generation > 1
          THEN state.generation - 1 ELSE state.generation

CommandLocks(c) ==
  /\ cmd[c].at = "locking" /\ control = 0
  /\ Readable
  /\ control' = c
  /\ cmd' = [cmd EXCEPT ![c] = [at |-> "locked", supervisor |-> sup, base |-> Base,
                                generation |-> state.generation, before |-> proved]]
  /\ SupervisorStays /\ UNCHANGED request

(* It joins a request that is there, or writes its own.                     *)
CommandSubmits(c) ==
  LET joined == {q \in request : q.supervisor = cmd[c].supervisor
                                   /\ q.base <= cmd[c].generation}
      own == [supervisor |-> cmd[c].supervisor, base |-> cmd[c].base, before |-> cmd[c].before]
  IN
  /\ cmd[c].at = "locked"
  /\ request' = IF joined # {} THEN request ELSE {own}
  /\ \E q \in request' :
       cmd' = [cmd EXCEPT ![c] = [at |-> "waiting", supervisor |-> q.supervisor, base |-> q.base,
                                  generation |-> 0, before |-> q.before]]
  /\ control' = 0
  /\ SupervisorStays

(* Variant: the generation it started from will do.                         *)
ReplacedOrSame(c) ==
  /\ Readable /\ state.supervisor = cmd[c].supervisor
  /\ state.generation >= cmd[c].base
  /\ state.phase = "running" /\ Current \in alive

Replaced(c) ==
  /\ Readable /\ state.supervisor = cmd[c].supervisor
  /\ state.generation > cmd[c].base
  /\ state.phase = "running" /\ Current \in alive

CommandPolls(c) ==
  /\ cmd[c].at = "waiting" /\ Replaced(c)
  /\ cmd' = [cmd EXCEPT ![c].at = "probing", ![c].generation = state.generation]
  /\ SupervisorStays /\ UNCHANGED <<request, control>>

(* The gateway has answered the command's own probe, and the state is read  *)
(* again.                                                                   *)
CommandConfirms(c) ==
  /\ cmd[c].at = "probing" /\ Readable
  /\ \/ /\ Current = <<cmd[c].supervisor, cmd[c].generation>>
        /\ state.phase = "running" /\ Current \in alive
        /\ cmd' = [cmd EXCEPT ![c].at = "restarted"]
     \/ cmd' = [cmd EXCEPT ![c].at = "waiting", ![c].generation = 0]
  /\ SupervisorStays /\ UNCHANGED <<request, control>>

(* Its time is over, the supervisor is gone or another one, Triton is not   *)
(* live, or it is killed.  A request that it wrote stays.                   *)
CommandFails(c) ==
  /\ cmd[c].at \notin {"restarted", "failed"}
  /\ cmd' = [cmd EXCEPT ![c] = [Idle EXCEPT !.at = "failed"]]
  /\ control' = IF control = c THEN 0 ELSE control
  /\ SupervisorStays /\ UNCHANGED request
-----------------------------------------------------------------------------
Loop ==
  \/ Boots \/ StartGateway \/ TritonLive \/ TritonNotYet \/ TritonFails \/ Checks
  \/ RestartRequested \/ RestartDead \/ NoReason \/ Healthy \/ Unhealthy \/ RestartUnhealthy
  \/ StopGateway \/ Exited

Command(c) ==
  \/ CommandBegins(c) \/ CommandLocks(c) \/ CommandSubmits(c) \/ CommandPolls(c)
  \/ CommandConfirms(c) \/ CommandFails(c)

Next ==
  \/ HookRuns \/ Loop \/ Exits \/ ExitsWhileForking \/ Killed
  \/ \E p \in Processes : GatewayDies(p)
  \/ \E c \in Commands : Command(c)

Spec == Init /\ [][Next]_vars

(* The supervisor keeps running, and a command that has the control lock    *)
(* goes on; each takes it once, so flock gets it in the end.                *)
FairSpec == Spec /\ WF_vars(Loop) /\ WF_vars(\E c \in Commands : CommandSubmits(c))
-----------------------------------------------------------------------------
(* A command that reports a restart reports a process that was not yet in   *)
(* service when the request it made, or joined, was written: automatic      *)
(* restarts, crashes of a replacement, other commands and successors of the *)
(* supervisor never make it take the old process for the new one.           *)
ReportedIsFresh ==
  \A c \in Commands : cmd[c].at = "restarted" =>
    cmd[c].generation > cmd[c].before

(* An operator's request takes down only a process that was in service when *)
(* it was written, or a supervisor's first: never a replacement for which   *)
(* the operator would have waited, and none for a request already served.   *)
NoNeedlessKill ==
  [][pc = "decide" /\ pc' = "stop" /\ ChildAlive =>
       \E q \in request : q.supervisor = sup /\ (Child <= q.before \/ Child = 1)]_vars

(* A request that was written is served: its process is replaced, unless    *)
(* the supervisor itself ends, whatever became of the command.              *)
RestartServed ==
  \A g \in Generations :
    (\E q \in request : q.supervisor = sup /\ q.base = g) ~> (sup = 0 \/ Generation > g)

(* A supervisor that has stopped leaves no gateway process behind           *)
(* ("supervisor left its gateway process running").                         *)
NoGatewayLeft ==
  state.phase = "stopped" => \A p \in alive : p[1] # state.supervisor
=============================================================================
