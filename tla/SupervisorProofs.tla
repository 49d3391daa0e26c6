---------------------------- MODULE SupervisorProofs ----------------------------
(***************************************************************************)
(* Proofs about Supervisor, for any commands, threshold, supervisors and   *)
(* faults.                                                                 *)
(*                                                                         *)
(* The argument: a command writes down, under the control lock, a          *)
(* generation to exceed that is no older than the last one in service, and *)
(* no newer than the present one.  While the supervisor watches a gateway  *)
(* its state file tells which one, and whether it has been in service.  So *)
(* a request that the present generation does not exceed was written when  *)
(* that was in service, or was the first; and a request that the           *)
(* supervisor wants served is still in the file.                           *)
(***************************************************************************)
EXTENDS Supervisor, TLAPS

Places == {"none", "boot", "loop", "check", "decide", "probe", "recheck", "stop", "start",
           "exiting"}
Phases == {"starting", "running", "restarting", "stopping", "stopped"}
Stations == {"new", "locking", "locked", "waiting", "probing", "restarted", "failed"}

StateType == [supervisor : Nat, generation : Nat, gateway : Nat, phase : Phases]
RequestType == [supervisor : Nat, base : Nat, before : Nat]
CommandType == [at : Stations, supervisor : Nat, base : Nat, generation : Nat, before : Nat]

Typed ==
  /\ sup \in Nat /\ last \in Nat /\ sup <= last
  /\ pc \in Places /\ (sup = 0 <=> pc = "none")
  /\ state \in StateType
  /\ wanted \in Nat /\ proved \in Nat
  /\ request \subseteq RequestType
  /\ cmd \in [Commands -> CommandType]

(* The supervisor watches a gateway, and says so in the state file.         *)
Watching == pc \in {"loop", "check", "decide", "probe", "recheck"}

Watched ==
  /\ state.supervisor <= last /\ state.gateway <= state.generation
  /\ Watching =>
       /\ state.supervisor = sup /\ sup # 0
       /\ state.gateway = state.generation /\ state.generation # 0
       /\ state.phase = "starting" \/ (state.phase = "running" /\ proved = state.generation)

(* What was in service is of this supervisor, and not what it starts.       *)
InService ==
  /\ pc \in {"none", "boot"} => proved = 0 /\ wanted = 0
  /\ state.supervisor # sup => proved = 0
  /\ proved <= state.generation
  /\ state.phase = "starting" => proved < state.generation

(* A request, or what a command is about to write as one.                   *)
Sound(r) ==
  /\ r.supervisor <= last /\ r.before <= r.base
  /\ sup # 0 /\ r.supervisor = sup =>
       /\ state.supervisor = sup /\ r.base <= state.generation
       /\ Watching => \/ r.base < state.generation \/ state.generation <= r.before
                      \/ state.generation = 1

AllSound ==
  /\ \A q \in request : Sound(q)
  /\ \A c \in Commands : cmd[c].at = "locked" => Sound(cmd[c])

(* Who has the control lock knows every request of its supervisor.          *)
Locked ==
  \A c \in Commands : cmd[c].at = "locked" =>
    /\ control = c
    /\ wanted # 0 => cmd[c].supervisor = sup
    /\ \A q \in request :
         sup # 0 /\ q.supervisor = sup /\ cmd[c].supervisor = sup => q.base <= cmd[c].generation

(* What the supervisor wants is what a request in the file asks for.        *)
InFile == wanted # 0 => \E q \in request : q.supervisor = sup /\ q.base = wanted

Exceeded ==
  \A c \in Commands :
    /\ cmd[c].at \in {"locked", "waiting", "probing", "restarted"} => cmd[c].before <= cmd[c].base
    /\ cmd[c].at \in {"probing", "restarted"} => cmd[c].base < cmd[c].generation

IInv == Typed /\ Watched /\ InService /\ AllSound /\ Locked /\ InFile /\ Exceeded
-----------------------------------------------------------------------------
LEMMA Initial == Init => IInv
<1> SUFFICES ASSUME Init PROVE IInv
    OBVIOUS
<1>1. Typed
    BY DEF Init, Typed, Places, StateType, Phases, RequestType, CommandType, Stations, Idle
<1>2. \A c \in Commands : cmd[c].at = "new"
    BY DEF Init, Idle
<1>3. Watched /\ InService /\ AllSound /\ Locked /\ InFile /\ Exceeded
    BY <1>2 DEF Init, Watched, Watching, InService, AllSound, Locked, InFile, Exceeded
<1> QED
    BY <1>1, <1>3 DEF IInv

(* The requests and commands, when the supervisor does something else than  *)
(* read them: a supervisor that watches a gateway watches the same as       *)
(* before, a newer one, or its first.                                       *)
LEMMA RecordsKept ==
  ASSUME IInv, UNCHANGED <<request, control, cmd>>, last' \in Nat, last <= last',
         sup' \in Nat, wanted' \in {0, wanted}, state' \in StateType,
         sup' # 0 => sup' = sup \/ sup' > last,
         wanted' # 0 => sup' = sup,
         sup' = sup /\ state.supervisor = sup =>
           state'.supervisor = sup /\ state.generation <= state'.generation,
         Watching' => \/ state'.generation = 1
                      \/ state.supervisor = sup /\ state.generation < state'.generation
                      \/ Watching /\ state'.generation = state.generation
  PROVE  AllSound' /\ Locked' /\ InFile' /\ Exceeded'
<1>1. ASSUME NEW r \in RequestType \cup CommandType, Sound(r) PROVE Sound(r)'
  <2>1. /\ r.supervisor \in Nat /\ r.base \in Nat /\ r.before \in Nat
        /\ r.supervisor <= last /\ r.before <= r.base
      BY <1>1 DEF RequestType, CommandType, Sound
  <2>2. /\ last \in Nat /\ sup \in Nat /\ state.generation \in Nat /\ state'.generation \in Nat
        /\ state.supervisor \in Nat
      BY DEF IInv, Typed, StateType
  <2>3. ASSUME sup' # 0, r.supervisor = sup'
        PROVE  /\ state'.supervisor = sup' /\ r.base <= state'.generation
               /\ Watching' => \/ r.base < state'.generation \/ state'.generation <= r.before
                               \/ state'.generation = 1
    <3>1. sup' = sup
        BY <2>1, <2>2, <2>3
    <3>2. /\ state.supervisor = sup /\ r.base <= state.generation
          /\ Watching => \/ r.base < state.generation \/ state.generation <= r.before
                         \/ state.generation = 1
        BY <1>1, <2>3, <3>1 DEF Sound
    <3> QED
        BY <2>1, <2>2, <3>1, <3>2
  <2> QED
      BY <2>1, <2>2, <2>3 DEF Sound
<1>2. request \subseteq RequestType /\ \A c \in Commands : cmd[c] \in CommandType
    BY DEF IInv, Typed
<1>3. AllSound'
    BY <1>1, <1>2 DEF IInv, AllSound
<1>4. Locked'
  <2> SUFFICES ASSUME NEW c \in Commands, cmd[c].at = "locked"
               PROVE  /\ control = c
                      /\ wanted' # 0 => cmd[c].supervisor = sup'
                      /\ \A q \in request :
                           sup' # 0 /\ q.supervisor = sup' /\ cmd[c].supervisor = sup'
                             => q.base <= cmd[c].generation
      BY DEF Locked
  <2>1. /\ control = c
        /\ wanted # 0 => cmd[c].supervisor = sup
        /\ \A q \in request : sup # 0 /\ q.supervisor = sup /\ cmd[c].supervisor = sup
                              => q.base <= cmd[c].generation
      BY DEF IInv, Locked
  <2>2. cmd[c].supervisor \in Nat /\ cmd[c].supervisor <= last /\ last \in Nat
      BY <1>2 DEF IInv, AllSound, Sound, CommandType, Typed
  <2> QED
      BY <2>1, <2>2
<1>5. InFile' /\ Exceeded'
    BY DEF IInv, InFile, Exceeded
<1> QED
    BY <1>3, <1>4, <1>5

LEMMA HookRunsKeeps == ASSUME IInv, HookRuns PROVE IInv'
<1>1. /\ sup = 0 /\ sup' = last + 1 /\ last' = last + 1 /\ pc' = "boot" /\ last \in Nat
      /\ UNCHANGED <<wanted, state, request, control, proved, cmd>>
    BY DEF HookRuns, watch, files, IInv, Typed
<1>2. proved = 0 /\ wanted = 0
    BY <1>1 DEF IInv, InService, Typed
<1>3. Typed' /\ Watched' /\ InService'
  <2>1. Typed'
      BY <1>1 DEF IInv, Typed, Places
  <2>2. Watched'
      BY <1>1 DEF IInv, Typed, StateType, Watched, Watching
  <2>3. InService'
      BY <1>1, <1>2 DEF IInv, InService
  <2> QED
      BY <2>1, <2>2, <2>3
<1>4. ~Watching'
    BY <1>1 DEF Watching
<1>5. state' \in StateType /\ sup' > last /\ sup' \in Nat /\ sup' # sup
    BY <1>1 DEF IInv, Typed
<1>6. AllSound' /\ Locked' /\ InFile' /\ Exceeded'
    BY <1>1, <1>2, <1>4, <1>5, RecordsKept
<1> QED
    BY <1>3, <1>6 DEF IInv

(* What the supervisor knows of itself.                                     *)
LEMMA OwnView ==
  ASSUME IInv
  PROVE  /\ Generation \in Nat /\ Child \in Nat /\ Child <= Generation /\ proved <= Generation
         /\ state.supervisor = sup => Generation = state.generation
         /\ Watching => Generation = state.generation /\ Child = state.generation
  BY DEF IInv, Typed, StateType, Watched, Watching, InService, Generation, Child

LEMMA StartGatewayKeeps == ASSUME IInv, StartGateway PROVE IInv'
<1>1. /\ pc = "start" /\ pc' = "loop"
      /\ state' = [supervisor |-> sup, generation |-> Generation + 1, gateway |-> Generation + 1,
                   phase |-> "starting"]
      /\ UNCHANGED <<sup, last, wanted, request, control, proved, cmd>>
    BY DEF StartGateway, Publish, To
<1>2. /\ sup \in Nat /\ last \in Nat /\ sup <= last /\ sup # 0
      /\ Generation \in Nat /\ proved <= Generation /\ proved \in Nat
      /\ state.supervisor = sup => Generation = state.generation
    BY <1>1, OwnView DEF IInv, Typed
<1>3. state' \in StateType
    BY <1>1, <1>2 DEF StateType, Phases
<1>4. Typed' /\ Watched' /\ InService'
  <2>1. Typed'
      BY <1>1, <1>3 DEF IInv, Typed, Places
  <2>2. Watched' /\ InService'
      BY <1>1, <1>2 DEF Watched, Watching, InService
  <2> QED
      BY <2>1, <2>2
<1>5. /\ state'.supervisor = sup
      /\ state.supervisor = sup => state.generation < state'.generation
      /\ state.supervisor # sup => state'.generation = 1
    BY <1>1, <1>2 DEF Generation
<1>6. AllSound' /\ Locked' /\ InFile' /\ Exceeded'
  <2>1. state.supervisor = sup => state.generation <= state'.generation
      BY <1>1, <1>2
  <2> QED
      BY <1>1, <1>2, <1>3, <1>5, <2>1, RecordsKept
<1> QED
    BY <1>4, <1>6 DEF IInv

(* Probes and waits change nothing that the state file is about.            *)
LEMMA WatchesKeeps ==
  ASSUME IInv, TritonLive \/ TritonNotYet \/ TritonFails \/ NoReason \/ Unhealthy
  PROVE  IInv'
<1>1. /\ Watching /\ Watching' /\ pc # "none" /\ pc' \in Places \ {"none", "boot"}
      /\ UNCHANGED <<sup, last, wanted, state, request, control, proved, cmd>>
    BY DEF TritonLive, TritonNotYet, TritonFails, NoReason, Unhealthy, To, files, watch, Watching,
       Places
<1>2. Typed' /\ Watched' /\ InService'
    BY <1>1 DEF IInv, Typed, Watched, InService
<1>3. /\ last \in Nat /\ last <= last /\ sup \in Nat /\ state \in StateType
      /\ state.generation <= state.generation
    BY DEF IInv, Typed, StateType
<1>4. AllSound' /\ Locked' /\ InFile' /\ Exceeded'
    BY <1>1, <1>3, RecordsKept
<1> QED
    BY <1>2, <1>4 DEF IInv

LEMMA HealthyKeeps == ASSUME IInv, Healthy PROVE IInv'
<1>1. /\ Watching /\ Watching' /\ pc' = "recheck" /\ pc # "none" /\ proved' = Child
      /\ state' = [supervisor |-> sup, generation |-> Generation, gateway |-> Child,
                   phase |-> "running"]
      /\ UNCHANGED <<sup, last, wanted, request, control, cmd>>
    BY DEF Healthy, Publish, To, Watching
<1>2. /\ sup \in Nat /\ last \in Nat /\ sup <= last /\ sup # 0
      /\ state.generation \in Nat /\ state.generation # 0 /\ state.supervisor = sup
      /\ Generation = state.generation /\ Child = state.generation
    BY <1>1, OwnView DEF IInv, Typed, Watched, StateType
<1>3. state' \in StateType
    BY <1>1, <1>2 DEF StateType, Phases
<1>4. Typed' /\ Watched' /\ InService'
  <2>1. Typed'
      BY <1>1, <1>2, <1>3 DEF IInv, Typed, Places
  <2>2. Watched' /\ InService'
      BY <1>1, <1>2 DEF Watched, InService
  <2> QED
      BY <2>1, <2>2
<1>5. AllSound' /\ Locked' /\ InFile' /\ Exceeded'
    BY <1>1, <1>2, <1>3, RecordsKept
<1> QED
    BY <1>4, <1>5 DEF IInv

LEMMA RestartsKeeps ==
  ASSUME IInv, RestartRequested \/ RestartDead \/ RestartUnhealthy
  PROVE  IInv'
<1>1. /\ Watching /\ ~Watching' /\ pc' = "stop" /\ pc # "none"
      /\ state' = [supervisor |-> sup, generation |-> Generation, gateway |-> Child,
                   phase |-> "restarting"]
      /\ UNCHANGED <<sup, last, wanted, request, control, proved, cmd>>
    BY DEF RestartRequested, RestartDead, RestartUnhealthy, Restarts, Publish, To, Watching
<1>2. /\ sup \in Nat /\ last \in Nat /\ sup <= last /\ sup # 0
      /\ state.generation \in Nat /\ state.supervisor = sup
      /\ Generation = state.generation /\ Child = state.generation /\ proved <= state.generation
    BY <1>1, OwnView DEF IInv, Typed, Watched, StateType, InService
<1>3. state' \in StateType
    BY <1>1, <1>2 DEF StateType, Phases
<1>4. Typed' /\ Watched' /\ InService'
  <2>1. Typed'
      BY <1>1, <1>3 DEF IInv, Typed, Places
  <2>2. Watched' /\ InService'
      BY <1>1, <1>2 DEF Watched, InService
  <2> QED
      BY <2>1, <2>2
<1>5. AllSound' /\ Locked' /\ InFile' /\ Exceeded'
    BY <1>1, <1>2, <1>3, RecordsKept
<1> QED
    BY <1>4, <1>5 DEF IInv

LEMMA StopGatewayKeeps == ASSUME IInv, StopGateway PROVE IInv'
<1>1. /\ ~Watching' /\ pc' = "start" /\ pc = "stop"
      /\ UNCHANGED <<sup, last, wanted, state, request, control, proved, cmd>>
    BY DEF StopGateway, To, watch, files, Watching
<1>2. Typed' /\ Watched' /\ InService'
    BY <1>1 DEF IInv, Typed, Watched, InService, Places
<1>3. /\ last \in Nat /\ last <= last /\ sup \in Nat /\ state \in StateType
      /\ state.generation <= state.generation
    BY DEF IInv, Typed, StateType
<1>4. AllSound' /\ Locked' /\ InFile' /\ Exceeded'
    BY <1>1, <1>3, RecordsKept
<1> QED
    BY <1>2, <1>4 DEF IInv

(* The supervisor ends: it says so, or is killed, and forgets.              *)
LEMMA EndsKeeps == ASSUME IInv, Exits \/ ExitsWhileForking \/ Exited \/ Killed PROVE IInv'
<1>1. /\ ~Watching' /\ wanted' = 0 /\ proved' = 0 /\ UNCHANGED <<last, request, control, cmd>>
      /\ (pc' = "exiting" /\ sup' = sup /\ pc # "none") \/ (pc' = "none" /\ sup' = 0)
    BY DEF Exits, ExitsWhileForking, Exited, Killed, To, Over, Forgets, files, Watching
<1>2. \/ UNCHANGED state /\ sup' = 0
      \/ /\ pc # "none"
         /\ \E g \in {0, Child}, p \in {"stopping", "stopped"} :
              state' = [supervisor |-> sup, generation |-> Generation, gateway |-> g, phase |-> p]
    BY DEF Exits, ExitsWhileForking, Exited, Killed, Publish, Over, files
<1>3. /\ sup \in Nat /\ last \in Nat /\ sup <= last /\ last <= last
      /\ Generation \in Nat /\ Child \in Nat /\ Child <= Generation
      /\ state \in StateType
      /\ state.supervisor = sup => Generation = state.generation
    BY OwnView DEF IInv, Typed
<1>4. state' \in StateType
    BY <1>2, <1>3 DEF StateType, Phases
<1>5. /\ state'.supervisor <= last /\ state'.gateway <= state'.generation
      /\ state'.phase = "starting" => sup' = 0 /\ UNCHANGED state
      /\ state.supervisor = sup =>
           state'.supervisor = sup /\ state.generation <= state'.generation
    BY <1>2, <1>3 DEF IInv, Watched, StateType
<1>6. Typed' /\ Watched' /\ InService'
  <2>1. Typed'
      BY <1>1, <1>3, <1>4 DEF IInv, Typed, Places
  <2>2. Watched'
      BY <1>1, <1>5 DEF Watched
  <2>3. InService'
      BY <1>1, <1>4, <1>5 DEF IInv, InService, Typed, StateType
  <2> QED
      BY <2>1, <2>2, <2>3
<1>7. AllSound' /\ Locked' /\ InFile' /\ Exceeded'
    BY <1>1, <1>3, <1>4, <1>5, RecordsKept
<1> QED
    BY <1>6, <1>7 DEF IInv

LEMMA GatewayDiesKeeps == ASSUME IInv, NEW p \in Processes, GatewayDies(p) PROVE IInv'
<1>1. UNCHANGED <<sup, last, pc, wanted, state, request, control, proved, cmd>>
    BY DEF GatewayDies, files
<1> QED
    BY <1>1 DEF IInv, Typed, Watched, Watching, InService, AllSound, Sound, Locked, InFile, Exceeded

(* Nobody else is about to write a request.                                 *)
LEMMA NoneLocked ==
  ASSUME IInv
  PROVE  /\ control = 0 => \A c \in Commands : cmd[c].at # "locked"
         /\ \A c, d \in Commands : cmd[c].at = "locked" /\ cmd[d].at = "locked" => c = d
  BY SupervisorAssumption DEF IInv, Locked, SupervisorAssumption

LEMMA BootsKeeps == ASSUME IInv, Boots PROVE IInv'
<1>1. /\ pc = "boot" /\ pc' = "start" /\ control = 0 /\ request' = {}
      /\ UNCHANGED <<sup, last, wanted, state, proved, cmd>>
    BY DEF Boots, To
<1>2. wanted = 0
    BY <1>1 DEF IInv, InService
<1>3. \A c \in Commands : cmd[c].at # "locked"
    BY <1>1, NoneLocked
<1>4. Typed' /\ Watched' /\ InService'
    BY <1>1 DEF IInv, Typed, Watched, Watching, InService, Places
<1>5. AllSound' /\ Locked' /\ InFile' /\ Exceeded'
    BY <1>1, <1>2, <1>3 DEF IInv, AllSound, Locked, InFile, Exceeded
<1> QED
    BY <1>4, <1>5 DEF IInv

(* A supervisor that reads the request file drops no request it wants.      *)
LEMMA ChecksKeeps == ASSUME IInv, Checks PROVE IInv'
<1>1. /\ control = 0 /\ Watching /\ Watching' /\ pc' \in Places \ {"none", "boot"}
      /\ wanted' = (IF Served THEN 0 ELSE Wanted) /\ request' = (IF Served THEN {} ELSE Accepted)
      /\ UNCHANGED <<sup, last, state, proved, cmd>>
    BY DEF Checks, CheckRequest, To, Watching, Places
<1>2. sup # 0 /\ state.supervisor = sup /\ Generation = state.generation /\ pc # "none"
    BY <1>1, OwnView DEF IInv, Watched, Typed
<1>3. \A q \in request : q.supervisor = sup => q \in Accepted
    BY <1>2 DEF IInv, AllSound, Sound, Accepted
<1>4. Accepted \subseteq request /\ \A q \in Accepted : q.supervisor = sup
    BY DEF Accepted
<1>5. Wanted # 0 => \E q \in Accepted : q.base = Wanted
  <2>1. CASE Accepted = {}
      BY <1>3, <2>1 DEF IInv, InFile, Wanted
  <2>2. CASE Accepted # {}
      BY <2>2 DEF Wanted
  <2> QED
      BY <2>1, <2>2
<1>6. request' \subseteq request
    BY <1>1, <1>4
<1>7. InFile'
    BY <1>1, <1>4, <1>5 DEF InFile
<1>8. wanted' \in Nat
  <2>1. \A q \in Accepted : q.base \in Nat
      BY <1>4 DEF IInv, Typed, RequestType
  <2> QED
      BY <1>1, <1>5, <2>1
<1>9. Typed' /\ Watched' /\ InService'
  <2>1. Typed'
      BY <1>1, <1>2, <1>6, <1>8 DEF IInv, Typed
  <2>2. Watched' /\ InService'
      BY <1>1 DEF IInv, Watched, InService
  <2> QED
      BY <2>1, <2>2
<1>10. AllSound' /\ Locked' /\ Exceeded'
  <2>1. \A c \in Commands : cmd[c].at # "locked"
      BY <1>1, NoneLocked
  <2> QED
      BY <1>1, <1>6, <2>1 DEF IInv, AllSound, Sound, Locked, Exceeded
<1> QED
    BY <1>7, <1>9, <1>10 DEF IInv
-----------------------------------------------------------------------------
(* One command goes on.                                                     *)
LEMMA OneCommand ==
  ASSUME IInv, NEW c \in Commands, NEW r \in CommandType, SupervisorStays,
         cmd' = [cmd EXCEPT ![c] = r], request' \subseteq RequestType
  PROVE  /\ Typed' /\ Watched' /\ InService'
         /\ cmd'[c] = r /\ \A d \in Commands : d # c => cmd'[d] = cmd[d]
         /\ UNCHANGED <<sup, last, pc, wanted, state, proved>>
<1>1. UNCHANGED <<sup, last, pc, wanted, state, proved>>
    BY DEF SupervisorStays
<1>2. /\ cmd' \in [Commands -> CommandType]
      /\ cmd'[c] = r /\ \A d \in Commands : d # c => cmd'[d] = cmd[d]
    BY DEF IInv, Typed
<1>3. Typed'
    BY <1>1, <1>2 DEF IInv, Typed
<1>4. Watched' /\ InService'
    BY <1>1 DEF IInv, Watched, Watching, InService
<1> QED
    BY <1>1, <1>2, <1>3, <1>4

LEMMA CommandGoesOn ==
  ASSUME IInv, NEW c \in Commands, NEW r \in CommandType, SupervisorStays,
         cmd' = [cmd EXCEPT ![c] = r], UNCHANGED request, r.at # "locked",
         control' = control \/ control = c,
         r.at \in {"waiting", "probing", "restarted"} => r.before <= r.base,
         r.at \in {"probing", "restarted"} => r.base < r.generation
  PROVE  IInv'
<1>1. /\ Typed' /\ Watched' /\ InService'
      /\ cmd'[c] = r /\ \A d \in Commands : d # c => cmd'[d] = cmd[d]
      /\ UNCHANGED <<sup, last, pc, wanted, state, proved>>
  <2>1. request' \subseteq RequestType
      BY DEF IInv, Typed
  <2> QED
      BY <2>1, OneCommand
<1>2. AllSound'
    BY <1>1 DEF IInv, AllSound, Sound, Watching
<1>3. Locked'
    BY <1>1 DEF IInv, Locked
<1>4. InFile' /\ Exceeded'
    BY <1>1 DEF IInv, InFile, Exceeded
<1> QED
    BY <1>1, <1>2, <1>3, <1>4 DEF IInv

LEMMA CommandBeginsKeeps == ASSUME IInv, NEW c \in Commands, CommandBegins(c) PROVE IInv'
<1> DEFINE r == [cmd[c] EXCEPT !.at = "locking"]
<1>1. r \in CommandType /\ r.at = "locking"
    BY DEF IInv, Typed, CommandType, Stations
<1>2. cmd' = [cmd EXCEPT ![c] = r] /\ SupervisorStays /\ UNCHANGED <<request, control>>
    BY DEF CommandBegins
<1> HIDE DEF r
<1> QED
    BY <1>1, <1>2, CommandGoesOn

LEMMA CommandPollsKeeps == ASSUME IInv, NEW c \in Commands, CommandPolls(c) PROVE IInv'
<1> DEFINE r == [cmd[c] EXCEPT !.at = "probing", !.generation = state.generation]
<1>1. cmd[c] \in CommandType /\ state.generation \in Nat
    BY DEF IInv, Typed, StateType
<1>2. /\ r \in CommandType /\ r.at = "probing" /\ r.generation = state.generation
      /\ r.base = cmd[c].base /\ r.before = cmd[c].before
    BY <1>1 DEF CommandType, Stations
<1>3. cmd[c].before <= cmd[c].base /\ cmd[c].base < state.generation
  <2>1. cmd[c].before <= cmd[c].base
      BY DEF IInv, Exceeded, CommandPolls
  <2>2. cmd[c].base < state.generation
      BY <1>1 DEF CommandPolls, Replaced, CommandType
  <2> QED
      BY <2>1, <2>2
<1>4. cmd' = [cmd EXCEPT ![c] = r] /\ SupervisorStays /\ UNCHANGED <<request, control>>
    BY DEF CommandPolls
<1> HIDE DEF r
<1> QED
    BY <1>2, <1>3, <1>4, CommandGoesOn

LEMMA CommandConfirmsKeeps == ASSUME IInv, NEW c \in Commands, CommandConfirms(c) PROVE IInv'
<1>1. cmd[c] \in CommandType /\ SupervisorStays /\ UNCHANGED <<request, control>>
    BY DEF IInv, Typed, CommandConfirms
<1>2. cmd[c].before <= cmd[c].base /\ cmd[c].base < cmd[c].generation
    BY DEF IInv, Exceeded, CommandConfirms
<1>3. CASE cmd' = [cmd EXCEPT ![c].at = "restarted"]
  <2> DEFINE r == [cmd[c] EXCEPT !.at = "restarted"]
  <2>1. /\ r \in CommandType /\ r.at = "restarted" /\ r.generation = cmd[c].generation
        /\ r.base = cmd[c].base /\ r.before = cmd[c].before
      BY <1>1 DEF CommandType, Stations
  <2>2. cmd' = [cmd EXCEPT ![c] = r]
      BY <1>3
  <2> HIDE DEF r
  <2> QED
      BY <1>1, <1>2, <2>1, <2>2, CommandGoesOn
<1>4. CASE cmd' = [cmd EXCEPT ![c].at = "waiting", ![c].generation = 0]
  <2> DEFINE r == [cmd[c] EXCEPT !.at = "waiting", !.generation = 0]
  <2>1. /\ r \in CommandType /\ r.at = "waiting"
        /\ r.base = cmd[c].base /\ r.before = cmd[c].before
      BY <1>1 DEF CommandType, Stations
  <2>2. cmd' = [cmd EXCEPT ![c] = r]
      BY <1>4
  <2> HIDE DEF r
  <2> QED
      BY <1>1, <1>2, <2>1, <2>2, CommandGoesOn
<1> QED
    BY <1>3, <1>4 DEF CommandConfirms

LEMMA CommandFailsKeeps == ASSUME IInv, NEW c \in Commands, CommandFails(c) PROVE IInv'
<1> DEFINE r == [Idle EXCEPT !.at = "failed"]
<1>1. r \in CommandType /\ r.at = "failed"
    BY DEF Idle, CommandType, Stations
<1>2. /\ cmd' = [cmd EXCEPT ![c] = r] /\ SupervisorStays /\ UNCHANGED request
      /\ control' = control \/ control = c
    BY DEF CommandFails
<1> HIDE DEF r
<1> QED
    BY <1>1, <1>2, CommandGoesOn

LEMMA CommandLocksKeeps == ASSUME IInv, NEW c \in Commands, CommandLocks(c) PROVE IInv'
<1> DEFINE r == [at |-> "locked", supervisor |-> sup, base |-> Base,
                 generation |-> state.generation, before |-> proved]
<1>1. /\ control = 0 /\ control' = c /\ SupervisorStays /\ UNCHANGED request
      /\ sup # 0 /\ state.supervisor = sup /\ state.generation > 0
      /\ cmd' = [cmd EXCEPT ![c] = r]
    BY DEF CommandLocks, Readable
<1>2. /\ Base \in Nat /\ Base <= state.generation /\ proved <= Base
      /\ Watching => \/ Base < state.generation \/ state.generation <= proved
                     \/ state.generation = 1
  <2>1. /\ state.generation \in Nat /\ proved \in Nat /\ proved <= state.generation
        /\ state.phase = "starting" => proved < state.generation
        /\ Watching => state.phase = "starting" \/ proved = state.generation
      BY DEF IInv, Typed, StateType, InService, Watched
  <2> QED
      BY <1>1, <2>1 DEF Base
<1>3. /\ r \in CommandType /\ r.at = "locked" /\ r.supervisor = sup /\ r.base = Base
      /\ r.generation = state.generation /\ r.before = proved
    BY <1>2 DEF IInv, Typed, StateType, CommandType, Stations
<1> HIDE DEF r
<1>4. /\ Typed' /\ Watched' /\ InService'
      /\ cmd'[c] = r /\ \A d \in Commands : d # c => cmd'[d] = cmd[d]
      /\ UNCHANGED <<sup, last, pc, wanted, state, proved>>
  <2>1. request' \subseteq RequestType
      BY <1>1 DEF IInv, Typed
  <2> QED
      BY <1>1, <1>3, <2>1, OneCommand
<1>5. \A d \in Commands : cmd[d].at # "locked"
    BY <1>1, NoneLocked
<1>6. Sound(r)
    BY <1>1, <1>2, <1>3 DEF Sound, IInv, Typed
<1>7. AllSound'
    BY <1>1, <1>4, <1>5, <1>6 DEF IInv, AllSound, Sound, Watching
<1>8. Locked'
  <2>1. \A q \in request : q.supervisor = sup => q.base <= state.generation
      BY <1>1 DEF IInv, AllSound, Sound
  <2> QED
      BY <1>1, <1>3, <1>4, <1>5, <2>1 DEF Locked
<1>9. InFile' /\ Exceeded'
    BY <1>1, <1>2, <1>3, <1>4 DEF IInv, InFile, Exceeded
<1> QED
    BY <1>4, <1>7, <1>8, <1>9 DEF IInv

(* A command finds every request that its supervisor wants served, and      *)
(* joins one rather than replace it.                                        *)
LEMMA CommandSubmitsKeeps == ASSUME IInv, NEW c \in Commands, CommandSubmits(c) PROVE IInv'
<1> DEFINE joined == {q \in request : q.supervisor = cmd[c].supervisor
                                        /\ q.base <= cmd[c].generation}
           own == [supervisor |-> cmd[c].supervisor, base |-> cmd[c].base,
                   before |-> cmd[c].before]
           of(q) == [at |-> "waiting", supervisor |-> q.supervisor, base |-> q.base,
                     generation |-> 0, before |-> q.before]
<1>1. /\ cmd[c].at = "locked" /\ SupervisorStays /\ control' = 0
      /\ request' = IF joined # {} THEN request ELSE {own}
    BY DEF CommandSubmits
<1>2. cmd[c] \in CommandType /\ request \subseteq RequestType
    BY DEF IInv, Typed
<1>3. /\ own \in RequestType /\ own.supervisor = cmd[c].supervisor
      /\ own.base = cmd[c].base /\ own.before = cmd[c].before
    BY <1>2 DEF CommandType, RequestType
<1>4. PICK q \in request' : cmd' = [cmd EXCEPT ![c] = of(q)]
    BY DEF CommandSubmits
<1>5. request' \subseteq RequestType
    BY <1>1, <1>2, <1>3
<1>6. /\ of(q) \in CommandType /\ of(q).at = "waiting" /\ of(q).base = q.base
      /\ of(q).before = q.before
    BY <1>4, <1>5 DEF CommandType, RequestType, Stations
<1>7. \A p \in request' : Sound(p)
  <2>1. Sound(own)
      BY <1>1, <1>3 DEF IInv, AllSound, Sound
  <2> QED
      BY <1>1, <2>1 DEF IInv, AllSound
<1>8. wanted # 0 => \E p \in request' : p.supervisor = sup /\ p.base = wanted
  <2> SUFFICES ASSUME wanted # 0 PROVE \E p \in request : p \in joined /\ p.supervisor = sup
                                                                /\ p.base = wanted
      BY <1>1
  <2>1. PICK p \in request : p.supervisor = sup /\ p.base = wanted
      BY DEF IInv, InFile
  <2>2. sup # 0
      BY DEF IInv, Typed, InService
  <2>3. cmd[c].supervisor = sup /\ p.base <= cmd[c].generation
      BY <1>1, <2>1, <2>2 DEF IInv, Locked
  <2> QED
      BY <2>1, <2>3
<1> HIDE DEF own, joined, of
<1>9. /\ Typed' /\ Watched' /\ InService'
      /\ cmd'[c] = of(q) /\ \A d \in Commands : d # c => cmd'[d] = cmd[d]
      /\ UNCHANGED <<sup, last, pc, wanted, state, proved>>
    BY <1>1, <1>4, <1>5, <1>6, OneCommand
<1>10. \A d \in Commands : cmd'[d].at # "locked"
    BY <1>1, <1>6, <1>9, NoneLocked
<1>11. AllSound'
    BY <1>7, <1>9, <1>10 DEF AllSound, Sound, Watching
<1>12. Locked' /\ InFile'
    BY <1>8, <1>9, <1>10 DEF Locked, InFile
<1>13. Exceeded'
  <2>1. q.before <= q.base
      BY <1>4, <1>7 DEF Sound
  <2> QED
      BY <1>6, <1>9, <2>1 DEF IInv, Exceeded
<1> QED
    BY <1>9, <1>11, <1>12, <1>13 DEF IInv
-----------------------------------------------------------------------------
LEMMA Invariance == ASSUME IInv, [Next]_vars PROVE IInv'
<1>1. CASE HookRuns
    BY <1>1, HookRunsKeeps
<1>2. CASE Loop
    BY <1>2, BootsKeeps, StartGatewayKeeps, WatchesKeeps, ChecksKeeps, HealthyKeeps, RestartsKeeps,
       StopGatewayKeeps, EndsKeeps DEF Loop
<1>3. CASE Exits \/ ExitsWhileForking \/ Killed
    BY <1>3, EndsKeeps
<1>4. CASE \E p \in Processes : GatewayDies(p)
    BY <1>4, GatewayDiesKeeps
<1>5. CASE \E c \in Commands : Command(c)
    BY <1>5, CommandBeginsKeeps, CommandLocksKeeps, CommandSubmitsKeeps, CommandPollsKeeps,
       CommandConfirmsKeeps, CommandFailsKeeps DEF Command
<1>6. CASE UNCHANGED vars
  <2>1. UNCHANGED <<sup, last, pc, wanted, state, request, control, proved, cmd>>
      BY <1>6 DEF vars, files
  <2> QED
      BY <2>1 DEF IInv, Typed, Watched, Watching, InService, AllSound, Sound, Locked, InFile, Exceeded
<1> QED
    BY <1>1, <1>2, <1>3, <1>4, <1>5, <1>6 DEF Next

LEMMA Inductive == Spec => []IInv
<1>1. Init => IInv
    BY Initial
<1>2. IInv /\ [Next]_vars => IInv'
    BY Invariance
<1> QED
    BY <1>1, <1>2, PTL DEF Spec

(* However many generations, commands and supervisors there were, and       *)
(* whatever died in between, a command that reports a restart reports a     *)
(* process that was not yet in service when the request was written.        *)
THEOREM RestartIsFresh == Spec => []ReportedIsFresh
<1>1. IInv => ReportedIsFresh
  <2> SUFFICES ASSUME IInv, NEW c \in Commands, cmd[c].at = "restarted"
               PROVE  cmd[c].generation > cmd[c].before
      BY DEF ReportedIsFresh
  <2>1. cmd[c] \in CommandType
      BY DEF IInv, Typed
  <2>2. cmd[c].before <= cmd[c].base /\ cmd[c].base < cmd[c].generation
      BY DEF IInv, Exceeded
  <2> QED
      BY <2>1, <2>2 DEF CommandType
<1> QED
    BY <1>1, Inductive, PTL

(* Only requests take down a living gateway that answers its probes, and    *)
(* only one that was in service, or the first, when they were written.      *)
LEMMA TakenDown ==
  ASSUME IInv, [Next]_vars, pc = "decide", pc' = "stop", ChildAlive
  PROVE  \E q \in request : q.supervisor = sup /\ (Child <= q.before \/ Child = 1)
<1>1. RestartRequested
  <2>1. ~Loop => FALSE
      BY DEF Next, HookRuns, Exits, ExitsWhileForking, Killed, Over, To, GatewayDies, Command,
         CommandBegins, CommandLocks, CommandSubmits, CommandPolls, CommandConfirms, CommandFails,
         SupervisorStays, vars
  <2> QED
      BY <2>1 DEF Loop, Boots, StartGateway, TritonLive, TritonNotYet, TritonFails, Checks,
         RestartDead, NoReason, Healthy, Unhealthy, RestartUnhealthy, StopGateway, Exited, Over, To
<1>2. wanted # 0 /\ Generation <= wanted /\ Watching
    BY <1>1 DEF RestartRequested, Watching
<1>3. PICK q \in request : q.supervisor = sup /\ q.base = wanted
    BY <1>2 DEF IInv, InFile
<1>4. /\ sup # 0 /\ Generation = state.generation /\ Child = state.generation
      /\ state.generation \in Nat
    BY <1>2, OwnView DEF IInv, Watched, Typed, StateType
<1>5. q.base < state.generation \/ state.generation <= q.before \/ state.generation = 1
    BY <1>2, <1>3, <1>4 DEF IInv, AllSound, Sound
<1>6. q.base \in Nat
    BY DEF IInv, Typed, RequestType
<1> QED
    BY <1>2, <1>3, <1>4, <1>5, <1>6

(* An operator's request never takes down a replacement for which it would  *)
(* have waited, nor is one served twice.                                    *)
THEOREM KillsAreAsked == Spec => NoNeedlessKill
<1>1. IInv /\ [Next]_vars =>
        [pc = "decide" /\ pc' = "stop" /\ ChildAlive =>
           \E q \in request : q.supervisor = sup /\ (Child <= q.before \/ Child = 1)]_vars
    BY TakenDown
<1> QED
    BY <1>1, Inductive, PTL DEF Spec, NoNeedlessKill
=============================================================================
