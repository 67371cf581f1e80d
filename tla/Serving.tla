------------------------------ MODULE Serving ------------------------------
(***************************************************************************)
(* How a generation request meets the rollout servers while the fully      *)
(* asynchronous trainer replaces their weights.                            *)
(*                                                                         *)
(* A client (FullyAsyncLLMServerClient) asks the load balancer for a       *)
(* server, generates there, gives the server back without waiting, and     *)
(* goes on elsewhere if the trainer aborted it.  The trainer works through *)
(* a program of instructions, each sent to a set of servers and awaited:   *)
(* an update of the standalone servers and, on the versions it validates,  *)
(* the detour of _trainer_side_validate, which wakes its own (hybrid)      *)
(* servers, lends them to the load balancer and takes them back.           *)
(*                                                                         *)
(* A server is an engine that is asleep or awake, a gate that holds new    *)
(* requests while it is paused, the version of the weights it generates    *)
(* with, and the label global_steps it reports as that version.            *)
(***************************************************************************)
EXTENDS Integers, Sequences, FiniteSets

CONSTANTS
  Standalone,  \* replicas of the rollouter's own GPUs
  Hybrid,      \* replicas of the trainer's GPUs, asleep while it trains
  Clients,     \* requests of the rollouter's generation tasks
  Validators,  \* requests of a validation
  TestFreq,    \* versions between validations
  MaxVersion,  \* bound: the last version
  None

Servers == Standalone \cup Hybrid
Requests == Clients \cup Validators

ASSUME ServingConstants ==
  /\ Standalone # {} /\ Standalone \cap Hybrid = {}
  /\ Clients \cap Validators = {}
  /\ TestFreq \in Nat \ {0} /\ MaxVersion \in Nat
  /\ None \notin Nat /\ None \notin Servers

VARIABLES
  version,   \* current_param_version
  program,   \* what the trainer still has to do for this version
  todo,      \* servers the instruction it is at has not finished on
  awake, paused, weights, label,  \* the servers
  inflight,  \* _inflight_requests of the load balancer: its domain is the pool
  sticky,    \* _request_id_to_server
  releases,  \* the release_server message of each request under way
  req,       \* the requests: where they are and what they have
  partial    \* async_training.partial_rollout

trainer == <<version, program, todo>>
servers == <<awake, paused, weights, label>>
balancer == <<inflight, sticky>>
vars == <<trainer, servers, balancer, releases, req, partial>>

Pool == DOMAIN inflight
Version == 0 .. MaxVersion

-----------------------------------------------------------------------------
(* The trainer's program.                                                  *)
Do(op, on) == [op |-> op, on |-> on]

(* CheckpointEngineManager.update_weights with a transfer backend.         *)
Update == <<Do("abort", Standalone), Do("load", Standalone),
            Do("resume", Standalone)>>

(* _trainer_side_validate.                                                 *)
Validation_HybridStaysPaused ==
  <<Do("load", Hybrid), Do("abort", Standalone), Do("abort", Hybrid),
    Do("add", Hybrid), Do("resume", Standalone),
    Do("validate", Hybrid),
    Do("abort", Standalone), Do("abort", Hybrid), Do("remove", Hybrid),
    Do("sleep", Hybrid), Do("resume", Standalone), Do("resume", Hybrid)>>
Validation ==
  <<Do("load", Hybrid), Do("abort", Standalone), Do("abort", Hybrid),
    Do("add", Hybrid), Do("resume", Standalone), Do("resume", Hybrid),
    Do("validate", Hybrid),
    Do("abort", Standalone), Do("abort", Hybrid), Do("remove", Hybrid),
    Do("sleep", Hybrid), Do("resume", Standalone), Do("resume", Hybrid)>>

NeedValidate(v) == Hybrid # {} /\ v % TestFreq = 0 /\ v > 0

Fresh == [pc |-> "idle", server |-> None, tokens |-> {}, now |-> FALSE,
          stop |-> None, steps |-> None, min |-> None, max |-> None,
          caught |-> FALSE]

(* A request that has no answer yet, at a server or at none.               *)
Asked(request, pc, server) ==
  [request EXCEPT !.pc = pc, !.server = server, !.now = FALSE,
                  !.stop = None, !.steps = None]

(* After the first synchronisation of the standalone servers: the hybrid   *)
(* ones sleep and are not in the pool.                                     *)
Init ==
  /\ version = 0 /\ program = <<>> /\ todo = {}
  /\ awake = [s \in Servers |-> s \in Standalone]
  /\ paused = [s \in Servers |-> FALSE]
  /\ weights = [s \in Servers |-> IF s \in Standalone THEN 0 ELSE None]
  /\ label = [s \in Servers |-> IF s \in Standalone THEN 0 ELSE None]
  /\ inflight = [s \in Standalone |-> 0]
  /\ sticky = [r \in Requests |-> None]
  /\ releases = [r \in Requests |-> None]
  /\ req = [r \in Requests |-> Fresh]
  /\ partial \in BOOLEAN

(* The next version is trained: _fit_update_weights, then _fit_validate.   *)
Train ==
  /\ program = <<>> /\ version < MaxVersion
  /\ version' = version + 1
  /\ program' = Update \o IF NeedValidate(version') THEN Validation ELSE <<>>
  /\ todo' = Standalone
  /\ UNCHANGED <<servers, balancer, releases, req, partial>>

At(op) == program # <<>> /\ Head(program).op = op

(* The instruction is finished on the servers of done: once on all, the    *)
(* trainer's await returns.                                                *)
Finished(done) ==
  /\ UNCHANGED version
  /\ IF todo \subseteq done
       THEN /\ program' = Tail(program)
            /\ todo' = IF program' = <<>> THEN {} ELSE Head(program').on
       ELSE /\ UNCHANGED program
            /\ todo' = todo \ done

Running(s) == {r \in Requests : req[r].pc = "running" /\ req[r].server = s}

(* abort_all_requests: pause_generation closes the gate, ...               *)
Pause(s) ==
  /\ At("abort") /\ s \in todo /\ ~paused[s]
  /\ paused' = [paused EXCEPT ![s] = TRUE]
  /\ UNCHANGED <<trainer, awake, weights, label, balancer, releases, req,
                 partial>>

(* What the server answers: a request that has produced nothing may be     *)
(* answered without the version it ran on.                                 *)
Answer(r, why, steps) ==
  req' = [req EXCEPT ![r].pc = "answered", ![r].stop = why,
                     ![r].steps = steps]

(* ... the requests in flight end as aborted, ...                          *)
Abort(r) ==
  /\ req[r].pc = "running" /\ At("abort")
  /\ req[r].server \in todo /\ paused[req[r].server]
  /\ \E steps \in {label[req[r].server]}
                    \cup IF req[r].now THEN {} ELSE {None} :
       Answer(r, "aborted", steps)
  /\ UNCHANGED <<trainer, servers, balancer, releases, partial>>

(* ... and the call returns when none is left.                             *)
Drained(s) ==
  /\ At("abort") /\ s \in todo /\ paused[s] /\ Running(s) = {}
  /\ Finished({s})
  /\ UNCHANGED <<servers, balancer, releases, req, partial>>

(* The weights reach the server's engine (see WeightTransfer); a hybrid    *)
(* server has its memory back first.                                       *)
Load(s) ==
  /\ At("load") /\ s \in todo /\ weights[s] # version
  /\ awake' = [awake EXCEPT ![s] = TRUE]
  /\ weights' = [weights EXCEPT ![s] = version]
  /\ UNCHANGED <<trainer, paused, label, balancer, releases, req, partial>>

(* set_global_steps.                                                       *)
Label(s) ==
  /\ At("load") /\ s \in todo /\ weights[s] = version
  /\ label' = [label EXCEPT ![s] = version]
  /\ Finished({s})
  /\ UNCHANGED <<awake, paused, weights, balancer, releases, req, partial>>

(* resume_generation.                                                      *)
Resume(s) ==
  /\ At("resume") /\ s \in todo
  /\ paused' = [paused EXCEPT ![s] = FALSE]
  /\ Finished({s})
  /\ UNCHANGED <<awake, weights, label, balancer, releases, req, partial>>

(* vLLMReplica.sleep: drain, then give the memory of the weights up.       *)
Sleep(s) ==
  /\ At("sleep") /\ s \in todo /\ Running(s) = {}
  /\ awake' = [awake EXCEPT ![s] = FALSE]
  /\ weights' = [weights EXCEPT ![s] = None]
  /\ Finished({s})
  /\ UNCHANGED <<paused, label, balancer, releases, req, partial>>

(* The metrics of the validation are in when all of its requests are.  The *)
(* next validation asks anew, here once the last release has arrived.      *)
Validated ==
  /\ At("validate")
  /\ \A r \in Validators : req[r].pc = "done" /\ releases[r] = None
  /\ req' = [r \in Requests |-> IF r \in Validators THEN Fresh ELSE req[r]]
  /\ sticky' = [r \in Requests |->
                  IF r \in Validators THEN None ELSE sticky[r]]
  /\ Finished(Hybrid)
  /\ UNCHANGED <<servers, inflight, releases, partial>>

-----------------------------------------------------------------------------
(* GlobalRequestLoadBalancer.                                              *)

(* add_servers: the count of a server that joins (again) starts from 0.    *)
AddServers ==
  /\ At("add")
  /\ inflight' = [s \in Pool \cup Hybrid |->
                    IF s \in Hybrid THEN 0 ELSE inflight[s]]
  /\ Finished(Hybrid)
  /\ UNCHANGED <<servers, sticky, releases, req, partial>>

(* remove_servers.  A request that was handed one of them and waits at its *)
(* gate is caught there.                                                   *)
RemoveServers ==
  /\ At("remove")
  /\ inflight' = [s \in Pool \ Hybrid |-> inflight[s]]
  /\ req' = [r \in Requests |->
               IF req[r].pc = "calling" /\ req[r].server \in Hybrid
                 THEN [req[r] EXCEPT !.caught = TRUE] ELSE req[r]]
  /\ Finished(Hybrid)
  /\ UNCHANGED <<servers, sticky, releases, partial>>

LeastLoaded == {s \in Pool : \A t \in Pool : inflight[s] <= inflight[t]}

(* acquire_server: the server the request had, while it is in the pool.    *)
Offered_Sticky(r) == IF sticky[r] # None THEN {sticky[r]} ELSE LeastLoaded
Offered(r) == IF sticky[r] \in Pool THEN {sticky[r]} ELSE LeastLoaded

(* A generation task or a validation begins its request at any time of     *)
(* theirs; one that was aborted comes back after its sleep.                *)
Acquire(r) ==
  /\ req[r].pc \in {"idle", "sleeping"} /\ releases[r] = None
  /\ r \in Validators => At("validate")
  /\ \E s \in Offered(r) :
       /\ sticky' = [sticky EXCEPT ![r] = s]
       /\ inflight' = [t \in Pool |->
                         IF t = s THEN inflight[t] + 1 ELSE inflight[t]]
       /\ req' = [req EXCEPT ![r] = Asked(@, "calling", s)]
  /\ UNCHANGED <<trainer, servers, releases, partial>>

(* release_server, fired and forgotten by the client that got its answer.  *)
Release_Unchecked(r) ==
  /\ releases[r] # None
  /\ releases' = [releases EXCEPT ![r] = None]
  /\ inflight' = [s \in Pool |->
                    IF s = releases[r] THEN inflight[s] - 1 ELSE inflight[s]]
  /\ UNCHANGED <<trainer, servers, sticky, req, partial>>
Release(r) ==
  /\ releases[r] # None
  /\ releases' = [releases EXCEPT ![r] = None]
  /\ inflight' = [s \in Pool |->
                    IF s = releases[r] /\ inflight[s] > 0
                      THEN inflight[s] - 1 ELSE inflight[s]]
  /\ UNCHANGED <<trainer, servers, sticky, req, partial>>

-----------------------------------------------------------------------------
(* The server's generate.                                                  *)

(* The engine takes a request in while its gate is open.                   *)
Enter(r) ==
  /\ req[r].pc = "calling" /\ ~paused[req[r].server]
  /\ req' = [req EXCEPT ![r].pc = "running"]
  /\ UNCHANGED <<trainer, servers, balancer, releases, partial>>

(* Tokens of the weights that are loaded.  What an engine that is asleep   *)
(* does with a request is not defined: here it does nothing.               *)
Generate(r) ==
  LET s == req[r].server IN
  /\ req[r].pc = "running" /\ awake[s]
  /\ ~req[r].now \/ weights[s] \notin req[r].tokens
  /\ req' = [req EXCEPT ![r].tokens = @ \cup {weights[s]}, ![r].now = TRUE]
  /\ UNCHANGED <<trainer, servers, balancer, releases, partial>>

Complete(r) ==
  /\ req[r].pc = "running" /\ req[r].now
  /\ Answer(r, "completed", label[req[r].server])
  /\ UNCHANGED <<trainer, servers, balancer, releases, partial>>

(* The client takes the answer: it gives the server back, notes the first  *)
(* and the last version, and returns or goes to sleep before the next try. *)
Merge_LastOnly(r) ==
  LET again == req[r].stop = "aborted" /\ partial IN
  /\ req[r].pc = "answered"
  /\ releases' = [releases EXCEPT ![r] = req[r].server]
  /\ req' = [req EXCEPT ![r] =
       [Asked(req[r], IF again THEN "sleeping" ELSE "done", None)
          EXCEPT !.min = req[r].steps, !.max = req[r].steps]]
  /\ UNCHANGED <<trainer, servers, balancer, partial>>
Merge(r) ==
  LET again == req[r].stop = "aborted" /\ partial IN
  /\ req[r].pc = "answered"
  /\ releases' = [releases EXCEPT ![r] = req[r].server]
  /\ req' = [req EXCEPT ![r] =
       [Asked(req[r], IF again THEN "sleeping" ELSE "done", None)
          EXCEPT !.min = IF req[r].min = None THEN req[r].steps ELSE @,
                 !.max = req[r].steps]]
  /\ UNCHANGED <<trainer, servers, balancer, partial>>

-----------------------------------------------------------------------------
TrainerStep ==
  \/ Train \/ Validated \/ AddServers \/ RemoveServers
  \/ \E s \in Servers : Pause(s) \/ Drained(s) \/ Load(s) \/ Label(s)
                        \/ Resume(s) \/ Sleep(s)

RequestStep(r) ==
  \/ Acquire(r) \/ Release(r) \/ Enter(r) \/ Generate(r) \/ Complete(r)
  \/ Abort(r) \/ Merge(r)

Next == TrainerStep \/ \E r \in Requests : RequestStep(r)

Spec == Init /\ [][Next]_vars

(* The trainer and the servers do what they are sent, messages arrive, an  *)
(* engine goes on with its requests.  Nothing makes the rollouter begin a  *)
(* request; a validation begins its own.                                   *)
FairSpec ==
  /\ Spec
  /\ WF_vars(Validated) /\ WF_vars(AddServers) /\ WF_vars(RemoveServers)
  /\ \A s \in Servers :
       /\ WF_vars(Pause(s)) /\ WF_vars(Drained(s)) /\ WF_vars(Load(s))
       /\ WF_vars(Label(s)) /\ WF_vars(Resume(s)) /\ WF_vars(Sleep(s))
  /\ \A r \in Requests :
       /\ WF_vars(Acquire(r) /\ (r \in Validators \/ req[r].pc = "sleeping"))
       /\ WF_vars(Release(r)) /\ WF_vars(Enter(r)) /\ WF_vars(Generate(r))
       /\ WF_vars(Complete(r)) /\ WF_vars(Abort(r)) /\ WF_vars(Merge(r))

-----------------------------------------------------------------------------
(* The types.  A count of the load balancer is never negative, although a  *)
(* server that joins again starts from 0 whatever is released late.        *)
TypeOK ==
  /\ version \in Version /\ todo \subseteq Servers
  /\ \A i \in DOMAIN program : program[i].on \in {Standalone, Hybrid}
  /\ awake \in [Servers -> BOOLEAN] /\ paused \in [Servers -> BOOLEAN]
  /\ weights \in [Servers -> Version \cup {None}]
  /\ label \in [Servers -> Version \cup {None}]
  /\ Pool \in SUBSET Servers /\ inflight \in [Pool -> Nat]
  /\ sticky \in [Requests -> Servers \cup {None}]
  /\ releases \in [Requests -> Servers \cup {None}]
  /\ \A r \in Requests :
       /\ req[r].pc \in {"idle", "calling", "running", "answered",
                         "sleeping", "done"}
       /\ req[r].server \in Servers \cup {None}
       /\ req[r].tokens \subseteq Version
       /\ {req[r].steps, req[r].min, req[r].max} \subseteq Version \cup {None}
  /\ partial \in BOOLEAN

(* Whatever the servers of the pool are doing, those that take requests    *)
(* hold the same version, awake and under its own label, although they are *)
(* loaded and labelled one by one, and lent and taken back; and a request  *)
(* that runs, unless it was caught at the gate of a server that was taken  *)
(* back, runs in the pool.                                                 *)
OneVersion ==
  /\ \A s \in Pool : ~paused[s] =>
       /\ awake[s] /\ weights[s] = label[s]
       /\ \A t \in Pool : ~paused[t] => weights[t] = weights[s]
  /\ \A r \in Requests : req[r].pc = "running" /\ ~req[r].caught =>
       req[r].server \in Pool

(* min_global_steps and max_global_steps of a finished request bracket the *)
(* versions of all of its tokens, over every abort, change of server and   *)
(* retry, although the client only looks at its first and its last answer. *)
VersionsBracket ==
  \A r \in Requests :
    req[r].pc = "done" /\ ~req[r].caught /\ req[r].tokens # {} =>
      /\ req[r].min # None /\ req[r].max # None
      /\ \A v \in req[r].tokens : req[r].min <= v /\ v <= req[r].max

(* A request that has begun ends, unless it was caught; and the trainer    *)
(* gets to the end of what it does for a version, caught requests or not.  *)
RequestsReturn ==
  /\ \A r \in Clients :
       req[r].pc # "idle" ~> req[r].pc = "done" \/ req[r].caught
  /\ program # <<>> ~> program = <<>>

(* No request is let in to an engine that is asleep: "Drain DP engines for *)
(* safe sleep" (vllm_async_server.py) and "making rollout interruption     *)
(* invisible to the AgentLoop" (FullyAsyncLLMServerClient) say so.         *)
NeverServedAsleep ==
  \A r \in Requests : req[r].pc = "running" => awake[req[r].server]
=============================================================================
