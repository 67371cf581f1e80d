---------------------------- MODULE Serving_proofs ----------------------------
(* Theorems of Serving for every number of servers, requests and versions   *)
(* and every frequency of validations.                                      *)
(*                                                                          *)
(* The idea of the proofs: the trainer's program is always what is left of  *)
(* the sixteen instructions of an update and a validation, and the place of *)
(* the instruction it is at says which servers take no request and what the *)
(* others have loaded.                                                      *)
EXTENDS Serving, SequenceTheorems, TLAPS

Last == 16

(* The place of a trainer that has nothing to do.                           *)
Idle == 17

Stages == 1 .. Idle

OpAt(i) ==
  IF i \in {1, 5, 6, 11, 12} THEN "abort"
  ELSE IF i \in {2, 4} THEN "load"
  ELSE IF i \in {3, 8, 9, 15, 16} THEN "resume"
  ELSE IF i = 7 THEN "add"
  ELSE IF i = 10 THEN "validate"
  ELSE IF i = 13 THEN "remove"
  ELSE "sleep"

OnAt(i) == IF i \in {1, 2, 3, 5, 8, 11, 15} THEN Standalone ELSE Hybrid

Instruction ==
  [ op : {"abort", "load", "resume", "add", "validate", "remove", "sleep"},
    on : {Standalone, Hybrid} ]

(* What is left of the program up to the instruction last.                  *)
Left(i, last) ==
  /\ program \in Seq(Instruction)
  /\ Len(program) = last + 1 - i
  /\ \A k \in 1 .. Len(program) : program[k] = Do(OpAt(i + k - 1), OnAt(i + k - 1))

Place(i) ==
  \/ i = Idle /\ program = <<>>
  \/ i \in 1 .. Last /\ Left(i, Last)
  \/ i \in 1 .. 3 /\ Left(i, 3)

(* Servers whose gate is shut and that have no request, when the            *)
(* instruction i is still to be done on the servers of T.                   *)
Closed(i, T, s) ==
  \/ /\ s \in Standalone
     /\ \/ i \in {2, 6, 7, 12, 13, 14}
        \/ i \in {1, 5, 11} /\ s \notin T
        \/ i \in {3, 8, 15} /\ s \in T
  \/ /\ s \in Hybrid
     /\ \/ i \in {7, 8, 13, 14, 15}
        \/ i \in {6, 12} /\ s \notin T
        \/ i \in {9, 16} /\ s \in T

Holds(s, v) == weights[s] = v /\ label[s] = v

PoolAt(i) == Standalone \cup IF i \in 8 .. 13 THEN Hybrid ELSE {}

GatesAt(i, T) ==
  \A s \in Servers : Closed(i, T, s) => paused[s] /\ Running(s) = {}

StandaloneAt(i, T) ==
  \A s \in Standalone :
    /\ awake[s]
    /\ i = 1 => Holds(s, version - 1)
    /\ i = 2 /\ s \in T => weights[s] \in {version - 1, version} /\ label[s] = version - 1
    /\ i = 2 /\ s \notin T => Holds(s, version)
    /\ i > 2 => Holds(s, version)

HybridAt(i, T) ==
  \A s \in Hybrid :
    (i = 4 /\ s \notin T) \/ i \in 5 .. 13 => awake[s] /\ Holds(s, version)

StageInv(i, T) ==
  /\ Pool = PoolAt(i)
  /\ i # Idle => version > 0
  /\ GatesAt(i, T)
  /\ StandaloneAt(i, T)
  /\ HybridAt(i, T)

ProgramInv ==
  \E i \in Stages : /\ Place(i)
                    /\ i # Idle => todo \subseteq OnAt(i)
                    /\ StageInv(i, todo)

(* Whoever has its memory holds weights.                                    *)
AwakeInv == \A s \in Servers : awake[s] <=> weights[s] # None

Request ==
  [ pc : {"idle", "calling", "running", "answered", "sleeping", "done"},
    server : Servers \cup {None}, tokens : SUBSET Version, now : BOOLEAN,
    stop : {None, "aborted", "completed"}, steps : Version \cup {None},
    min : Version \cup {None}, max : Version \cup {None}, caught : BOOLEAN ]

Typed ==
  /\ version \in Version /\ todo \subseteq Servers
  /\ awake \in [Servers -> BOOLEAN] /\ paused \in [Servers -> BOOLEAN]
  /\ weights \in [Servers -> Version \cup {None}]
  /\ label \in [Servers -> Version \cup {None}]
  /\ Pool \in SUBSET Servers /\ inflight \in [Pool -> Nat]
  /\ sticky \in [Requests -> Servers \cup {None}]
  /\ releases \in [Requests -> Servers \cup {None}]
  /\ req \in [Requests -> Request]
  /\ partial \in BOOLEAN

(* A request that was not caught is at a server of the pool.                *)
InPool(q) ==
  /\ q.pc \in {"calling", "running", "answered"} => q.server \in Servers
  /\ q.pc \in {"calling", "running"} /\ ~q.caught => q.server \in Pool

(* The weights of the servers have not gone back behind a version that the  *)
(* request has seen.                                                        *)
Seen(q) == (q.tokens \cup {q.min, q.steps}) \ {None}

NotBehind(q) == \A v \in Seen(q) : \A s \in Standalone : v <= weights[s]

(* The first version that the client has noted is below all tokens; until   *)
(* it has noted one, there are tokens of the present answer only.           *)
FirstNoted(q) ==
  IF q.min # None THEN \A v \in q.tokens : q.min <= v
  ELSE IF q.pc = "running"
    THEN \A v \in q.tokens : v = weights[q.server] /\ q.now
  ELSE IF q.pc = "answered" THEN \A v \in q.tokens : v = q.steps
  ELSE q.tokens = {}

(* Without partial rollouts a request has one answer.                       *)
OneAnswer(q) ==
  ~partial =>
    /\ q.pc # "sleeping"
    /\ q.pc \in {"idle", "calling"} => q.tokens = {}
    /\ q.pc = "running" /\ ~q.now => q.tokens = {}
    /\ q.pc = "answered" /\ q.steps = None => q.tokens = {}

Answered(q) ==
  q.pc = "answered" =>
    /\ q.stop \in {"aborted", "completed"}
    /\ q.stop = "completed" => q.steps # None
    /\ q.steps # None => \A v \in q.tokens : v <= q.steps

Brackets(q) ==
  q.pc = "done" /\ q.tokens # {} =>
    /\ q.min # None /\ q.max # None
    /\ \A v \in q.tokens : q.min <= v /\ v <= q.max

RequestInv(q) ==
  /\ InPool(q)
  /\ ~q.caught => NotBehind(q) /\ FirstNoted(q) /\ OneAnswer(q) /\ Answered(q)
                  /\ Brackets(q)

IInv == Typed /\ ProgramInv /\ AwakeInv /\ \A r \in Requests : RequestInv(req[r])

-----------------------------------------------------------------------------
(* The program.                                                             *)
(* At the place i the trainer is at the i-th instruction, and after it at   *)
(* the next place or at the end.                                            *)
Following(i) == IF i = 3 THEN {4, Idle} ELSE {i + 1}

LEMMA AtPlace ==
  ASSUME NEW i \in Stages, Place(i), i # Idle
  PROVE  /\ program # <<>> /\ Head(program).op = OpAt(i) /\ Head(program).on = OnAt(i)
<1>1. PICK last \in {3, Last} : i \in 1 .. last /\ Left(i, last)
  BY DEF Place, Last
<1>2. Len(program) = last + 1 - i /\ program \in Seq(Instruction)
  BY <1>1 DEF Left
<1>3. Len(program) \in Nat /\ Len(program) >= 1
  BY <1>1, <1>2 DEF Last
<1>4. program # <<>> /\ Head(program) = program[1]
  BY <1>2, <1>3, HeadTailProperties, EmptySeq
<1>5. program[1] = Do(OpAt(i), OnAt(i))
  BY <1>1, <1>3 DEF Left, Last
<1> QED
  BY <1>4, <1>5 DEF Do

LEMMA NextPlace ==
  ASSUME NEW i \in Stages, Place(i), i # Idle, program' = Tail(program)
  PROVE  \E n \in Following(i) :
           /\ n \in Stages
           /\ Place(n)'
           /\ n = Idle <=> program' = <<>>
<1>1. PICK last \in {3, Last} : i \in 1 .. last /\ Left(i, last)
  BY DEF Place, Last
<1>2. Len(program) = last + 1 - i /\ program \in Seq(Instruction)
  BY <1>1 DEF Left
<1>3. Len(program) \in Nat /\ Len(program) >= 1 /\ program # <<>>
  BY <1>1, <1>2, EmptySeq DEF Last
<1>4. /\ Tail(program) \in Seq(Instruction) /\ Len(Tail(program)) = Len(program) - 1
      /\ \A k \in 1 .. Len(Tail(program)) : Tail(program)[k] = program[k + 1]
  BY <1>2, <1>3, HeadTailProperties
<1>5. CASE i = last
  <2>1. program' = <<>>
    BY <1>2, <1>4, <1>5, EmptySeq DEF Last
  <2> QED
    BY <1>1, <1>5, <2>1 DEF Place, Idle, Following, Stages, Last
<1>6. CASE i < last
  <2>1. i + 1 \in 1 .. last /\ i + 1 \in Following(i) /\ i + 1 \in Stages /\ i + 1 # Idle
    BY <1>1, <1>6 DEF Following, Stages, Idle, Last
  <2>2. Len(program') = last + 1 - (i + 1)
    BY <1>1, <1>2, <1>4 DEF Last
  <2>3. ASSUME NEW k \in 1 .. Len(program')
        PROVE  program'[k] = Do(OpAt((i + 1) + k - 1), OnAt((i + 1) + k - 1))
    <3>1. k + 1 \in 1 .. Len(program)
      BY <1>2, <1>4, <2>3 DEF Last
    <3>2. program'[k] = Do(OpAt(i + (k + 1) - 1), OnAt(i + (k + 1) - 1))
      BY <1>1, <1>4, <2>3, <3>1 DEF Left
    <3>3. i + (k + 1) - 1 = (i + 1) + k - 1
      BY <1>1, <2>3 DEF Last
    <3> QED
      BY <3>2, <3>3
  <2>4. Left(i + 1, last)'
    BY <1>4, <2>2, <2>3 DEF Left
  <2>5. Place(i + 1)'
    BY <2>1, <2>4 DEF Place, Last
  <2>6. program' # <<>>
    <3>1. Len(program') > 0
      BY <1>1, <1>6, <2>2 DEF Last
    <3> QED
      BY <3>1, EmptySeq
  <2> QED
    BY <2>1, <2>5, <2>6
<1> QED
  BY <1>1, <1>5, <1>6 DEF Last

LEMMA InstructionType ==
  \A k \in 1 .. Last : Do(OpAt(k), OnAt(k)) \in Instruction
<1> TAKE k \in 1 .. Last
<1>1. /\ OpAt(k) \in {"abort", "load", "resume", "add", "validate", "remove", "sleep"}
      /\ OnAt(k) \in {Standalone, Hybrid}
  BY DEF OpAt, OnAt
<1> QED
  BY <1>1 DEF Do, Instruction

LEMMA ProgramStarts ==
  /\ program' = Update => Place(1)'
  /\ program' = Update \o Validation => Place(1)'
<1>1. /\ Update \in Seq(Instruction) /\ Len(Update) = 3
      /\ \A k \in 1 .. 3 : Update[k] = Do(OpAt(k), OnAt(k))
  <2>1. \A k \in 1 .. 3 : Do(OpAt(k), OnAt(k)) \in Instruction
    BY InstructionType DEF Last
  <2>2. Update = <<Do(OpAt(1), OnAt(1)), Do(OpAt(2), OnAt(2)), Do(OpAt(3), OnAt(3))>>
    BY DEF Update, OpAt, OnAt
  <2> QED
    BY <2>1, <2>2
<1>2. /\ Validation \in Seq(Instruction) /\ Len(Validation) = 13
      /\ \A k \in 1 .. 13 : Validation[k] = Do(OpAt(k + 3), OnAt(k + 3))
  <2> DEFINE d(k) == Do(OpAt(k), OnAt(k))
  <2>1. Validation = <<d(4), d(5), d(6), d(7), d(8), d(9), d(10), d(11), d(12), d(13),
                       d(14), d(15), d(16)>>
    BY DEF Validation, OpAt, OnAt
  <2>2. \A k \in 4 .. 16 : d(k) \in Instruction
    BY InstructionType DEF Last
  <2> HIDE DEF d
  <2>3. Validation \in Seq(Instruction) /\ Len(Validation) = 13
    BY <2>1, <2>2
  <2>4. \A k \in 1 .. 13 : Validation[k] = d(k + 3)
    BY <2>1
  <2> QED
    BY <2>3, <2>4 DEF d
<1>3. CASE program' = Update
  <2>1. Left(1, 3)'
    <3> SUFFICES /\ program' \in Seq(Instruction) /\ Len(program') = 3 + 1 - 1
                 /\ \A k \in 1 .. Len(program') :
                      program'[k] = Do(OpAt(1 + k - 1), OnAt(1 + k - 1))
      BY DEF Left
    <3>1. ASSUME NEW k \in 1 .. Len(program')
          PROVE  program'[k] = Do(OpAt(1 + k - 1), OnAt(1 + k - 1))
      <4>0. Len(program') = 3
        BY <1>1, <1>3
      <4>1. k \in 1 .. 3 /\ 1 + k - 1 = k
        BY <4>0
      <4> QED
        BY <1>1, <1>3, <4>1
    <3> QED
      BY <1>1, <1>3, <3>1
  <2> QED
    BY <2>1 DEF Place
<1>4. CASE program' = Update \o Validation
  <2>1. /\ program' \in Seq(Instruction) /\ Len(program') = 16
        /\ \A k \in 1 .. 16 :
             program'[k] = IF k <= 3 THEN Update[k] ELSE Validation[k - 3]
    <3> DEFINE U == Update
               V == Validation
    <3>1. U \in Seq(Instruction) /\ V \in Seq(Instruction)
      BY <1>1, <1>2
    <3>2. /\ U \o V \in Seq(Instruction) /\ Len(U \o V) = Len(U) + Len(V)
          /\ \A k \in 1 .. Len(U) + Len(V) :
               (U \o V)[k] = IF k <= Len(U) THEN U[k] ELSE V[k - Len(U)]
      BY <3>1, ConcatProperties
    <3>3. Len(U) = 3 /\ Len(V) = 13 /\ program' = U \o V
      BY <1>1, <1>2, <1>4
    <3> HIDE DEF U, V
    <3>4. /\ program' \in Seq(Instruction) /\ Len(program') = 16
          /\ \A k \in 1 .. 16 : program'[k] = IF k <= 3 THEN U[k] ELSE V[k - 3]
      <4>1. Len(U) + Len(V) = 16
        BY <3>3
      <4>2. U \o V \in Seq(Instruction) /\ Len(U \o V) = 16
        BY <3>2, <4>1
      <4>3. ASSUME NEW k \in 1 .. 16
            PROVE  (U \o V)[k] = IF k <= 3 THEN U[k] ELSE V[k - 3]
        <5>1. k \in 1 .. Len(U) + Len(V)
          BY <4>1
        <5>2. (U \o V)[k] = IF k <= Len(U) THEN U[k] ELSE V[k - Len(U)]
          BY <3>2, <5>1
        <5> QED
          BY <3>3, <5>2
      <4> QED
        BY <3>3, <4>2, <4>3
    <3> QED
      BY <3>4 DEF U, V
  <2>2. ASSUME NEW k \in 1 .. 16
        PROVE  program'[k] = Do(OpAt(1 + k - 1), OnAt(1 + k - 1))
    <3>1. 1 + k - 1 = k
      OBVIOUS
    <3>2. CASE k <= 3
      <4>1. k \in 1 .. 3
        BY <3>2
      <4>2. program'[k] = Update[k]
        BY <2>1, <3>2
      <4>3. Update[k] = Do(OpAt(k), OnAt(k))
        BY <1>1, <4>1
      <4> QED
        BY <3>1, <4>2, <4>3
    <3>3. CASE k > 3
      <4>1. k - 3 \in 1 .. 13 /\ (k - 3) + 3 = k /\ ~(k <= 3)
        BY <3>3
      <4> QED
        BY <1>2, <2>1, <3>1, <4>1
    <3> QED
      BY <3>2, <3>3
  <2> QED
    BY <2>1, <2>2 DEF Place, Left, Last
<1> QED
  BY <1>3, <1>4

LEMMA AtOp ==
  ASSUME NEW i \in Stages, Place(i), NEW op, At(op)
  PROVE  i # Idle /\ OpAt(i) = op
<1>1. i # Idle
  BY DEF At, Place, Idle, Last
<1> QED
  BY <1>1, AtPlace DEF At

(* The instruction goes on, or is done and the next one begins.             *)
LEMMA FinishedCases ==
  ASSUME NEW i \in Stages, Place(i), i # Idle, NEW done, Finished(done)
  PROVE  \/ ~(todo \subseteq done) /\ Place(i)' /\ todo' = todo \ done
         \/ /\ todo \subseteq done
            /\ \E n \in Following(i) :
                 /\ n \in Stages
                 /\ Place(n)'
                 /\ n # Idle => todo' = OnAt(n)
<1>1. CASE ~(todo \subseteq done)
  <2>1. program' = program /\ todo' = todo \ done
    BY <1>1 DEF Finished
  <2> QED
    BY <1>1, <2>1 DEF Place, Left
<1>2. CASE todo \subseteq done
  <2>1. program' = Tail(program)
    BY <1>2 DEF Finished
  <2>2. PICK n \in Following(i) : /\ n \in Stages
                                  /\ Place(n)'
                                  /\ n = Idle <=> program' = <<>>
    BY <2>1, NextPlace
  <2>3. n # Idle => todo' = OnAt(n)
    <3>1. ASSUME NEW j \in Stages, Place(j)', j # Idle
          PROVE  Head(program').on = OnAt(j)
      <4>1. PICK last \in {3, Last} : j \in 1 .. last /\ Left(j, last)'
        BY <3>1 DEF Place, Last
      <4>2. Len(program') = last + 1 - j /\ program' \in Seq(Instruction)
        BY <4>1 DEF Left
      <4>3. Len(program') \in Nat /\ Len(program') >= 1 /\ j + 1 - 1 = j
        BY <4>1, <4>2 DEF Last
      <4>4. program' # <<>> /\ Head(program') = program'[1]
        BY <4>2, <4>3, HeadTailProperties, EmptySeq
      <4>5. program'[1] = Do(OpAt(j), OnAt(j))
        BY <4>1, <4>3 DEF Left, Last
      <4> QED
        BY <4>4, <4>5 DEF Do
    <3> QED
      BY <1>2, <2>2, <3>1 DEF Finished
  <2> QED
    BY <1>2, <2>2, <2>3
<1> QED
  BY <1>1, <1>2

(* What holds when an instruction is done on all of its servers is what     *)
(* the next one starts from; the pool changes in the instructions 7 and 13. *)
LEMMA StageEnds ==
  ASSUME NEW i \in Stages, i \notin {7, 13, Idle}, NEW n \in Following(i),
         StageInv(i, {})', NEW T, n # Idle => T = OnAt(n)
  PROVE  StageInv(n, T)'
<1>1. n \in Stages
  BY DEF Following, Stages, Idle
<1>2. Standalone \cap Hybrid = {}
  BY ServingConstants
<1>3. (Pool = PoolAt(n))'
  BY <1>1 DEF StageInv, PoolAt, Following, Stages, Idle
<1>4. (n # Idle => version > 0)'
  BY DEF StageInv
<1>5. ASSUME NEW s \in Servers, Closed(n, T, s) PROVE Closed(i, {}, s)
  BY <1>2, <1>5 DEF Closed, Following, Stages, Idle, OnAt
<1>6. GatesAt(n, T)'
  BY <1>5 DEF StageInv, GatesAt
<1>7. StandaloneAt(n, T)'
  <2>1. StandaloneAt(i, {})'
    BY DEF StageInv
  <2>2. CASE i = 1
    <3>1. n = 2 /\ n # Idle /\ T = Standalone
      BY <2>2 DEF Following, OnAt, Idle
    <3> QED
      BY <2>1, <2>2, <3>1 DEF StandaloneAt, Holds
  <2>3. CASE i >= 2
    <3>1. n > 2
      BY <2>3 DEF Following, Idle, Stages
    <3>2. \A s \in Standalone : (awake[s] /\ Holds(s, version))'
      BY <2>1, <2>3 DEF StandaloneAt, Stages, Idle
    <3> QED
      BY <3>1, <3>2, <1>1 DEF StandaloneAt, Stages
  <2> QED
    BY <2>2, <2>3 DEF Stages
<1>8. HybridAt(n, T)'
  BY DEF StageInv, HybridAt, Following, Stages, Idle, OnAt
<1> QED
  BY <1>3, <1>4, <1>6, <1>7, <1>8 DEF StageInv

LEMMA InstructionGoesOn ==
  ASSUME NEW i \in Stages, Place(i), i \notin {7, 13, Idle}, todo \subseteq OnAt(i),
         NEW done, Finished(done), NEW D, D = todo \ done, StageInv(i, D)'
  PROVE  ProgramInv'
<1>1. CASE ~(todo \subseteq done) /\ Place(i)' /\ todo' = todo \ done
  BY <1>1 DEF ProgramInv
<1>2. CASE todo \subseteq done
  <2>1. PICK n \in Following(i) : /\ n \in Stages
                                  /\ Place(n)'
                                  /\ n # Idle => todo' = OnAt(n)
    BY <1>2, FinishedCases
  <2>2. PICK T : T = todo'
    OBVIOUS
  <2>3. D = {}
    BY <1>2
  <2>4. StageInv(n, T)'
    BY <2>1, <2>2, <2>3, StageEnds
  <2>5. StageInv(n, todo)'
    BY <2>2, <2>4
  <2> QED
    BY <2>1, <2>5 DEF ProgramInv
<1> QED
  BY <1>1, <1>2, FinishedCases

LEMMA SameProgram ==
  ASSUME NEW i \in Stages, Place(i), i # Idle => todo \subseteq OnAt(i),
         UNCHANGED <<program, todo>>, NEW T, T = todo, StageInv(i, T)'
  PROVE  ProgramInv'
<1>1. Place(i)'
  BY DEF Place, Left
<1>2. StageInv(i, todo)'
  BY DEF StageInv, GatesAt, Closed, StandaloneAt, HybridAt
<1> QED
  BY <1>1, <1>2 DEF ProgramInv

-----------------------------------------------------------------------------
(* The servers of the pool that take requests.                              *)
LEMMA ServingServer ==
  ASSUME Typed, NEW i \in Stages, StageInv(i, todo), NEW s \in Pool,
         ~Closed(i, todo, s)
  PROVE  /\ s \in Servers /\ awake[s] /\ weights[s] = label[s] /\ weights[s] \in Version
         /\ \A t \in Standalone : weights[t] = weights[s]
<1>1. version \in Nat /\ version \in Version
  BY DEF Typed, Version
<1>2. s \in PoolAt(i)
  BY DEF StageInv
<1>3. CASE s \in Standalone
  <2>1. i # 2
    BY <1>3 DEF Closed
  <2>2. CASE i = 1
    <3>1. version - 1 \in Version
      BY <1>1, <2>2, ServingConstants DEF StageInv, Version, Idle
    <3> QED
      BY <1>3, <2>2, <3>1 DEF StageInv, StandaloneAt, Holds, Servers
  <2>3. CASE i > 2
    BY <1>1, <1>3, <2>3 DEF StageInv, StandaloneAt, Holds, Servers
  <2> QED
    BY <2>1, <2>2, <2>3 DEF Stages
<1>4. CASE s \in Hybrid /\ i \in 8 .. 13
  BY <1>1, <1>4 DEF StageInv, StandaloneAt, HybridAt, Holds, Servers
<1> QED
  BY <1>2, <1>3, <1>4 DEF PoolAt

LEMMA IInvOneVersion == IInv => OneVersion
<1> SUFFICES ASSUME IInv PROVE OneVersion
  OBVIOUS
<1>1. PICK i \in Stages : StageInv(i, todo)
  BY DEF IInv, ProgramInv
<1>2. ASSUME NEW s \in Pool, ~paused[s]
      PROVE  /\ awake[s] /\ weights[s] = label[s]
             /\ \A t \in Standalone : weights[t] = weights[s]
  <2>1. s \in Servers
    BY DEF IInv, Typed
  <2>2. ~Closed(i, todo, s)
    BY <1>1, <1>2, <2>1 DEF StageInv, GatesAt
  <2> QED
    BY <1>1, <2>2, ServingServer DEF IInv
<1>3. PICK u : u \in Standalone
  BY ServingConstants
<1> QED
  BY <1>2, <1>3 DEF OneVersion, IInv, RequestInv, InPool

LEMMA IInvBracket == IInv => VersionsBracket
BY DEF IInv, RequestInv, Brackets, VersionsBracket

LEMMA ProgramTargets ==
  ASSUME NEW i \in Stages, Place(i), NEW k \in DOMAIN program
  PROVE  program[k].on \in {Standalone, Hybrid}
<1>1. CASE program = <<>>
  BY <1>1
<1>2. CASE program \in Seq(Instruction)
  <2>1. k \in 1 .. Len(program)
    BY <1>2, LenProperties
  <2>2. program[k] \in Instruction
    BY <1>2, <2>1, ElementOfSeq
  <2> QED
    BY <2>2 DEF Instruction
<1> QED
  BY <1>1, <1>2 DEF Place, Left

LEMMA IInvType == IInv => TypeOK
<1> SUFFICES ASSUME IInv PROVE TypeOK
  OBVIOUS
<1>1. \A k \in DOMAIN program : program[k].on \in {Standalone, Hybrid}
  BY ProgramTargets DEF IInv, ProgramInv
<1>2. \A r \in Requests :
       /\ req[r].pc \in {"idle", "calling", "running", "answered",
                         "sleeping", "done"}
       /\ req[r].server \in Servers \cup {None}
       /\ req[r].tokens \subseteq Version
       /\ {req[r].steps, req[r].min, req[r].max} \subseteq Version \cup {None}
  BY DEF IInv, Typed, Request
<1> QED
  BY <1>1, <1>2 DEF TypeOK, IInv, Typed

-----------------------------------------------------------------------------
LEMMA InitIInv == Init => IInv
<1> SUFFICES ASSUME Init PROVE IInv
  OBVIOUS
<1> USE ServingConstants
<1>1. Pool = Standalone
  BY DEF Init, Pool
<1>2. 0 \in Version
  BY DEF Version
<1>3. Fresh \in Request
  BY <1>2 DEF Fresh, Request
<1>4. Typed
  BY <1>1, <1>2, <1>3 DEF Init, Typed, Servers
<1>5. Idle \in Stages /\ Place(Idle)
  BY DEF Init, Place, Stages, Idle
<1>6. StageInv(Idle, todo)
  <2>1. \A s \in Servers : ~Closed(Idle, todo, s)
    BY DEF Closed, Idle
  <2>2. GatesAt(Idle, todo)
    BY <2>1 DEF GatesAt
  <2>3. StandaloneAt(Idle, todo)
    <3>1. \A s \in Standalone :
             awake[s] /\ weights[s] = 0 /\ label[s] = 0 /\ version = 0
      BY DEF Init, Servers
    <3> QED
      BY <3>1 DEF StandaloneAt, Holds, Idle
  <2>4. HybridAt(Idle, todo)
    BY DEF HybridAt, Idle
  <2>5. PoolAt(Idle) = Standalone
    BY DEF PoolAt, Idle
  <2> QED
    BY <1>1, <2>2, <2>3, <2>4, <2>5 DEF StageInv
<1>7. AwakeInv
  <2>1. 0 # None
    OBVIOUS
  <2> QED
    BY <2>1 DEF Init, AwakeInv
<1>8. \A r \in Requests : RequestInv(req[r])
  BY DEF Init, Fresh, RequestInv, InPool, NotBehind, Seen, FirstNoted, OneAnswer,
     Answered, Brackets
<1> QED
  BY <1>4, <1>5, <1>6, <1>7, <1>8 DEF IInv, ProgramInv

-----------------------------------------------------------------------------
(* The types.                                                               *)
LEMMA AskedType ==
  ASSUME NEW q \in Request, NEW x \in {"calling", "sleeping", "done"},
         NEW s \in Servers \cup {None}
  PROVE  Asked(q, x, s) \in Request
BY DEF Asked, Request

LEMMA FinishedTodo ==
  ASSUME Typed, NEW i \in Stages, Place(i), i # Idle, NEW done, Finished(done)
  PROVE  (todo \subseteq Servers)'
<1>1. CASE todo' = todo \ done
  BY <1>1 DEF Typed
<1>2. CASE todo \subseteq done /\ ~(todo' = todo \ done)
  <2>1. PICK n \in Following(i) : /\ n \in Stages
                                  /\ Place(n)'
                                  /\ n # Idle => todo' = OnAt(n)
    BY <1>2, FinishedCases
  <2>2. CASE n # Idle
    BY <2>1, <2>2 DEF OnAt, Servers
  <2>3. CASE n = Idle
    <3>1. program' = <<>>
      BY <2>1, <2>3 DEF Place, Idle, Last
    <3> QED
      BY <1>2, <3>1 DEF Finished
  <2> QED
    BY <2>2, <2>3
<1> QED
  BY <1>1, <1>2, FinishedCases

LEMMA TypedStep == IInv /\ [Next]_vars => Typed'
<1> SUFFICES ASSUME IInv, [Next]_vars PROVE Typed'
  OBVIOUS
<1> USE ServingConstants
<1>0. Typed /\ ProgramInv
  BY DEF IInv
<1>1. PICK i \in Stages : Place(i)
  BY <1>0 DEF ProgramInv
<1>2. ASSUME NEW op, At(op), NEW done, Finished(done)
      PROVE  (version \in Version)' /\ (todo \subseteq Servers)'
  BY <1>0, <1>1, <1>2, AtOp, FinishedTodo DEF Finished, Typed
<1>3. ASSUME NEW r \in Requests, NEW q \in Request, req' = [req EXCEPT ![r] = q],
             UNCHANGED <<version, todo, servers, balancer, partial>>,
             releases' \in [Requests -> Servers \cup {None}]
      PROVE  Typed'
  BY <1>0, <1>3 DEF Typed, servers, balancer, Pool, Version
<1>4. CASE Train
  <2>1. version' \in Version
    BY <1>0, <1>4 DEF Train, Typed, Version
  <2> QED
    BY <1>0, <1>4, <2>1 DEF Train, Typed, servers, balancer, Pool, Version, Servers
<1>5. CASE Validated
  <2>1. Fresh \in Request
    BY DEF Fresh, Request
  <2> QED
    BY <1>0, <1>2, <1>5, <2>1 DEF Validated, Typed, servers, Pool, Version
<1>6. CASE AddServers
  <2>1. (inflight \in [Pool -> Nat])' /\ (Pool \in SUBSET Servers)'
    BY <1>0, <1>6 DEF AddServers, Typed, Pool, Servers
  <2> QED
    BY <1>0, <1>2, <1>6, <2>1 DEF AddServers, Typed, servers, Version
<1>7. CASE RemoveServers
  <2>1. (inflight \in [Pool -> Nat])' /\ (Pool \in SUBSET Servers)'
    BY <1>0, <1>7 DEF RemoveServers, Typed, Pool, Servers
  <2>2. req' \in [Requests -> Request]
    <3>1. \A q \in Request : [q EXCEPT !.caught = TRUE] \in Request
      BY DEF Request
    <3> QED
      BY <1>0, <1>7, <3>1 DEF RemoveServers, Typed
  <2> QED
    BY <1>0, <1>2, <1>7, <2>1, <2>2 DEF RemoveServers, Typed, servers, Version
<1>8. ASSUME NEW s \in Servers, Pause(s)
      PROVE  Typed'
  BY <1>0, <1>8 DEF Pause, Typed, trainer, balancer, Pool, Version
<1>9. ASSUME NEW s \in Servers, Drained(s)
      PROVE  Typed'
  BY <1>0, <1>2, <1>9 DEF Drained, Typed, servers, balancer, Pool, Version
<1>10. ASSUME NEW s \in Servers, Load(s)
      PROVE  Typed'
  BY <1>0, <1>10 DEF Load, Typed, trainer, balancer, Pool, Version
<1>11. ASSUME NEW s \in Servers, Label(s)
      PROVE  Typed'
  BY <1>0, <1>2, <1>11 DEF Label, Typed, balancer, Pool, Version
<1>12. ASSUME NEW s \in Servers, Resume(s)
      PROVE  Typed'
  BY <1>0, <1>2, <1>12 DEF Resume, Typed, balancer, Pool, Version
<1>13. ASSUME NEW s \in Servers, Sleep(s)
      PROVE  Typed'
  BY <1>0, <1>2, <1>13 DEF Sleep, Typed, balancer, Pool, Version
<1>14. ASSUME NEW r \in Requests, Acquire(r)
      PROVE  Typed'
  <2>1. PICK s \in Offered(r) :
       /\ sticky' = [sticky EXCEPT ![r] = s]
       /\ inflight' = [t \in Pool |->
                         IF t = s THEN inflight[t] + 1 ELSE inflight[t]]
       /\ req' = [req EXCEPT ![r] = Asked(@, "calling", s)]
    BY <1>14 DEF Acquire
  <2>2. s \in Servers
    BY <1>0, <2>1 DEF Offered, LeastLoaded, Typed
  <2>3. req' \in [Requests -> Request]
    BY <1>0, <2>1, <2>2, AskedType DEF Typed
  <2>4. (inflight \in [Pool -> Nat])' /\ (Pool \in SUBSET Servers)'
    BY <1>0, <2>1 DEF Typed, Pool
  <2> QED
    BY <1>0, <1>14, <2>1, <2>2, <2>3, <2>4 DEF Acquire, Typed, trainer, servers, Version
<1>15. ASSUME NEW r \in Requests, Release(r)
      PROVE  Typed'
  <2>1. (inflight \in [Pool -> Nat])' /\ (Pool \in SUBSET Servers)'
    BY <1>0, <1>15 DEF Release, Typed, Pool
  <2> QED
    BY <1>0, <1>15, <2>1 DEF Release, Typed, trainer, servers, Version
<1>16. ASSUME NEW r \in Requests, Enter(r)
      PROVE  Typed'
  <2>1. [req[r] EXCEPT !.pc = "running"] \in Request
    BY <1>0 DEF Typed, Request
  <2> QED
    BY <1>0, <1>3, <1>16, <2>1 DEF Enter, Typed, trainer
<1>17. ASSUME NEW r \in Requests, Generate(r)
      PROVE  Typed'
  <2>1. req[r] \in Request
    BY <1>0 DEF Typed
  <2>2. req[r].server \in Servers /\ awake[req[r].server]
    BY <1>17 DEF Generate, IInv, RequestInv, InPool
  <2>3. weights[req[r].server] \in Version
    BY <1>0, <2>2 DEF IInv, AwakeInv, Typed
  <2>4. [req[r] EXCEPT !.tokens = @ \cup {weights[req[r].server]}, !.now = TRUE] \in Request
    BY <2>1, <2>3 DEF Request
  <2>5. req' = [req EXCEPT ![r] = [req[r] EXCEPT
                   !.tokens = @ \cup {weights[req[r].server]}, !.now = TRUE]]
    BY <1>0, <1>17 DEF Generate, Typed
  <2> QED
    BY <1>0, <1>3, <1>17, <2>4, <2>5 DEF Generate, Typed, trainer
<1>18. ASSUME NEW r \in Requests, NEW why \in {"aborted", "completed"},
              NEW steps \in Version \cup {None}, Answer(r, why, steps),
              UNCHANGED <<trainer, servers, balancer, releases, partial>>
      PROVE  Typed'
  <2>1. [req[r] EXCEPT !.pc = "answered", !.stop = why, !.steps = steps] \in Request
    <3>1. req[r] \in Request
      BY <1>0 DEF Typed
    <3> QED
      BY <3>1 DEF Request
  <2>2. req' = [req EXCEPT ![r] = [req[r] EXCEPT
                   !.pc = "answered", !.stop = why, !.steps = steps]]
    BY <1>0, <1>18 DEF Answer, Typed
  <2> QED
    BY <1>0, <1>3, <1>18, <2>1, <2>2 DEF Typed, trainer
<1>19. ASSUME NEW r \in Requests, Complete(r) \/ Abort(r)
      PROVE  Typed'
  <2>1. req[r].server \in Servers
    BY <1>19 DEF Complete, Abort, IInv, RequestInv, InPool
  <2>2. label[req[r].server] \in Version \cup {None}
    BY <1>0, <2>1 DEF Typed
  <2> QED
    BY <1>18, <1>19, <2>2 DEF Complete, Abort
<1>20. ASSUME NEW r \in Requests, Merge(r)
      PROVE  Typed'
  <2> DEFINE a == Asked(req[r], IF req[r].stop = "aborted" /\ partial
                                  THEN "sleeping" ELSE "done", None)
             m == [a EXCEPT !.min = IF req[r].min = None THEN req[r].steps ELSE @,
                            !.max = req[r].steps]
  <2>1. req[r] \in Request /\ req[r].server \in Servers
    BY <1>0, <1>20 DEF Merge, Typed, IInv, RequestInv, InPool
  <2>2. a \in Request
    BY <2>1, AskedType
  <2>3. m \in Request
    <3>1. ASSUME NEW b \in Request, NEW x \in Version \cup {None},
                 NEW y \in Version \cup {None}
          PROVE  [b EXCEPT !.min = x, !.max = y] \in Request
      BY DEF Request
    <3>2. a.min \in Version \cup {None} /\ req[r].steps \in Version \cup {None}
      BY <2>1, <2>2 DEF Request
    <3> HIDE DEF a
    <3> QED
      BY <2>2, <3>1, <3>2
  <2>4. req' = [req EXCEPT ![r] = m]
    BY <1>20, Zenon DEF Merge
  <2>5. releases' \in [Requests -> Servers \cup {None}]
    BY <1>0, <1>20, <2>1 DEF Merge, Typed
  <2> QED
    BY <1>3, <1>20, <2>3, <2>4, <2>5 DEF Merge, trainer
<1>21. CASE UNCHANGED vars
  BY <1>0, <1>21 DEF vars, Typed, trainer, servers, balancer, Pool, Version
<1> QED
  BY <1>4, <1>5, <1>6, <1>7, <1>8, <1>9, <1>10, <1>11, <1>12, <1>13, <1>14, <1>15, <1>16,
     <1>17, <1>19, <1>20, <1>21 DEF Next, TrainerStep, RequestStep

LEMMA AwakeStep == IInv /\ [Next]_vars => AwakeInv'
<1> SUFFICES ASSUME IInv, [Next]_vars PROVE AwakeInv'
  OBVIOUS
<1>0. AwakeInv /\ Typed
  BY DEF IInv
<1>1. ASSUME NEW s \in Servers, Load(s)
      PROVE  AwakeInv'
  <2>1. version # None
    BY <1>0, ServingConstants DEF Typed, Version
  <2> QED
    BY <1>0, <1>1, <2>1 DEF Load, AwakeInv, Typed
<1>2. ASSUME NEW s \in Servers, Sleep(s)
      PROVE  AwakeInv'
  BY <1>0, <1>2 DEF Sleep, AwakeInv, Typed
<1>3. CASE UNCHANGED <<awake, weights>>
  BY <1>0, <1>3 DEF AwakeInv
<1> QED
  BY <1>1, <1>2, <1>3 DEF Next, TrainerStep, RequestStep, Train, Validated, AddServers,
     RemoveServers, Pause, Drained, Label, Resume, Acquire, Release, Enter, Generate,
     Complete, Abort, Merge, vars, servers

-----------------------------------------------------------------------------
(* The program and the servers.                                             *)
LEMMA ProgramStep == IInv /\ [Next]_vars => ProgramInv'
<1> SUFFICES ASSUME IInv, [Next]_vars PROVE ProgramInv'
  OBVIOUS
<1> USE ServingConstants
<1>0. Typed /\ AwakeInv
  BY DEF IInv
<1>1. PICK i \in Stages : /\ Place(i)
                          /\ i # Idle => todo \subseteq OnAt(i)
                          /\ StageInv(i, todo)
  BY DEF IInv, ProgramInv
<1>2. /\ Pool = PoolAt(i) /\ (i # Idle => version > 0)
      /\ GatesAt(i, todo) /\ StandaloneAt(i, todo) /\ HybridAt(i, todo)
  BY <1>1 DEF StageInv
<1>3. ASSUME NEW op, At(op)
      PROVE  i # Idle /\ OpAt(i) = op /\ todo \subseteq OnAt(i)
  BY <1>1, <1>3, AtOp
<1>4. PICK T : T = todo
  OBVIOUS
<1>5. ASSUME UNCHANGED <<program, todo>>, StageInv(i, T)'
      PROVE  ProgramInv'
  BY <1>1, <1>4, <1>5, SameProgram
(* The servers stay as they are, and a shut one gets no request.            *)
<1>6. ASSUME UNCHANGED <<version, servers>>, Pool' = Pool,
             \A s \in Servers : paused[s] /\ Running(s) = {} => Running(s)' = {}
      PROVE  \A D \in SUBSET Servers : StageInv(i, D) => StageInv(i, D)'
  BY <1>6 DEF StageInv, GatesAt, StandaloneAt, HybridAt, Holds, servers
<1>7. ASSUME UNCHANGED <<version, program, todo, servers>>, Pool' = Pool,
             \A s \in Servers : paused[s] /\ Running(s) = {} => Running(s)' = {}
      PROVE  ProgramInv'
  BY <1>0, <1>1, <1>4, <1>5, <1>6, <1>7 DEF Typed
<1>8. CASE Train
  <2>1. i = Idle /\ version > -1
    BY <1>0, <1>1, <1>8, AtPlace DEF Train, Typed, Version
  <2>2. Place(1)' /\ 1 \in Stages /\ todo' = OnAt(1) /\ 1 # Idle
    <3>1. program' = Update \/ program' = Update \o Validation
      <4>1. Update \o <<>> = Update
        BY DEF Update
      <4> QED
        BY <1>8, <4>1 DEF Train
    <3> QED
      BY <1>8, <3>1, ProgramStarts DEF Train, OnAt, Stages, Idle
  <2>3. Pool' = PoolAt(1)
    BY <1>2, <1>8, <2>1 DEF Train, Pool, balancer, PoolAt, Idle
  <2>4. version' > 0 /\ version' - 1 = version
    BY <1>0, <1>8 DEF Train, Typed, Version
  <2>5. \A s \in Servers : ~Closed(1, Standalone, s)
    BY DEF Closed
  <2>6. \A s \in Standalone : awake'[s] /\ weights'[s] = version /\ label'[s] = version
    BY <1>2, <1>8, <2>1 DEF Train, StandaloneAt, Holds, servers, Idle
  <2>7. StandaloneAt(1, Standalone)'
    BY <2>4, <2>6 DEF StandaloneAt, Holds
  <2>8. StageInv(1, Standalone)'
    BY <2>3, <2>4, <2>5, <2>7 DEF StageInv, GatesAt, HybridAt
  <2>9. StageInv(1, todo)'
    BY <2>2, <2>8 DEF OnAt
  <2> QED
    BY <2>2, <2>9 DEF ProgramInv
<1>9. CASE Validated
  <2>1. i = 10 /\ todo \subseteq Hybrid
    BY <1>3, <1>9 DEF Validated, OpAt, OnAt
  <2>2. \A s \in Servers : Running(s) = {} => Running(s)' = {}
    BY <1>0, <1>9 DEF Validated, Running, Fresh, Typed
  <2>3. PICK D : D = todo \ Hybrid
    OBVIOUS
  <2>4. StageInv(i, D)
    BY <1>2, <2>1, <2>3 DEF StageInv, GatesAt, Closed, StandaloneAt, HybridAt
  <2>5. StageInv(i, D)'
    BY <1>0, <1>6, <1>9, <2>2, <2>3, <2>4 DEF Validated, Finished, Pool, servers, Typed
  <2> QED
    BY <1>1, <1>9, <2>1, <2>3, <2>5, InstructionGoesOn DEF Validated, Idle, OnAt
<1>10. CASE AddServers
  <2>1. i = 7 /\ todo \subseteq Hybrid
    BY <1>3, <1>10 DEF AddServers, OpAt, OnAt
  <2>2. PICK n \in Following(i) : n \in Stages /\ Place(n)' /\ (n # Idle => todo' = OnAt(n))
    BY <1>1, <1>10, <2>1, FinishedCases DEF AddServers, Idle
  <2>3. n = 8 /\ todo' = Standalone
    BY <2>1, <2>2 DEF Following, OnAt, Idle
  <2>4. Pool' = PoolAt(8)
    BY <1>2, <1>10, <2>1 DEF AddServers, Pool, PoolAt
  <2>5. \A s \in Servers : paused'[s] /\ Running(s)' = {}
    BY <1>2, <1>10, <2>1 DEF AddServers, GatesAt, Closed, Servers, Running, servers
  <2>6. StandaloneAt(8, Standalone)' /\ HybridAt(8, Standalone)' /\ version' > 0
    BY <1>2, <1>10, <2>1 DEF AddServers, Finished, StandaloneAt, HybridAt, Holds, servers, Idle
  <2>7. StageInv(8, Standalone)'
    BY <2>4, <2>5, <2>6 DEF StageInv, GatesAt
  <2>8. StageInv(8, todo)'
    BY <2>3, <2>7
  <2> QED
    BY <2>2, <2>3, <2>8 DEF ProgramInv, OnAt
<1>11. CASE RemoveServers
  <2>1. i = 13 /\ todo \subseteq Hybrid
    BY <1>3, <1>11 DEF RemoveServers, OpAt, OnAt
  <2>2. PICK n \in Following(i) : n \in Stages /\ Place(n)' /\ (n # Idle => todo' = OnAt(n))
    BY <1>1, <1>11, <2>1, FinishedCases DEF RemoveServers, Idle
  <2>3. n = 14 /\ todo' = Hybrid
    BY <2>1, <2>2 DEF Following, OnAt, Idle
  <2>4. Pool' = PoolAt(14)
    BY <1>2, <1>11, <2>1 DEF RemoveServers, Pool, PoolAt
  <2>5. \A s \in Servers : paused'[s] /\ Running(s)' = {}
    <3>1. \A s \in Servers : paused[s] /\ Running(s) = {}
      BY <1>2, <2>1 DEF GatesAt, Closed, Servers
    <3>2. \A s \in Servers : Running(s)' \subseteq Running(s)
      BY <1>0, <1>11 DEF RemoveServers, Running, Typed
    <3> QED
      BY <1>11, <3>1, <3>2 DEF RemoveServers, servers
  <2>6. StandaloneAt(14, Hybrid)' /\ version' > 0
    BY <1>2, <1>11, <2>1 DEF RemoveServers, Finished, StandaloneAt, Holds, servers, Idle
  <2>7. HybridAt(14, Hybrid)'
    BY DEF HybridAt
  <2>8. StageInv(14, Hybrid)'
    BY <2>4, <2>5, <2>6, <2>7 DEF StageInv, GatesAt
  <2>9. StageInv(14, todo)'
    BY <2>3, <2>8
  <2> QED
    BY <2>2, <2>3, <2>9 DEF ProgramInv, OnAt
<1>12. ASSUME NEW s \in Servers, Pause(s)
       PROVE  ProgramInv'
  <2>1. StageInv(i, T)'
    BY <1>0, <1>2, <1>4, <1>12 DEF Pause, StageInv, GatesAt, StandaloneAt, HybridAt, Holds,
       trainer, balancer, Pool, Running, Typed
  <2> QED
    BY <1>5, <1>12, <2>1 DEF Pause, trainer
<1>13. ASSUME NEW s \in Servers, Drained(s)
       PROVE  ProgramInv'
  <2>1. i \in {1, 5, 6, 11, 12} /\ todo \subseteq OnAt(i)
    BY <1>3, <1>13 DEF Drained, OpAt
  <2>2. PICK D : D = todo \ {s}
    OBVIOUS
  <2>3. \A t \in Servers : Closed(i, D, t) => Closed(i, todo, t) \/ t = s
    BY <2>1, <2>2 DEF Closed
  <2>4. GatesAt(i, D)
    BY <1>2, <1>13, <2>3 DEF GatesAt, Drained
  <2>5. StandaloneAt(i, D) /\ HybridAt(i, D)
    BY <1>2, <2>1, <2>2 DEF StandaloneAt, HybridAt
  <2>6. StageInv(i, D)
    BY <1>2, <2>4, <2>5 DEF StageInv
  <2>7. StageInv(i, D)'
    BY <1>0, <1>6, <1>13, <2>2, <2>6 DEF Drained, Finished, Pool, balancer, Typed, Running
  <2> QED
    BY <1>1, <1>13, <2>1, <2>2, <2>7, InstructionGoesOn DEF Drained, Idle
<1>14. ASSUME NEW s \in Servers, Load(s)
       PROVE  ProgramInv'
  <2>1. i \in {2, 4} /\ todo \subseteq OnAt(i) /\ s \in todo
    BY <1>3, <1>14 DEF Load, OpAt
  <2>2. GatesAt(i, T)'
    BY <1>2, <1>4, <1>14 DEF Load, GatesAt, Running
  <2>3. StandaloneAt(i, T)'
    BY <1>0, <1>2, <1>4, <1>14, <2>1 DEF Load, StandaloneAt, Holds, Typed, OnAt, trainer, Servers
  <2>4. HybridAt(i, T)'
    BY <1>0, <1>2, <1>4, <1>14, <2>1 DEF Load, HybridAt, Holds, Typed, trainer, Servers
  <2>5. StageInv(i, T)'
    BY <1>2, <1>14, <2>2, <2>3, <2>4 DEF StageInv, Load, trainer, balancer, Pool
  <2> QED
    BY <1>5, <1>14, <2>5 DEF Load, trainer
<1>15. ASSUME NEW s \in Servers, Label(s)
       PROVE  ProgramInv'
  <2>1. i \in {2, 4} /\ todo \subseteq OnAt(i) /\ s \in todo
    BY <1>3, <1>15 DEF Label, OpAt
  <2>2. PICK D : D = todo \ {s}
    OBVIOUS
  <2>3. \A t \in Servers : Closed(i, D, t) => Closed(i, todo, t)
    BY <2>1 DEF Closed
  <2>4. GatesAt(i, D)'
    BY <1>2, <1>15, <2>3 DEF Label, GatesAt, Running
  <2>5. /\ weights' = weights /\ awake' = awake /\ version' = version
        /\ label' = [label EXCEPT ![s] = version] /\ weights[s] = version
    BY <1>15 DEF Label, Finished
  <2>6. StandaloneAt(i, D)'
    BY <1>0, <1>2, <2>1, <2>2, <2>5 DEF StandaloneAt, Holds, Typed, OnAt, Servers
  <2>7. awake[s]
    <3>1. version # None
      BY <1>0 DEF Typed, Version
    <3> QED
      BY <1>0, <2>5, <3>1 DEF AwakeInv
  <2>8. HybridAt(i, D)'
    BY <1>0, <1>2, <2>1, <2>2, <2>5, <2>7 DEF HybridAt, Holds, Typed, Servers
  <2>9. StageInv(i, D)'
    BY <1>2, <1>15, <2>4, <2>5, <2>6, <2>8 DEF StageInv, Label, balancer, Pool
  <2> QED
    BY <1>1, <1>15, <2>1, <2>2, <2>9, InstructionGoesOn DEF Label, Idle
<1>16. ASSUME NEW s \in Servers, Resume(s)
       PROVE  ProgramInv'
  <2>1. i \in {3, 8, 9, 15, 16} /\ todo \subseteq OnAt(i) /\ s \in todo
    BY <1>3, <1>16 DEF Resume, OpAt
  <2>2. PICK D : D = todo \ {s}
    OBVIOUS
  <2>3. \A t \in Servers : Closed(i, D, t) => Closed(i, todo, t) /\ t # s
    BY <2>1, <2>2 DEF Closed, OnAt
  <2>4. GatesAt(i, D)'
    BY <1>0, <1>2, <1>16, <2>3 DEF Resume, GatesAt, Running, Typed
  <2>5. StandaloneAt(i, D)' /\ HybridAt(i, D)'
    BY <1>2, <1>16, <2>1 DEF Resume, Finished, StandaloneAt, HybridAt, Holds
  <2>6. StageInv(i, D)'
    BY <1>2, <1>16, <2>4, <2>5 DEF StageInv, Resume, Finished, balancer, Pool
  <2> QED
    BY <1>1, <1>16, <2>1, <2>2, <2>6, InstructionGoesOn DEF Resume, Idle
<1>17. ASSUME NEW s \in Servers, Sleep(s)
       PROVE  ProgramInv'
  <2>1. i = 14 /\ todo \subseteq Hybrid /\ s \in todo
    <3>1. i # Idle /\ OpAt(i) = "sleep" /\ todo \subseteq OnAt(i) /\ s \in todo
      BY <1>3, <1>17 DEF Sleep
    <3>2. i = 14
      BY <3>1 DEF OpAt, Stages, Idle
    <3> QED
      BY <3>1, <3>2 DEF OnAt
  <2>2. PICK D : D = todo \ {s}
    OBVIOUS
  <2>3. GatesAt(i, D)'
    BY <1>2, <1>17, <2>1 DEF Sleep, GatesAt, Running, Closed
  <2>4. StandaloneAt(i, D)'
    BY <1>0, <1>2, <1>17, <2>1 DEF Sleep, Finished, StandaloneAt, Holds, Typed, Servers
  <2>5. HybridAt(i, D)'
    BY <2>1 DEF HybridAt
  <2>6. StageInv(i, D)'
    BY <1>2, <1>17, <2>3, <2>4, <2>5 DEF StageInv, Sleep, Finished, balancer, Pool
  <2> QED
    BY <1>1, <1>17, <2>1, <2>2, <2>6, InstructionGoesOn DEF Sleep, Idle, OnAt
<1>18. ASSUME NEW r \in Requests, RequestStep(r)
       PROVE  ProgramInv'
  <2>1. UNCHANGED <<version, program, todo, servers>>
    BY <1>18 DEF RequestStep, Acquire, Release, Enter, Generate, Complete, Abort, Merge,
       trainer
  <2>2. Pool' = Pool
    BY <1>18 DEF RequestStep, Acquire, Release, Enter, Generate, Complete, Abort, Merge,
       Pool, balancer
  <2>3. \A s \in Servers : paused[s] /\ Running(s) = {} => Running(s)' = {}
    <3>1. CASE Enter(r)
      BY <1>0, <3>1 DEF Enter, Running, Typed
    <3>2. CASE Release(r)
      BY <3>2 DEF Release, Running
    <3>3. CASE Acquire(r) \/ Complete(r) \/ Abort(r) \/ Merge(r)
      <4>1. \A x \in Requests : x # r => req'[x] = req[x]
        BY <1>0, <3>3 DEF Acquire, Complete, Abort, Merge, Answer, Typed
      <4>2. req'[r].pc # "running"
        <5>1. req[r] \in Request
          BY <1>0 DEF Typed
        <5>2. CASE Acquire(r)
          BY <1>0, <5>1, <5>2 DEF Acquire, Asked, Typed, Request
        <5>3. CASE Complete(r) \/ Abort(r)
          BY <1>0, <5>1, <5>3 DEF Complete, Abort, Answer, Typed, Request
        <5>4. CASE Merge(r)
          BY <1>0, <5>1, <5>4 DEF Merge, Asked, Typed, Request
        <5> QED
          BY <3>3, <5>2, <5>3, <5>4
      <4> QED
        BY <4>1, <4>2 DEF Running
    <3>4. CASE Generate(r)
      BY <1>0, <3>4 DEF Generate, Running, Typed, Request
    <3> QED
      BY <1>18, <3>1, <3>2, <3>3, <3>4 DEF RequestStep
  <2> QED
    BY <1>7, <2>1, <2>2, <2>3
<1>19. CASE UNCHANGED vars
  <2>1. \A s \in Servers : Running(s)' = Running(s)
    BY <1>19 DEF vars, Running
  <2> QED
    BY <1>7, <1>19, <2>1 DEF vars, trainer, balancer, Pool
<1> QED
  BY <1>8, <1>9, <1>10, <1>11, <1>12, <1>13, <1>14, <1>15, <1>16, <1>17, <1>18, <1>19
    DEF Next, TrainerStep

-----------------------------------------------------------------------------
(* The requests.                                                            *)

(* A request that runs in the pool runs on the weights of all of the pool.  *)
LEMMA RunsOnCurrent ==
  ASSUME IInv, NEW r \in Requests, req[r].pc = "running", ~req[r].caught
  PROVE  LET s == req[r].server IN
         /\ s \in Servers /\ s \in Pool
         /\ weights[s] = label[s] /\ weights[s] \in Version
         /\ \A t \in Standalone : weights[t] = weights[s]
<1>1. PICK i \in Stages : StageInv(i, todo)
  BY DEF IInv, ProgramInv
<1>2. req[r].server \in Servers /\ req[r].server \in Pool
  BY DEF IInv, RequestInv, InPool
<1>3. r \in Running(req[r].server)
  BY DEF Running
<1>4. ~Closed(i, todo, req[r].server)
  BY <1>1, <1>2, <1>3 DEF StageInv, GatesAt
<1> QED
  BY <1>1, <1>2, <1>4, ServingServer DEF IInv

(* A server that changes its weights has no request of the pool.            *)
LEMMA ChangesUnused ==
  ASSUME IInv, NEW s \in Servers, Load(s) \/ Sleep(s), NEW r \in Requests,
         req[r].pc = "running", ~req[r].caught
  PROVE  req[r].server # s
<1>1. PICK i \in Stages : /\ Place(i)
                          /\ i # Idle => todo \subseteq OnAt(i)
                          /\ StageInv(i, todo)
  BY DEF IInv, ProgramInv
<1>2. Running(s) # {} \/ req[r].server # s
  BY DEF Running
<1>3. req[r].server \in Pool
  BY RunsOnCurrent
<1>4. CASE Load(s)
  <2>1. i \in {2, 4} /\ s \in OnAt(i)
    BY <1>1, <1>4, AtOp DEF Load, OpAt
  <2>2. CASE i = 2
    BY <1>1, <1>2, <2>1, <2>2 DEF StageInv, GatesAt, Closed, OnAt
  <2>3. CASE i = 4
    BY <1>1, <1>3, <2>1, <2>3, ServingConstants DEF StageInv, PoolAt, OnAt
  <2> QED
    BY <2>1, <2>2, <2>3
<1>5. CASE Sleep(s)
  BY <1>2, <1>5 DEF Sleep
<1> QED
  BY <1>4, <1>5

(* The weights of the standalone servers only grow.                         *)
LEMMA WeightsGrow ==
  ASSUME IInv, [Next]_vars, NEW s \in Standalone
  PROVE  weights[s] \in Nat /\ weights'[s] \in Nat /\ weights[s] <= weights'[s]
<1>1. PICK i \in Stages : /\ Place(i)
                          /\ i # Idle => todo \subseteq OnAt(i)
                          /\ StageInv(i, todo)
  BY DEF IInv, ProgramInv
<1>2. s \in Servers /\ version \in Nat /\ weights \in [Servers -> Version \cup {None}]
  BY DEF Servers, IInv, Typed, Version
<1>3. weights[s] \in Nat /\ weights[s] <= version
  <2>1. StandaloneAt(i, todo) /\ (i # Idle => version > 0)
    BY <1>1 DEF StageInv
  <2>2. i = 1 \/ i = 2 \/ i > 2
    BY DEF Stages
  <2>3. CASE i \in {1, 2}
    <3>1. weights[s] \in {version - 1, version} /\ version > 0
      BY <2>1, <2>3 DEF StandaloneAt, Holds, Idle
    <3> QED
      BY <1>2, <3>1
  <2>4. CASE i > 2
    BY <1>2, <2>1, <2>4 DEF StandaloneAt, Holds
  <2> QED
    BY <2>2, <2>3, <2>4
<1>4. ASSUME NEW t \in Servers, Load(t)
      PROVE  weights'[s] \in Nat /\ weights[s] <= weights'[s]
  BY <1>2, <1>3, <1>4 DEF Load
<1>5. ASSUME NEW t \in Servers, Sleep(t)
      PROVE  weights'[s] = weights[s]
  <2>1. i # Idle /\ OpAt(i) = "sleep" /\ todo \subseteq OnAt(i) /\ t \in todo
    BY <1>1, <1>5, AtOp DEF Sleep
  <2>2. i = 14
    BY <2>1 DEF OpAt, Stages, Idle
  <2>3. t # s
    BY <2>1, <2>2, ServingConstants DEF OnAt
  <2> QED
    BY <1>2, <1>5, <2>3 DEF Sleep
<1>6. CASE UNCHANGED weights
  BY <1>3, <1>6
<1>7. UNCHANGED weights \/ \E t \in Servers : Load(t) \/ Sleep(t)
  BY DEF Next, TrainerStep, RequestStep, Train, Validated, AddServers, RemoveServers,
     Pause, Drained, Label, Resume, Acquire, Release, Enter, Generate, Complete, Abort,
     Merge, vars, servers
<1> QED
  BY <1>3, <1>4, <1>5, <1>6, <1>7

(* A request that is left alone keeps its invariant.                        *)
LEMMA KeepsRequestInv ==
  ASSUME IInv, [Next]_vars, NEW r \in Requests, req'[r] = req[r],
         req[r].server \in Pool /\ req[r].pc \in {"calling", "running"} /\ ~req[r].caught
           => req[r].server \in Pool'
  PROVE  RequestInv(req[r])'
<1> DEFINE q == req[r]
<1>1. RequestInv(q) /\ partial \in BOOLEAN /\ q \in Request
  BY DEF IInv, Typed
<1>2. partial' = partial
  BY DEF Next, TrainerStep, RequestStep, Train, Validated, AddServers, RemoveServers,
     Pause, Drained, Load, Label, Resume, Sleep, Acquire, Release, Enter, Generate,
     Complete, Abort, Merge, vars, servers
<1>3. InPool(q)'
  BY <1>1 DEF RequestInv, InPool
<1>4. ASSUME ~q.caught
      PROVE  (NotBehind(q) /\ FirstNoted(q) /\ OneAnswer(q) /\ Answered(q) /\ Brackets(q))'
  <2>1. NotBehind(q) /\ FirstNoted(q) /\ OneAnswer(q) /\ Answered(q) /\ Brackets(q)
    BY <1>1, <1>4 DEF RequestInv
  <2>2. NotBehind(q)'
    <3>1. ASSUME NEW v \in Seen(q), NEW s \in Standalone
          PROVE  v <= weights'[s]
      <4>1. v \in Nat
        BY <1>1, <3>1 DEF Seen, Request, Version
      <4>2. v <= weights[s]
        BY <2>1, <3>1 DEF NotBehind
      <4> QED
        BY <4>1, <4>2, WeightsGrow
    <3> QED
      BY <3>1 DEF NotBehind, Seen
  <2>3. FirstNoted(q)'
    <3>1. CASE q.pc = "running"
      <4>1. q.server \in Servers
        BY <1>4, <3>1, RunsOnCurrent
      <4>2. UNCHANGED weights \/ \E t \in Servers : Load(t) \/ Sleep(t)
        BY DEF Next, TrainerStep, RequestStep, Train, Validated, AddServers, RemoveServers,
           Pause, Drained, Label, Resume, Acquire, Release, Enter, Generate, Complete,
           Abort, Merge, vars, servers
      <4>3. weights'[q.server] = weights[q.server]
        <5>1. ASSUME NEW t \in Servers, Load(t) \/ Sleep(t)
              PROVE  weights'[q.server] = weights[q.server]
          <6>1. q.server # t
            BY <1>4, <3>1, <5>1, ChangesUnused
          <6> QED
            BY <4>1, <5>1, <6>1 DEF Load, Sleep, IInv, Typed
        <5> QED
          BY <4>2, <5>1
      <4> QED
        BY <2>1, <4>3 DEF FirstNoted
    <3>2. CASE q.pc # "running"
      BY <2>1, <3>2 DEF FirstNoted
    <3> QED
      BY <3>1, <3>2
  <2> QED
    BY <1>2, <2>1, <2>2, <2>3 DEF OneAnswer, Answered, Brackets
<1> QED
  BY <1>3, <1>4 DEF RequestInv

LEMMA AcquireRequest ==
  ASSUME IInv, [Next]_vars, NEW r \in Requests, Acquire(r)
  PROVE  RequestInv(req[r])'
<1>1. PICK s \in Offered(r) : req' = [req EXCEPT ![r] = Asked(@, "calling", s)]
  BY DEF Acquire
<1>01. PICK q : q = req[r]
  OBVIOUS
<1>02. PICK n : n = req'[r]
  OBVIOUS
<1> USE <1>01, <1>02
<1>2. q \in Request /\ RequestInv(q) /\ s \in Servers /\ s \in Pool
  BY DEF IInv, Typed, Offered, LeastLoaded
<1>3. /\ n.pc = "calling" /\ n.server = s /\ n.steps = None
      /\ n.tokens = q.tokens /\ n.min = q.min /\ n.caught = q.caught
  BY <1>1, <1>2 DEF Asked, IInv, Typed, Request
<1>4. /\ Pool' = Pool /\ weights' = weights /\ partial' = partial
      /\ q.pc \in {"idle", "sleeping"}
  BY DEF Acquire, Pool, servers
<1>5. InPool(n)'
  BY <1>2, <1>3, <1>4 DEF InPool
<1>6. ASSUME ~q.caught
      PROVE  (NotBehind(n) /\ FirstNoted(n) /\ OneAnswer(n) /\ Answered(n) /\ Brackets(n))'
  <2>1. NotBehind(q) /\ FirstNoted(q) /\ OneAnswer(q)
    BY <1>2, <1>6 DEF RequestInv
  <2>2. NotBehind(n)'
    BY <1>3, <1>4, <2>1 DEF NotBehind, Seen
  <2>3. FirstNoted(n)'
    BY <1>3, <1>4, <2>1 DEF FirstNoted
  <2>4. OneAnswer(n)' /\ Answered(n)' /\ Brackets(n)'
    BY <1>3, <1>4, <2>1 DEF OneAnswer, Answered, Brackets
  <2> QED
    BY <2>2, <2>3, <2>4
<1> QED
  BY <1>3, <1>5, <1>6 DEF RequestInv

LEMMA EnterRequest ==
  ASSUME IInv, [Next]_vars, NEW r \in Requests, Enter(r)
  PROVE  RequestInv(req[r])'
<1>01. PICK q : q = req[r]
  OBVIOUS
<1>02. PICK n : n = req'[r]
  OBVIOUS
<1> USE <1>01, <1>02
<1>1. q \in Request /\ RequestInv(q)
  BY DEF IInv, Typed
<1>2. /\ n.pc = "running" /\ n.server = q.server /\ n.steps = q.steps
      /\ n.tokens = q.tokens /\ n.min = q.min /\ n.caught = q.caught
  BY <1>1 DEF Enter, IInv, Typed, Request
<1>3. /\ Pool' = Pool /\ weights' = weights /\ partial' = partial /\ q.pc = "calling"
  BY DEF Enter, Pool, servers, balancer
<1>4. InPool(n)'
  BY <1>1, <1>2, <1>3 DEF RequestInv, InPool
<1>5. ASSUME ~q.caught
      PROVE  (NotBehind(n) /\ FirstNoted(n) /\ OneAnswer(n) /\ Answered(n) /\ Brackets(n))'
  <2>1. NotBehind(q) /\ FirstNoted(q) /\ OneAnswer(q)
    BY <1>1, <1>5 DEF RequestInv
  <2>2. NotBehind(n)'
    BY <1>2, <1>3, <2>1 DEF NotBehind, Seen
  <2>3. FirstNoted(n)'
    BY <1>2, <1>3, <2>1 DEF FirstNoted
  <2>4. OneAnswer(n)' /\ Answered(n)' /\ Brackets(n)'
    BY <1>2, <1>3, <2>1 DEF OneAnswer, Answered, Brackets
  <2> QED
    BY <2>2, <2>3, <2>4
<1> QED
  BY <1>2, <1>4, <1>5 DEF RequestInv

LEMMA GenerateRequest ==
  ASSUME IInv, [Next]_vars, NEW r \in Requests, Generate(r)
  PROVE  RequestInv(req[r])'
<1>01. PICK q : q = req[r]
  OBVIOUS
<1>02. PICK n : n = req'[r]
  OBVIOUS
<1> USE <1>01, <1>02
<1>03. PICK w : w = weights[q.server]
  OBVIOUS
<1> USE <1>03
<1>1. q \in Request /\ RequestInv(q)
  BY DEF IInv, Typed
<1>2. /\ n.pc = "running" /\ n.server = q.server /\ n.steps = q.steps
      /\ n.tokens = q.tokens \cup {w} /\ n.min = q.min /\ n.caught = q.caught /\ n.now = TRUE
  BY <1>1 DEF Generate, IInv, Typed, Request
<1>3. /\ Pool' = Pool /\ weights' = weights /\ partial' = partial /\ q.pc = "running"
  BY DEF Generate, Pool, servers, balancer
<1>4. ~q.caught => w \in Version /\ \A t \in Standalone : weights[t] = w
  BY <1>3, RunsOnCurrent
<1>6. InPool(n)'
  BY <1>1, <1>2, <1>3 DEF RequestInv, InPool
<1>7. ASSUME ~q.caught
      PROVE  (NotBehind(n) /\ FirstNoted(n) /\ OneAnswer(n) /\ Answered(n) /\ Brackets(n))'
  <2>1. NotBehind(q) /\ FirstNoted(q) /\ OneAnswer(q)
    BY <1>1, <1>7 DEF RequestInv
  <2>2. w \in Nat /\ \A t \in Standalone : weights[t] = w
    BY <1>4, <1>7 DEF Version
  <2>3. NotBehind(n)'
    <3>1. ASSUME NEW v \in Seen(n), NEW t \in Standalone
          PROVE  v <= weights[t]
      <4>1. v \in Seen(q) \/ v = w
        BY <1>2, <3>1 DEF Seen
      <4> QED
        BY <2>1, <2>2, <4>1 DEF NotBehind
    <3> QED
      BY <1>3, <3>1 DEF NotBehind, Seen
  <2>4. FirstNoted(n)'
    <3>1. CASE q.min # None
      <4>1. PICK t : t \in Standalone
        BY ServingConstants
      <4>2. q.min <= w
        BY <2>1, <2>2, <3>1, <4>1 DEF NotBehind, Seen
      <4> QED
        BY <1>2, <2>1, <3>1, <4>2 DEF FirstNoted
    <3>2. CASE q.min = None
      BY <1>2, <1>3, <2>1, <3>2 DEF FirstNoted
    <3> QED
      BY <3>1, <3>2
  <2>5. OneAnswer(n)' /\ Answered(n)' /\ Brackets(n)'
    BY <1>2 DEF OneAnswer, Answered, Brackets
  <2> QED
    BY <2>3, <2>4, <2>5
<1> QED
  BY <1>2, <1>6, <1>7 DEF RequestInv

LEMMA AnswerRequest ==
  ASSUME IInv, [Next]_vars, NEW r \in Requests, Complete(r) \/ Abort(r)
  PROVE  RequestInv(req[r])'
<1>01. PICK q : q = req[r]
  OBVIOUS
<1>02. PICK n : n = req'[r]
  OBVIOUS
<1> USE <1>01, <1>02
<1> DEFINE s == q.server
<1>1. q \in Request /\ RequestInv(q) /\ q.pc = "running"
  BY DEF IInv, Typed, Complete, Abort
<1>2. PICK why \in {"aborted", "completed"}, steps \in {label[s], None} :
         /\ Answer(r, why, steps)
         /\ steps = None => steps = label[s] \/ (why = "aborted" /\ ~q.now)
  BY DEF Complete, Abort
<1>3. /\ n.pc = "answered" /\ n.server = q.server /\ n.steps = steps /\ n.stop = why
      /\ n.tokens = q.tokens /\ n.min = q.min /\ n.caught = q.caught
  BY <1>1, <1>2 DEF Answer, IInv, Typed, Request
<1>4. Pool' = Pool /\ weights' = weights /\ partial' = partial
  BY DEF Complete, Abort, Pool, servers, balancer
<1>5. ~q.caught => /\ weights[s] = label[s] /\ weights[s] \in Version
                   /\ \A t \in Standalone : weights[t] = weights[s]
  BY <1>1, RunsOnCurrent
<1>6. InPool(n)'
  BY <1>1, <1>3, <1>4 DEF RequestInv, InPool
<1>7. ASSUME ~q.caught
      PROVE  (NotBehind(n) /\ FirstNoted(n) /\ OneAnswer(n) /\ Answered(n) /\ Brackets(n))'
  <2>1. NotBehind(q) /\ FirstNoted(q) /\ OneAnswer(q)
    BY <1>1, <1>7 DEF RequestInv
  <2>20. PICK w : w = weights[s]
    OBVIOUS
  <2> USE <2>20
  <2>2. w \in Nat /\ w # None /\ label[s] = w /\ \A t \in Standalone : weights[t] = w
    BY <1>5, <1>7, ServingConstants DEF Version
  <2>3. steps = w \/ (steps = None /\ why = "aborted" /\ ~q.now)
    BY <1>2, <2>2
  <2>4. NotBehind(n)'
    <3>1. ASSUME NEW v \in Seen(n), NEW t \in Standalone
          PROVE  v <= weights[t]
      <4>1. v \in Seen(q) \/ v = w
        BY <1>3, <2>3, <3>1 DEF Seen
      <4> QED
        BY <2>1, <2>2, <4>1 DEF NotBehind
    <3> QED
      BY <1>4, <3>1 DEF NotBehind, Seen
  <2>5. q.min = None => \A v \in q.tokens : v = w /\ q.now
    BY <1>1, <2>1 DEF FirstNoted
  <2>6. FirstNoted(n)'
    <3>1. CASE q.min # None
      BY <1>3, <2>1, <3>1 DEF FirstNoted
    <3>2. CASE q.min = None
      BY <1>3, <2>3, <2>5, <3>2 DEF FirstNoted
    <3> QED
      BY <3>1, <3>2
  <2>7. OneAnswer(n)'
    BY <1>1, <1>3, <1>4, <2>1, <2>2, <2>3 DEF OneAnswer
  <2>8. \A v \in q.tokens : v <= w
    <3>1. PICK t : t \in Standalone
      BY ServingConstants
    <3>2. \A v \in q.tokens : v \in Seen(q)
      BY <1>1, ServingConstants DEF Seen, Request, Version
    <3> QED
      BY <2>1, <2>2, <3>1, <3>2 DEF NotBehind
  <2>9. Answered(n)' /\ Brackets(n)'
    BY <1>3, <2>2, <2>3, <2>8 DEF Answered, Brackets
  <2> QED
    BY <2>4, <2>6, <2>7, <2>9
<1> QED
  BY <1>3, <1>6, <1>7 DEF RequestInv

LEMMA MergeRequest ==
  ASSUME IInv, [Next]_vars, NEW r \in Requests, Merge(r)
  PROVE  RequestInv(req[r])'
<1>01. PICK q : q = req[r]
  OBVIOUS
<1>02. PICK n : n = req'[r]
  OBVIOUS
<1> USE <1>01, <1>02
<1>1. q \in Request /\ RequestInv(q) /\ q.pc = "answered"
  BY DEF IInv, Typed, Merge
<1>2. /\ n.pc = IF q.stop = "aborted" /\ partial THEN "sleeping" ELSE "done"
      /\ n.steps = None /\ n.max = q.steps /\ n.tokens = q.tokens
      /\ n.min = (IF q.min = None THEN q.steps ELSE q.min) /\ n.caught = q.caught
  BY <1>1 DEF Merge, Asked, IInv, Typed, Request
<1>3. weights' = weights /\ partial' = partial
  BY DEF Merge, servers
<1>4. InPool(n)'
  BY <1>2 DEF InPool
<1>5. ASSUME ~q.caught
      PROVE  (NotBehind(n) /\ FirstNoted(n) /\ OneAnswer(n) /\ Answered(n) /\ Brackets(n))'
  <2>1. NotBehind(q) /\ FirstNoted(q) /\ OneAnswer(q) /\ Answered(q)
    BY <1>1, <1>5 DEF RequestInv
  <2>2. NotBehind(n)'
    BY <1>2, <1>3, <2>1 DEF NotBehind, Seen
  <2>3. \A v \in q.tokens : v \in Nat /\ v # None
    BY <1>1, ServingConstants DEF Request, Version
  <2>4. /\ n.min # None => \A v \in q.tokens : n.min <= v
        /\ n.min = None => q.tokens = {}
    <3>1. CASE q.min # None
      BY <1>2, <2>1, <3>1 DEF FirstNoted
    <3>2. CASE q.min = None
      <4>1. n.min = q.steps /\ \A v \in q.tokens : v = q.steps
        BY <1>1, <1>2, <2>1, <3>2 DEF FirstNoted
      <4> QED
        BY <2>3, <4>1
    <3> QED
      BY <3>1, <3>2
  <2>5. FirstNoted(n)'
    BY <1>2, <2>4 DEF FirstNoted
  <2>6. OneAnswer(n)' /\ Answered(n)'
    BY <1>2, <1>3 DEF OneAnswer, Answered
  <2>7. Brackets(n)'
    <3> SUFFICES ASSUME n.pc = "done", q.tokens # {}
                 PROVE  /\ n.min # None /\ n.max # None
                        /\ \A v \in q.tokens : n.min <= v /\ v <= n.max
      BY <1>2 DEF Brackets
    <3>1. q.stop = "completed" \/ ~partial
      BY <1>1, <1>2, <2>1 DEF Answered
    <3>2. q.steps # None
      BY <1>1, <2>1, <3>1 DEF Answered, OneAnswer
    <3>3. \A v \in q.tokens : v <= q.steps
      BY <1>1, <2>1, <3>2 DEF Answered
    <3> QED
      BY <1>2, <2>4, <3>2, <3>3
  <2> QED
    BY <2>2, <2>5, <2>6, <2>7
<1> QED
  BY <1>2, <1>4, <1>5 DEF RequestInv

LEMMA RequestsStep == IInv /\ [Next]_vars => (\A x \in Requests : RequestInv(req[x]))'
<1> SUFFICES ASSUME IInv, [Next]_vars, NEW x \in Requests
             PROVE  RequestInv(req[x])'
  OBVIOUS
<1>0. Typed
  BY DEF IInv
<1>1. CASE Validated
  <2>1. CASE x \in Validators
    <3>1. req'[x] = Fresh
      BY <1>1, <2>1 DEF Validated
    <3> QED
      BY <3>1 DEF Fresh, RequestInv, InPool, NotBehind, Seen, FirstNoted, OneAnswer,
         Answered, Brackets
  <2>2. CASE x \notin Validators
    BY <1>1, <2>2, KeepsRequestInv DEF Validated, Pool
  <2> QED
    BY <2>1, <2>2
<1>2. CASE RemoveServers
  <2>1. RequestInv(req[x]) /\ req[x] \in Request
    BY <1>0 DEF IInv, Typed
  <2>2. CASE req[x].pc = "calling" /\ req[x].server \in Hybrid
    <3>1. req'[x] = [req[x] EXCEPT !.caught = TRUE]
      BY <1>2, <2>2 DEF RemoveServers
    <3> QED
      BY <2>1, <3>1 DEF RequestInv, InPool, Request
  <2>3. CASE ~(req[x].pc = "calling" /\ req[x].server \in Hybrid)
    <3>1. req'[x] = req[x] /\ Pool' = Pool \ Hybrid
      BY <1>2, <2>3 DEF RemoveServers, Pool
    <3>2. req[x].pc = "running" => req[x].server \notin Hybrid
      <4>1. PICK i \in Stages : /\ Place(i)
                                /\ StageInv(i, todo)
        BY DEF IInv, ProgramInv
      <4>2. i = 13
        BY <1>2, <4>1, AtOp DEF RemoveServers, OpAt
      <4>3. \A s \in Hybrid : Running(s) = {}
        BY <4>1, <4>2 DEF StageInv, GatesAt, Closed, Servers
      <4> QED
        BY <4>3 DEF Running
    <3> QED
      BY <2>3, <3>1, <3>2, KeepsRequestInv
  <2> QED
    BY <2>2, <2>3
<1>3. CASE UNCHANGED req /\ Pool \subseteq Pool'
  BY <1>3, KeepsRequestInv
<1>4. ASSUME NEW r \in Requests,
             Acquire(r) \/ Enter(r) \/ Generate(r) \/ Complete(r) \/ Abort(r) \/ Merge(r)
      PROVE  RequestInv(req[x])'
  <2>1. CASE x = r
    BY <1>4, <2>1, AcquireRequest, EnterRequest, GenerateRequest, AnswerRequest,
       MergeRequest
  <2>2. CASE x # r
    <3>1. req'[x] = req[x]
      BY <1>0, <1>4, <2>2 DEF Acquire, Enter, Generate, Complete, Abort, Answer, Merge,
         Typed
    <3>2. Pool' = Pool
      BY <1>4 DEF Acquire, Enter, Generate, Complete, Abort, Merge, balancer, Pool
    <3> QED
      BY <3>1, <3>2, KeepsRequestInv
  <2> QED
    BY <2>1, <2>2
<1>5. CASE AddServers
  BY <1>3, <1>5 DEF AddServers, Pool
<1>6. CASE UNCHANGED <<req, balancer>>
  BY <1>3, <1>6 DEF balancer, Pool
<1>7. ASSUME NEW r \in Requests, Release(r)
      PROVE  RequestInv(req[x])'
  BY <1>3, <1>7 DEF Release, Pool
<1> QED
  BY <1>1, <1>2, <1>4, <1>5, <1>6, <1>7 DEF Next, TrainerStep, RequestStep, Train, Pause,
     Drained, Load, Label, Resume, Sleep, vars

LEMMA NextIInv == IInv /\ [Next]_vars => IInv'
BY TypedStep, AwakeStep, ProgramStep, RequestsStep DEF IInv

-----------------------------------------------------------------------------
(* The types; the load balancer's counts never go below zero.               *)
THEOREM TypeCorrect == Spec => []TypeOK
<1>1. Init => IInv
  BY InitIInv
<1>2. IInv /\ [Next]_vars => IInv'
  BY NextIInv
<1> QED
  BY <1>1, <1>2, IInvType, PTL DEF Spec

(* The servers of the pool that take requests hold one version, awake and   *)
(* under its label.                                                         *)
THEOREM PoolServesOneVersion == Spec => []OneVersion
<1>1. Init => IInv
  BY InitIInv
<1>2. IInv /\ [Next]_vars => IInv'
  BY NextIInv
<1> QED
  BY <1>1, <1>2, IInvOneVersion, PTL DEF Spec

(* The two versions that the client notes bracket those of all tokens.      *)
THEOREM NotedVersionsBracket == Spec => []VersionsBracket
<1>1. Init => IInv
  BY InitIInv
<1>2. IInv /\ [Next]_vars => IInv'
  BY NextIInv
<1> QED
  BY <1>1, <1>2, IInvBracket, PTL DEF Spec
=============================================================================
