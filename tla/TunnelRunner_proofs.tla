------------------------ MODULE TunnelRunner_proofs -------------------------
(***************************************************************************)
(* Proofs about the table of instances: a shutdown leaves no tunnel of the *)
(* table behind, apart from what its time limits give up on, and, as long  *)
(* as the key of a deleted profile is not used again, no two instances     *)
(* hold a run of the same profile and a deleted profile's tunnel is on its *)
(* way out.                                                                *)
(***************************************************************************)
EXTENDS TunnelRunner, FiniteSetTheorems, TLAPS

Insts == [key: Keys, phase: Phases, port: Ports \cup {0}]

\* A goroutine is where its operation can be, and past the look-up it holds an
\* instance.
StartPcs == {"bind", "check", "launch", "return"}
HaltPcs  == {"lookup", "halt"}

InPlace(r, ids) ==
  /\ r.op = "start" <=> r.pc \in StartPcs
  /\ r.op \in {"stop", "remove"} <=> r.pc \in HaltPcs
  /\ r.pc \in (StartPcs \cup HaltPcs) \ {"bind", "lookup"} => r.id \in ids

TasksInv == \A t \in Tasks : InPlace(task[t], Ids)

\* The table maps a key to an instance of that key.
TableInv == \A k \in Keys : insts[k] # 0 => insts[k] \in Ids /\ inst[insts[k]].key = k

Typed == TypeOK /\ IsFiniteSet(Ids) /\ TasksInv /\ TableInv

-----------------------------------------------------------------------------
(***************************************************************************)
(* Types.                                                                  *)
(***************************************************************************)
LEMMA IdleFields ==
  /\ Idle \in [op: Ops, key: Keys, raw: BOOLEAN, id: {0},
               pc: {"idle", "bind", "check", "launch", "return", "lookup", "halt"}]
  /\ Idle.op = "none" /\ Idle.pc = "idle" /\ Idle.id = 0
<1>1. (CHOOSE k \in Keys : TRUE) \in Keys
  BY KeysAssumption
<1> QED BY <1>1 DEF Idle, Ops

LEMMA InitTyped == Init => Typed
<1> SUFFICES ASSUME Init PROVE Typed
  OBVIOUS
<1>1. Ids = {} /\ 1..0 = {} /\ IsFiniteSet({}) /\ Cardinality({}) = 0
  BY FS_EmptySet DEF Init, Ids
<1>2. task \in [Tasks -> [op: Ops, key: Keys, raw: BOOLEAN, id: Ids \cup {0},
                          pc: {"idle", "bind", "check", "launch", "return",
                               "lookup", "halt"}]]
  BY <1>1, IdleFields DEF Init
<1>3. inst \in [Ids -> Insts] /\ insts \in [Keys -> Ids \cup {0}]
  BY <1>1 DEF Init, Ids
<1>4. profile \in [Keys -> Profiles \cup {Absent(raw) : raw \in BOOLEAN}]
  BY DEF Init
<1>5. TypeOK
  BY <1>1, <1>2, <1>3, <1>4 DEF Init, TypeOK, Insts
<1>6. TasksInv /\ TableInv
  BY <1>1, IdleFields DEF Init, TasksInv, InPlace, TableInv, StartPcs, HaltPcs
<1> QED BY <1>1, <1>5, <1>6 DEF Typed

\* One instance changes its phase.
LEMMA PhaseFields ==
  ASSUME Typed, NEW i \in Ids, NEW p \in Phases, SetPhase(i, p)
  PROVE  /\ Ids' = Ids /\ inst' \in [Ids -> Insts]
         /\ inst'[i].phase = p
         /\ \A j \in Ids : inst'[j].key = inst[j].key
         /\ \A j \in Ids \ {i} : inst'[j] = inst[j]
BY DEF Typed, TypeOK, Insts, SetPhase, Ids

\* One goroutine moves.
TaskTypes == [op: Ops, key: Keys, raw: BOOLEAN, id: Ids \cup {0},
              pc: {"idle", "bind", "check", "launch", "return", "lookup", "halt"}]

LEMMA TaskFields ==
  ASSUME Typed, NEW t \in Tasks, NEW r, SetTask(t, r)
  PROVE  task'[t] = r /\ \A u \in Tasks \ {t} : task'[u] = task[u]
BY DEF Typed, TypeOK, SetTask

LEMMA RequestFields ==
  ASSUME Typed, NEW t \in Tasks, NEW op \in Ops, NEW k \in Keys,
         NEW pc \in {"bind", "lookup"}, Request(t, op, pc, k)
  PROVE  /\ server = "serving" /\ task[t] = Idle
         /\ task' \in [Tasks -> TaskTypes]
         /\ \A u \in Tasks \ {t} : task'[u] = task[u]
         /\ task'[t].op = op /\ task'[t].pc = pc /\ task'[t].key = k
         /\ task'[t].raw \in BOOLEAN
<1>1. PICK raw \in BOOLEAN : SetTask(t, [op |-> op, pc |-> pc, key |-> k, raw |-> raw, id |-> 0])
  BY DEF Request
<1>2. [op |-> op, pc |-> pc, key |-> k, raw |-> raw, id |-> 0] \in TaskTypes
  BY DEF TaskTypes
<1>3. task' \in [Tasks -> TaskTypes]
  BY <1>1, <1>2 DEF SetTask, Typed, TypeOK, TaskTypes
<1> QED BY <1>1, <1>3, TaskFields DEF Request

\* A goroutine that goes on keeps its operation, profile and spelling.
LEMMA GoesOn ==
  ASSUME NEW r \in TaskTypes, NEW pc \in {"check", "launch", "return", "halt"},
         NEW i \in Ids
  PROVE  /\ [r EXCEPT !.pc = pc] \in TaskTypes
         /\ [r EXCEPT !.pc = pc].pc = pc /\ [r EXCEPT !.pc = pc].op = r.op
         /\ [r EXCEPT !.pc = pc].key = r.key /\ [r EXCEPT !.pc = pc].raw = r.raw
         /\ [r EXCEPT !.pc = pc].id = r.id
         /\ [r EXCEPT !.pc = pc, !.id = i] \in TaskTypes
         /\ [r EXCEPT !.pc = pc, !.id = i].pc = pc
         /\ [r EXCEPT !.pc = pc, !.id = i].op = r.op
         /\ [r EXCEPT !.pc = pc, !.id = i].key = r.key
         /\ [r EXCEPT !.pc = pc, !.id = i].raw = r.raw
         /\ [r EXCEPT !.pc = pc, !.id = i].id = i
BY DEF TaskTypes

\* A step that binds no instance keeps the types, if what it changes is typed,
\* keys of instances stay, and entries of the table are at most cleared.
LEMMA TypedKept ==
  ASSUME Typed, Ids' = Ids,
         profile' \in [Keys -> Profiles \cup {Absent(raw) : raw \in BOOLEAN}],
         insts' \in [Keys -> Ids \cup {0}],
         \A k \in Keys : insts'[k] \in {insts[k], 0},
         inst' \in [Ids -> Insts],
         \A j \in Ids : inst'[j].key = inst[j].key,
         task' \in [Tasks -> TaskTypes],
         \A t \in Tasks : task'[t] = task[t] \/ InPlace(task'[t], Ids),
         server' \in {"serving", "draining", "stopping", "exited"},
         snapshot' \subseteq Ids, gaveUp' \subseteq Ids, left' \subseteq Keys
  PROVE  Typed'
<1>1. TypeOK'
  BY DEF Typed, TypeOK, Insts, TaskTypes
<1>2. TasksInv'
  BY DEF Typed, TasksInv, InPlace
<1>3. TableInv'
  BY DEF Typed, TypeOK, TableInv
<1> QED BY <1>1, <1>2, <1>3 DEF Typed

\* What TypedKept asks of the variables a step leaves alone.
LEMMA TypedFacts ==
  ASSUME Typed
  PROVE  /\ profile \in [Keys -> Profiles \cup {Absent(raw) : raw \in BOOLEAN}]
         /\ insts \in [Keys -> Ids \cup {0}] /\ inst \in [Ids -> Insts]
         /\ task \in [Tasks -> TaskTypes]
         /\ snapshot \subseteq Ids /\ gaveUp \subseteq Ids /\ left \subseteq Keys
         /\ server \in {"serving", "draining", "stopping", "exited"}
         /\ 0 \notin Ids
<1>1. 0 \notin Ids
  <2>1. Ids = 1..Cardinality(Ids) /\ Cardinality(Ids) \in Nat
    BY FS_CardinalityType DEF Typed, TypeOK
  <2> QED BY <2>1
<1> QED BY <1>1 DEF Typed, TypeOK, Insts, TaskTypes

LEMMA ProfileTyped ==
  ASSUME Typed, NEW k \in Keys,
         NEW p \in Profiles \cup {Absent(raw) : raw \in BOOLEAN},
         profile' = [profile EXCEPT ![k] = p],
         insts' = insts, inst' = inst, server' = server, ending' = ending,
         task' \in [Tasks -> TaskTypes],
         \A t \in Tasks : task'[t] = task[t] \/ InPlace(task'[t], Ids)
  PROVE  Typed'
<1>1. Ids' = Ids
  BY DEF Ids
<1>2. profile' \in [Keys -> Profiles \cup {Absent(raw) : raw \in BOOLEAN}]
  BY TypedFacts
<1>3. \A j \in Ids : inst'[j].key = inst[j].key
  OBVIOUS
<1>4. /\ insts' \in [Keys -> Ids \cup {0}] /\ inst' \in [Ids -> Insts]
      /\ \A j \in Keys : insts'[j] \in {insts[j], 0}
      /\ server' \in {"serving", "draining", "stopping", "exited"}
      /\ snapshot' \subseteq Ids /\ gaveUp' \subseteq Ids /\ left' \subseteq Keys
  BY TypedFacts DEF ending
<1> QED BY <1>1, <1>2, <1>3, <1>4, TypedKept

\* A step of one goroutine.
LEMMA TaskStepTyped ==
  ASSUME Typed, NEW t \in Tasks, NEW r \in TaskTypes, SetTask(t, r), InPlace(r, Ids),
         profile' = profile, insts' = insts, server' = server, ending' = ending,
         Ids' = Ids, inst' \in [Ids -> Insts],
         \A j \in Ids : inst'[j].key = inst[j].key
  PROVE  Typed'
<1>1. task' \in [Tasks -> TaskTypes]
  BY TypedFacts DEF SetTask
<1>2. \A u \in Tasks : task'[u] = task[u] \/ InPlace(task'[u], Ids)
  BY TaskFields
<1> QED BY <1>1, <1>2, TypedFacts, TypedKept DEF ending

LEMMA IdleTyped == ASSUME Typed PROVE Idle \in TaskTypes /\ InPlace(Idle, Ids)
BY IdleFields DEF TaskTypes, InPlace, StartPcs, HaltPcs

LEMMA SaveProfileTyped ==
  ASSUME Typed, NEW k \in Keys, SaveProfile(k) PROVE Typed'
<1>1. PICK p \in Profiles \ {profile[k]} : profile' = [profile EXCEPT ![k] = p]
  BY DEF SaveProfile
<1> QED BY <1>1, ProfileTyped, TypedFacts DEF SaveProfile

LEMMA DeleteProfileTyped ==
  ASSUME Typed, NEW t \in Tasks, NEW k \in Keys, DeleteProfile(t, k) PROVE Typed'
<1> USE DEF DeleteProfile
<1>1. Absent(task'[t].raw) \in Profiles \cup {Absent(raw) : raw \in BOOLEAN}
  BY RequestFields DEF Ops
<1>2. InPlace(task'[t], Ids)
  BY RequestFields DEF Ops, InPlace, StartPcs, HaltPcs
<1> QED BY <1>1, <1>2, ProfileTyped, RequestFields DEF Ops

LEMMA RequestTyped ==
  ASSUME Typed, NEW t \in Tasks, NEW k \in Keys, StartRequest(t, k) \/ StopRequest(t, k)
  PROVE  Typed'
<1>1. /\ task' \in [Tasks -> TaskTypes] /\ InPlace(task'[t], Ids)
      /\ \A u \in Tasks \ {t} : task'[u] = task[u]
  BY RequestFields DEF Ops, InPlace, StartPcs, HaltPcs, StartRequest, StopRequest
<1>2. UNCHANGED <<profile, insts, inst, server, ending>> /\ Ids' = Ids
  BY DEF StartRequest, StopRequest, Ids
<1> QED BY <1>1, <1>2, TypedFacts, TypedKept DEF ending

\* What Bind does to the table: the instance of the profile is an old one or a
\* new one, which idles.
LEMMA BindEffect ==
  ASSUME Typed, NEW t \in Tasks, Bind(t)
  PROVE  \E i : /\ i \in Ids \/ (i = Cardinality(Ids) + 1 /\ i \notin Ids)
                /\ i \in Nat \ {0}
                /\ insts[task[t].key] = i \/ (insts[task[t].key] = 0 /\ i \notin Ids)
                /\ Ids' = Ids \cup {i}
                /\ insts' = [insts EXCEPT ![task[t].key] = i]
                /\ inst' \in [Ids' -> Insts]
                /\ \A j \in Ids : inst'[j] = inst[j]
                /\ inst'[i].key = task[t].key
                /\ i \notin Ids => inst'[i].phase = "idle"
                /\ SetTask(t, [task[t] EXCEPT !.pc = "check", !.id = i])
<1> DEFINE k == task[t].key
           n == Cardinality(Ids)
           i == IF insts[k] # 0 THEN insts[k] ELSE n + 1
<1>1. /\ inst' = [j \in Ids \cup {i} |-> IF j \in Ids THEN inst[j]
                    ELSE [key |-> k, phase |-> "idle", port |-> 0]]
      /\ insts' = [insts EXCEPT ![k] = i]
      /\ SetTask(t, [task[t] EXCEPT !.pc = "check", !.id = i])
  BY DEF Bind
<1>2. k \in Keys
  BY TypedFacts DEF TaskTypes
<1>3. Ids = 1..n /\ n \in Nat /\ n + 1 \notin Ids
  <2>1. Ids = 1..n /\ n \in Nat
    BY FS_CardinalityType DEF Typed, TypeOK
  <2> QED BY <2>1
<1>4. /\ i \in Ids \/ (i = n + 1 /\ i \notin Ids)
      /\ i \in Nat \ {0} /\ (insts[k] = i \/ (insts[k] = 0 /\ i \notin Ids))
      /\ i \in Ids => inst[i].key = k
  <2>1. insts[k] # 0 => insts[k] \in Ids /\ inst[insts[k]].key = k
    BY <1>2 DEF Typed, TableInv
  <2>2. \A j \in Ids : j \in Nat \ {0}
    BY <1>3
  <2>3. n + 1 \in Nat \ {0}
    BY <1>3
  <2>4. CASE insts[k] # 0
    <3>1. i = insts[k] /\ i \in Ids /\ inst[i].key = k
      BY <2>1, <2>4
    <3> QED BY <2>2, <3>1
  <2>5. CASE insts[k] = 0
    BY <1>3, <2>3, <2>5
  <2> QED BY <2>4, <2>5
<1> HIDE DEF i
<1>5. Ids' = Ids \cup {i}
  BY <1>1 DEF Ids
<1>6. [key |-> k, phase |-> "idle", port |-> 0] \in Insts
  BY <1>2 DEF Insts, Phases
<1>7. inst' \in [Ids' -> Insts]
  BY <1>1, <1>5, <1>6, TypedFacts
<1>8. inst'[i].key = k /\ (i \notin Ids => inst'[i].phase = "idle")
  BY <1>1, <1>4
<1>9. \A j \in Ids : inst'[j] = inst[j]
  BY <1>1
<1> WITNESS i
<1> QED BY <1>1, <1>4, <1>5, <1>7, <1>8, <1>9

LEMMA BindTyped == ASSUME Typed, NEW t \in Tasks, Bind(t) PROVE Typed'
<1> DEFINE k == task[t].key
           n == Cardinality(Ids)
<1>0. PICK i : /\ i \in Ids \/ (i = n + 1 /\ i \notin Ids)
               /\ Ids' = Ids \cup {i}
               /\ insts' = [insts EXCEPT ![k] = i]
               /\ inst' \in [Ids' -> Insts]
               /\ \A j \in Ids : inst'[j] = inst[j]
               /\ inst'[i].key = k
               /\ SetTask(t, [task[t] EXCEPT !.pc = "check", !.id = i])
  BY BindEffect
<1>1. Ids = 1..n /\ n \in Nat /\ IsFiniteSet(Ids)
  BY FS_CardinalityType DEF Typed, TypeOK
<1>2. k \in Keys
  BY TypedFacts DEF TaskTypes
<1>3. Ids' = 1..Cardinality(Ids') /\ IsFiniteSet(Ids')
  <2>1. CASE i \in Ids
    <3>1. Ids' = Ids
      BY <2>1, <1>0
    <3> QED BY <1>1, <3>1
  <2>2. CASE i \notin Ids
    <3>1. i = n + 1 /\ Ids' = Ids \cup {n + 1}
      BY <1>2, <2>2, <1>0
    <3>2. IsFiniteSet(Ids') /\ Cardinality(Ids') = n + 1
      BY <1>1, <2>2, <3>1, FS_AddElement
    <3>3. Ids' = 1..(n + 1)
      BY <1>1, <3>1
    <3> QED BY <3>2, <3>3
  <2> QED BY <2>1, <2>2
<1>4. InPlace([task[t] EXCEPT !.pc = "check", !.id = i], Ids')
  BY TypedFacts, <1>0 DEF TaskTypes, InPlace, StartPcs, HaltPcs, Bind
<1>5. [task[t] EXCEPT !.pc = "check", !.id = i] \in TaskTypes'
  <2>1. task[t] \in TaskTypes /\ i \in Ids' /\ Ids \subseteq Ids'
    BY TypedFacts, <1>0
  <2> QED BY <2>1 DEF TaskTypes
<1>6. task' \in [Tasks -> TaskTypes']
  BY <1>5, <1>0, TypedFacts DEF TaskTypes, SetTask
<1>7. TypeOK'
  <2>1. insts' \in [Keys -> Ids' \cup {0}]
    BY <1>2, <1>0, TypedFacts
  <2>2. /\ snapshot' \subseteq Ids' /\ gaveUp' \subseteq Ids' /\ left' \subseteq Keys
        /\ UNCHANGED <<profile, server>>
    BY <1>0, TypedFacts DEF Bind, ending
  <2> QED BY <1>3, <1>6, <2>1, <2>2, <1>0, TypedFacts DEF TypeOK, TaskTypes, Insts
<1>8. TasksInv'
  <2> SUFFICES ASSUME NEW u \in Tasks PROVE InPlace(task'[u], Ids')
    BY DEF TasksInv
  <2>1. CASE u = t
    BY <2>1, <1>4, <1>0, TaskFields
  <2>2. CASE u # t
    BY <2>2, <1>0, TaskFields DEF Typed, TasksInv, InPlace
  <2> QED BY <2>1, <2>2
<1>9. TableInv'
  <2> SUFFICES ASSUME NEW j \in Keys, insts'[j] # 0
               PROVE  insts'[j] \in Ids' /\ inst'[insts'[j]].key = j
    BY DEF TableInv
  <2>1. CASE j = k
    <3>1. insts'[j] = i
      BY <2>1, <1>0, TypedFacts
    <3> QED BY <2>1, <3>1, <1>0
  <2>2. CASE j # k
    BY <2>2, <1>0, TypedFacts DEF Typed, TableInv
  <2> QED BY <2>1, <2>2
<1> QED BY <1>3, <1>7, <1>8, <1>9 DEF Typed

LEMMA TaskTyped ==
  ASSUME Typed, NEW t \in Tasks, CheckPort(t) \/ Launch(t) \/ StartReturns(t) \/ Halt(t)
  PROVE  Typed'
<1>1. task[t] \in TaskTypes /\ InPlace(task[t], Ids) /\ inst \in [Ids -> Insts]
  BY TypedFacts DEF Typed, TasksInv
<1>2. CASE CheckPort(t)
  <2> DEFINE r == IF PortConflict(task[t].key) THEN Idle
                  ELSE [task[t] EXCEPT !.pc = "launch"]
  <2>1. r \in TaskTypes /\ InPlace(r, Ids)
    <3>1. [task[t] EXCEPT !.pc = "launch"] \in TaskTypes
      BY <1>1 DEF TaskTypes
    <3>2. InPlace([task[t] EXCEPT !.pc = "launch"], Ids)
      BY <1>1, <1>2 DEF CheckPort, TaskTypes, InPlace, StartPcs, HaltPcs
    <3> QED BY <3>1, <3>2, IdleTyped
  <2>2. Ids' = Ids
    BY <1>2 DEF CheckPort, Ids
  <2> HIDE DEF r
  <2>3. SetTask(t, r)
    BY <1>2 DEF CheckPort, r
  <2> QED BY <1>1, <1>2, <2>1, <2>2, <2>3, TaskStepTyped DEF CheckPort
<1>3. CASE Launch(t)
  <2>1. task[t].id \in Ids
    BY <1>1, <1>3 DEF Launch, InPlace, StartPcs, HaltPcs
  <2>2. CASE inst[task[t].id].phase \in {"idle", "pending"}
    <3>1. SetPhase(task[t].id, "launching") /\ SetTask(t, [task[t] EXCEPT !.pc = "return"])
      BY <1>3, <2>2 DEF Launch
    <3>2. InPlace([task[t] EXCEPT !.pc = "return"], Ids)
      BY <1>1, <1>3 DEF Launch, TaskTypes, InPlace, StartPcs, HaltPcs
    <3>3. [task[t] EXCEPT !.pc = "return"] \in TaskTypes
      BY <1>1 DEF TaskTypes
    <3>4. /\ Ids' = Ids /\ inst' \in [Ids -> Insts]
          /\ \A j \in Ids : inst'[j].key = inst[j].key
      BY <2>1, <3>1, PhaseFields DEF Phases
    <3> QED BY <1>3, <3>1, <3>2, <3>3, <3>4, TaskStepTyped DEF Launch
  <2>3. CASE inst[task[t].id].phase \notin {"idle", "pending"}
    <3>1. UNCHANGED inst /\ SetTask(t, Idle) /\ Ids' = Ids
      BY <1>3, <2>3 DEF Launch, Ids
    <3> QED BY <1>1, <1>3, <3>1, IdleTyped, TaskStepTyped DEF Launch
  <2> QED BY <2>2, <2>3
<1>4. CASE StartReturns(t)
  <2>1. Ids' = Ids
    BY <1>4 DEF StartReturns, Ids
  <2> QED BY <1>1, <1>4, <2>1, IdleTyped, TaskStepTyped DEF StartReturns
<1>5. CASE Halt(t)
  <2>1. task[t].id \in Ids
    BY <1>1, <1>5 DEF Halt, InPlace, StartPcs, HaltPcs
  <2>2. Stopped(inst[task[t].id].phase) \in Phases
    BY DEF Stopped, Phases
  <2>3. /\ Ids' = Ids /\ inst' \in [Ids -> Insts]
        /\ \A j \in Ids : inst'[j].key = inst[j].key
    BY <1>5, <2>1, <2>2, PhaseFields DEF Halt
  <2> QED BY <1>5, <2>3, IdleTyped, TaskStepTyped DEF Halt
<1> QED BY <1>2, <1>3, <1>4, <1>5

LEMMA LookupTyped == ASSUME Typed, NEW t \in Tasks, Lookup(t) PROVE Typed'
<1> DEFINE k == task[t].key
           i == IF Resolves(t) THEN insts[k] ELSE 0
           r == IF i = 0 THEN Idle ELSE [task[t] EXCEPT !.pc = "halt", !.id = i]
<1>1. task[t] \in TaskTypes /\ k \in Keys /\ i \in Ids \cup {0} /\ Ids' = Ids
  BY TypedFacts DEF TaskTypes, Lookup, Ids
<1>2. SetTask(t, r) /\ UNCHANGED <<profile, inst, server, ending>>
  BY DEF Lookup
<1>3. insts' = insts \/ insts' = [insts EXCEPT ![k] = 0]
  BY DEF Lookup
<1>4. r \in TaskTypes /\ InPlace(r, Ids)
  <2>1. CASE i = 0
    BY <2>1, IdleTyped
  <2>2. CASE i # 0
    <3>1. i \in Ids /\ r = [task[t] EXCEPT !.pc = "halt", !.id = i]
      BY <1>1, <2>2
    <3>2. InPlace(task[t], Ids) /\ task[t].pc = "lookup"
      BY DEF Typed, TasksInv, Lookup
    <3> HIDE DEF r, i
    <3>3. r.pc = "halt" /\ r.op = task[t].op /\ r.id = i /\ r \in TaskTypes
      BY <1>1, <3>1 DEF TaskTypes
    <3> QED BY <3>1, <3>2, <3>3 DEF InPlace, StartPcs, HaltPcs
  <2> QED BY <2>1, <2>2
<1> HIDE DEF r, i
<1>5. task' \in [Tasks -> TaskTypes]
  BY <1>2, <1>4, TypedFacts DEF SetTask
<1>6. \A u \in Tasks : task'[u] = task[u] \/ InPlace(task'[u], Ids)
  BY <1>2, <1>4, TaskFields
<1>7. insts' \in [Keys -> Ids \cup {0}] /\ \A j \in Keys : insts'[j] \in {insts[j], 0}
  BY <1>1, <1>3, TypedFacts
<1> QED BY <1>1, <1>2, <1>5, <1>6, <1>7, TypedFacts, TypedKept DEF ending

\* What an instance does by itself.
LEMMA InstEffect ==
  ASSUME Typed, NEW i \in Ids, InstStep(i) \/ RunEnds(i)
  PROVE  /\ UNCHANGED <<profile, insts, task, server, left, gaveUp>> /\ Ids' = Ids
         /\ snapshot' = snapshot \/ (snapshot' = snapshot \ {i} /\ inst'[i].phase = "idle")
         /\ inst' \in [Ids -> Insts]
         /\ \A j \in Ids : inst'[j].key = inst[j].key
         /\ \A j \in Ids \ {i} : inst'[j] = inst[j]
         /\ Occupied(i)' => Occupied(i) \/ Present(inst[i].key)
         /\ inst[i].phase # "idle"
         /\ inst[i].phase = "stopping" => inst'[i].phase = "idle"
<1>1. CASE ReadOptions(i)
  <2> DEFINE p == profile[inst[i].key]
  <2>1. inst[i] \in Insts /\ p \in Profiles \cup {Absent(raw) : raw \in BOOLEAN}
    BY TypedFacts DEF Insts
  <2>2. p.port \in Ports \cup {0} /\ (p.usable => p.here)
    <3> HIDE DEF p
    <3>1. CASE p \in Profiles
      BY <3>1 DEF Profiles
    <3>2. ASSUME NEW raw \in BOOLEAN, p = Absent(raw)
          PROVE  p.port \in Ports \cup {0} /\ (p.usable => p.here)
      BY <3>2 DEF Absent
    <3> QED BY <2>1, <3>1, <3>2
  <2> DEFINE r == IF p.usable THEN [inst[i] EXCEPT !.phase = "ready", !.port = p.port]
                              ELSE [inst[i] EXCEPT !.phase = "idle"]
  <2>3. inst' = [inst EXCEPT ![i] = r] /\ UNCHANGED <<profile, insts, task, server, ending>>
    BY <1>1 DEF ReadOptions
  <2>4. /\ r \in Insts /\ r.key = inst[i].key
        /\ r.phase \in {"ready", "idle"} /\ (r.phase = "ready" => p.usable)
    BY <2>1, <2>2 DEF Insts, Phases
  <2> HIDE DEF r, p
  <2>5. inst'[i] = r /\ Ids' = Ids /\ inst' \in [Ids -> Insts]
        /\ \A j \in Ids \ {i} : inst'[j] = inst[j]
    BY <2>3, <2>4, TypedFacts DEF Ids
  <2>6. Occupied(i)' => Present(inst[i].key)
    BY <2>2, <2>4, <2>5 DEF Occupied, Present, p
  <2>7. inst[i].phase = "launching"
    BY <1>1 DEF ReadOptions
  <2> QED BY <2>3, <2>4, <2>5, <2>6, <2>7 DEF ending
<1>2. CASE PublishRun(i)
  BY <1>2, PhaseFields DEF PublishRun, Occupied, Phases, ending
<1>3. CASE RestartDue(i)
  BY <1>3, PhaseFields DEF RestartDue, Occupied, Phases, ending
<1>4. CASE RunStopped(i)
  BY <1>4, PhaseFields DEF RunStopped, Occupied, Phases
<1>5. CASE RunEnds(i)
  BY <1>5, PhaseFields DEF RunEnds, Occupied, Phases, ending
<1>6. CASE RestartDropped(i)
  BY <1>6, PhaseFields DEF RestartDropped, Occupied, Phases, ending
<1> QED BY <1>1, <1>2, <1>3, <1>4, <1>5, <1>6 DEF InstStep

LEMMA InstTyped ==
  ASSUME Typed, NEW i \in Ids, InstStep(i) \/ RunEnds(i) PROVE Typed'
BY InstEffect, TypedFacts, TypedKept

\* Shutdown stops the instances of the table and waits for those with a run.
LEMMA StopAllEffect ==
  ASSUME Typed, StopAll
  PROVE  /\ UNCHANGED <<profile, insts, task, gaveUp>> /\ Ids' = Ids
         /\ inst' \in [Ids -> Insts]
         /\ \A j \in Ids : inst'[j].key = inst[j].key
         /\ \A j \in Ids : inst'[j] = inst[j] \/ inst'[j].phase = Stopped(inst[j].phase)
         /\ \A j \in Started : inst'[j].phase = Stopped(inst[j].phase)
         /\ snapshot' = {i \in Started : Running(i)} /\ Started \subseteq Ids
         /\ left' = {task[t].key : t \in {u \in Tasks : task[u].op = "start"}}
         /\ left' \subseteq Keys
<1>1. Started \subseteq Ids
  BY TypedFacts DEF Started
<1>2. \A j \in Ids : inst'[j] = IF j \in Started THEN [inst[j] EXCEPT !.phase = Stopped(@)]
                                                  ELSE inst[j]
  BY DEF StopAll
<1>3. \A j \in Ids : /\ inst[j] \in Insts
                     /\ [inst[j] EXCEPT !.phase = Stopped(@)] \in Insts
                     /\ [inst[j] EXCEPT !.phase = Stopped(@)].phase = Stopped(inst[j].phase)
                     /\ [inst[j] EXCEPT !.phase = Stopped(@)].key = inst[j].key
  BY TypedFacts DEF Insts, Phases, Stopped
<1>4. Ids' = Ids /\ inst' \in [Ids -> Insts]
  BY <1>2, <1>3 DEF StopAll, Ids
<1>5. left' \subseteq Keys
  BY TypedFacts DEF StopAll, TaskTypes
<1> QED BY <1>1, <1>2, <1>3, <1>4, <1>5 DEF StopAll

LEMMA GivesUpEffect ==
  ASSUME Typed, NEW i \in Ids, StopGivesUp(i)
  PROVE  /\ UNCHANGED <<profile, insts, inst, task, server, left>> /\ Ids' = Ids
         /\ snapshot' = snapshot \ {i} /\ gaveUp' = gaveUp \cup {i}
BY DEF StopGivesUp, Ids

LEMMA ServerTyped ==
  ASSUME Typed, ShutdownSignal \/ StopAll \/ Exit \/ \E i \in Ids : StopGivesUp(i)
  PROVE  Typed'
<1>1. CASE ShutdownSignal
  <2>1. Ids' = Ids
    BY <1>1 DEF ShutdownSignal, Ids
  <2> QED BY <1>1, <2>1, TypedFacts, TypedKept DEF ShutdownSignal, ending
<1>2. CASE StopAll
  <2>1. server' = "stopping" /\ snapshot' \subseteq Ids
    BY <1>2, StopAllEffect DEF StopAll
  <2> QED BY <1>2, <2>1, StopAllEffect, TypedFacts, TypedKept
<1>3. CASE Exit
  <2>1. Ids' = Ids
    BY <1>3 DEF Exit, Ids
  <2> QED BY <1>3, <2>1, TypedFacts, TypedKept DEF Exit, ending
<1>4. ASSUME NEW i \in Ids, StopGivesUp(i) PROVE Typed'
  BY <1>4, GivesUpEffect, TypedFacts, TypedKept
<1> QED BY <1>1, <1>2, <1>3, <1>4

LEMMA StepTyped == ASSUME Typed, [Next]_vars PROVE Typed'
<1>1. ASSUME NEW t \in Tasks, NEW k \in Keys,
             DeleteProfile(t, k) \/ StartRequest(t, k) \/ StopRequest(t, k)
      PROVE  Typed'
  BY <1>1, DeleteProfileTyped, RequestTyped
<1>2. ASSUME NEW k \in Keys, SaveProfile(k) PROVE Typed'
  BY <1>2, SaveProfileTyped
<1>3. ASSUME NEW t \in Tasks, TaskStep(t) PROVE Typed'
  BY <1>3, BindTyped, TaskTyped, LookupTyped DEF TaskStep
<1>4. ASSUME NEW i \in Ids, InstStep(i) \/ RunEnds(i) PROVE Typed'
  BY <1>4, InstTyped
<1>5. ASSUME UNCHANGED vars PROVE Typed'
  BY <1>5 DEF vars, ending, Typed, TypeOK, TasksInv, TableInv, Ids, Present
<1> QED BY <1>1, <1>2, <1>3, <1>4, <1>5, ServerTyped DEF Next

\* What every step has to its disposal.
THEOREM TablesAreSound == Spec => []Typed
<1>1. Init => Typed
  BY InitTyped
<1>2. Typed /\ [Next]_vars => Typed'
  BY StepTyped
<1> QED BY <1>1, <1>2, PTL DEF Spec

-----------------------------------------------------------------------------
(***************************************************************************)
(* A shutdown.  What Runner.Shutdown stopped only a start request that was *)
(* under way when http.Server.Shutdown gave up can launch again; every     *)
(* other instance of the table stays stopped, and has a run only while a   *)
(* Stop waits for it or after that Stop has timed out.                     *)
(***************************************************************************)

\* A goroutine that starts a tunnel holds an instance of its own profile.
HeldInv ==
  \A t \in Tasks : task[t].pc \in {"check", "launch", "return"} =>
                    inst[task[t].id].key = task[t].key

\* Instance i stays as Runner.Shutdown left it.
Halted(i) ==
  \/ inst[i].phase = "idle"
  \/ inst[i].phase = "stopping" /\ i \in snapshot \cup gaveUp

HaltInv ==
  /\ server \in {"stopping", "exited"} =>
       /\ \A t \in Tasks : task[t].op = "start" => task[t].key \in left
       /\ \A k \in Keys \ left : insts[k] # 0 => Halted(insts[k])
  /\ server = "exited" => snapshot = {}

\* Stopping what is stopped already changes nothing.
LEMMA StoppedStays ==
  /\ Stopped("idle") = "idle" /\ Stopped("stopping") = "stopping"
  /\ \A p \in Phases : Stopped(p) \in {"idle", "stopping"}
  /\ \A p \in Phases : Stopped(p) = "stopping" => p \in {"up", "stopping"}
BY DEF Stopped, Phases

\* Keys of instances never change, and a goroutine takes an instance from the
\* table or makes it.
LEMMA KeysStay ==
  ASSUME Typed, Ids \subseteq Ids', \A j \in Ids : inst'[j].key = inst[j].key, HeldInv,
         \A t \in Tasks :
           \/ task'[t].pc \notin {"check", "launch", "return"}
           \/ task'[t] = task[t]
           \/ /\ task[t].pc \in {"check", "launch"}
              /\ task'[t].id = task[t].id /\ task'[t].key = task[t].key
  PROVE  HeldInv'
<1>1. \A t \in Tasks : task[t].pc \in {"check", "launch", "return"} => task[t].id \in Ids
  BY DEF Typed, TasksInv, InPlace, StartPcs, HaltPcs
<1> QED BY <1>1 DEF HeldInv

LEMMA HeldKept == ASSUME Typed, HeldInv, [Next]_vars PROVE HeldInv'
<1>1. ASSUME NEW t \in Tasks, NEW k \in Keys,
             DeleteProfile(t, k) \/ StartRequest(t, k) \/ StopRequest(t, k)
      PROVE  HeldInv'
  <2>1. task'[t].pc \in {"bind", "lookup"} /\ \A u \in Tasks \ {t} : task'[u] = task[u]
    BY <1>1, RequestFields DEF DeleteProfile, StartRequest, StopRequest, Ops
  <2>2. inst' = inst /\ Ids' = Ids
    BY <1>1 DEF DeleteProfile, StartRequest, StopRequest, Ids
  <2> QED BY <2>1, <2>2, KeysStay
<1>2. ASSUME NEW k \in Keys, SaveProfile(k) PROVE HeldInv'
  BY <1>2 DEF SaveProfile, HeldInv
<1>3. ASSUME NEW t \in Tasks, Bind(t) PROVE HeldInv'
  <2>1. PICK i : /\ Ids' = Ids \cup {i} /\ inst'[i].key = task[t].key
                 /\ \A j \in Ids : inst'[j] = inst[j]
                 /\ SetTask(t, [task[t] EXCEPT !.pc = "check", !.id = i])
    BY <1>3, BindEffect
  <2>2. task[t] \in TaskTypes
    BY TypedFacts
  <2>3. /\ task'[t].id = i /\ task'[t].key = task[t].key
        /\ \A u \in Tasks \ {t} : task'[u] = task[u]
    <3> DEFINE r == [task[t] EXCEPT !.pc = "check", !.id = i]
    <3>1. r.id = i /\ r.key = task[t].key
      BY <2>2 DEF TaskTypes
    <3>2. SetTask(t, r)
      BY <2>1
    <3> HIDE DEF r
    <3> QED BY <3>1, <3>2, TaskFields
  <2>4. \A u \in Tasks : task[u].pc \in {"check", "launch", "return"} => task[u].id \in Ids
    BY DEF Typed, TasksInv, InPlace, StartPcs, HaltPcs
  <2> QED BY <2>1, <2>3, <2>4 DEF HeldInv
<1>4. ASSUME NEW t \in Tasks,
             CheckPort(t) \/ Launch(t) \/ StartReturns(t) \/ Lookup(t) \/ Halt(t)
      PROVE  HeldInv'
  <2>1. task[t] \in TaskTypes /\ Idle.pc = "idle"
    BY TypedFacts, IdleFields
  <2>2. PICK r : /\ SetTask(t, r)
                 /\ \/ r.pc \in {"idle", "halt"}
                    \/ /\ task[t].pc \in {"check", "launch"}
                       /\ r.id = task[t].id /\ r.key = task[t].key
    <3>1. CASE CheckPort(t)
      BY <2>1, <3>1 DEF CheckPort, TaskTypes
    <3>2. CASE Launch(t)
      BY <2>1, <3>2 DEF Launch, TaskTypes
    <3>3. CASE StartReturns(t) \/ Halt(t)
      BY <2>1, <3>3 DEF StartReturns, Halt
    <3>4. CASE Lookup(t)
      <4> DEFINE i == IF Resolves(t) THEN insts[task[t].key] ELSE 0
                 r == IF i = 0 THEN Idle ELSE [task[t] EXCEPT !.pc = "halt", !.id = i]
      <4>1. SetTask(t, r)
        BY <3>4 DEF Lookup
      <4>2. [task[t] EXCEPT !.pc = "halt", !.id = i].pc = "halt"
        BY <2>1 DEF TaskTypes
      <4>3. r.pc \in {"idle", "halt"}
        BY <2>1, <4>2
      <4> QED BY <4>1, <4>3
    <3> QED BY <1>4, <3>1, <3>2, <3>3, <3>4
  <2>3. Ids' = Ids /\ \A j \in Ids : inst'[j].key = inst[j].key
    <3>1. CASE inst' = inst
      BY <3>1 DEF Ids
    <3>2. ASSUME NEW p \in Phases, NEW i \in Ids, SetPhase(i, p)
          PROVE  Ids' = Ids /\ \A j \in Ids : inst'[j].key = inst[j].key
      BY <3>2, PhaseFields
    <3>3. task[t].pc \in {"launch", "halt"} => task[t].id \in Ids
      BY DEF Typed, TasksInv, InPlace, StartPcs, HaltPcs
    <3>4. \A p : Stopped(p) \in Phases
      BY DEF Stopped, Phases
    <3> QED BY <1>4, <3>1, <3>2, <3>3, <3>4 DEF CheckPort, Launch, StartReturns, Lookup, Halt, Phases
  <2> QED BY <2>2, <2>3, TaskFields, KeysStay
<1>5. ASSUME NEW i \in Ids, InstStep(i) \/ RunEnds(i) PROVE HeldInv'
  BY <1>5, InstEffect, KeysStay
<1>6. ASSUME NEW i \in Ids, StopGivesUp(i) PROVE HeldInv'
  BY <1>6 DEF StopGivesUp, HeldInv
<1>7. CASE StopAll
  BY <1>7, StopAllEffect, KeysStay
<1>8. CASE ShutdownSignal \/ Exit \/ UNCHANGED vars
  BY <1>8 DEF ShutdownSignal, Exit, vars, HeldInv
<1> QED BY <1>1, <1>2, <1>3, <1>4, <1>5, <1>6, <1>7, <1>8 DEF Next, TaskStep

LEMMA HaltKept == ASSUME Typed, HeldInv, HaltInv, [Next]_vars PROVE HaltInv'
<1>1. CASE StopAll
  <2>1. \A t \in Tasks : task'[t].op = "start" => task'[t].key \in left'
    BY <1>1, StopAllEffect
  <2>2. ASSUME NEW k \in Keys, insts[k] # 0 PROVE Halted(insts[k])'
    <3> DEFINE i == insts[k]
    <3>1. i \in Started /\ i \in Ids /\ inst[i].phase \in Phases /\ insts' = insts
      BY <1>1, <2>2, StopAllEffect, TypedFacts DEF Started, Insts
    <3>2. /\ inst'[i].phase = Stopped(inst[i].phase)
          /\ inst[i].phase \in {"up", "stopping"} => i \in snapshot'
      BY <1>1, <3>1, StopAllEffect DEF Running
    <3> QED BY <3>1, <3>2, StoppedStays DEF Halted
  <2> QED BY <1>1, <2>1, <2>2, StopAllEffect DEF StopAll, HaltInv
<1>2. CASE Exit
  BY <1>2 DEF Exit, HaltInv, Halted, ending
<1>3. CASE UNCHANGED vars
  BY <1>3 DEF vars, ending, HaltInv, Halted
<1>4. ASSUME NEW i \in Ids, StopGivesUp(i) PROVE HaltInv'
  BY <1>4, GivesUpEffect DEF HaltInv, Halted
<1>5. ASSUME NEW i \in Ids, InstStep(i) \/ RunEnds(i) PROVE HaltInv'
  <2> USE <1>5, InstEffect
  <2>1. server = "exited" => snapshot' = {}
    BY DEF HaltInv
  <2>2. ASSUME server \in {"stopping", "exited"},
               NEW k \in Keys \ left, insts[k] # 0
        PROVE  Halted(insts[k])'
    <3>1. Halted(insts[k]) /\ insts[k] \in Ids
      BY <2>2, TypedFacts DEF HaltInv
    <3>2. CASE insts[k] = i
      BY <3>1, <3>2 DEF Halted
    <3>3. CASE insts[k] # i
      BY <3>1, <3>3 DEF Halted
    <3> QED BY <3>2, <3>3
  <2>3. /\ server' = server /\ left' = left /\ task' = task /\ insts' = insts
    OBVIOUS
  <2> QED BY <2>1, <2>2, <2>3 DEF HaltInv
<1>6. ASSUME server \notin {"stopping", "exited"}, server' \notin {"stopping", "exited"}
      PROVE  HaltInv'
  BY <1>6 DEF HaltInv
<1>7. ASSUME NEW t \in Tasks, TaskStep(t), server \in {"stopping", "exited"} PROVE HaltInv'
  <2>0. /\ \A u \in Tasks : task[u].op = "start" => task[u].key \in left
        /\ \A k \in Keys \ left : insts[k] # 0 => Halted(insts[k])
        /\ server = "exited" => snapshot = {}
        /\ task[t] \in TaskTypes /\ InPlace(task[t], Ids)
    BY <1>7, TypedFacts DEF HaltInv, Typed, TasksInv
  <2>1. CASE Bind(t)
    <3>1. PICK i : /\ \A j \in Ids : inst'[j] = inst[j]
                   /\ insts' = [insts EXCEPT ![task[t].key] = i]
                   /\ SetTask(t, [task[t] EXCEPT !.pc = "check", !.id = i])
      BY <2>1, BindEffect
    <3>2. task[t].key \in left /\ UNCHANGED <<server, ending>>
      BY <2>0, <2>1 DEF Bind
    <3> DEFINE r == [task[t] EXCEPT !.pc = "check", !.id = i]
    <3>3. r.key = task[t].key /\ SetTask(t, r)
      BY <2>0, <3>1 DEF TaskTypes
    <3> HIDE DEF r
    <3>4. \A u \in Tasks : task'[u].op = "start" => task'[u].key \in left
      BY <2>0, <3>2, <3>3, TaskFields
    <3>5. \A k \in Keys \ left : insts[k] \in Ids \cup {0} /\ insts'[k] = insts[k]
      BY <3>1, <3>2, TypedFacts
    <3> QED BY <2>0, <3>1, <3>2, <3>4, <3>5 DEF HaltInv, Halted, ending
  <2>2. CASE CheckPort(t) \/ StartReturns(t)
    <3>1. PICK r : SetTask(t, r) /\ r \in {Idle, [task[t] EXCEPT !.pc = "launch"]}
      BY <2>2 DEF CheckPort, StartReturns
    <3>2. r.op = "start" => task[t].op = "start" /\ r.key = task[t].key
      BY <2>0, <3>1, IdleFields DEF TaskTypes
    <3>3. \A u \in Tasks : task'[u].op = "start" => task'[u].key \in left
      BY <2>0, <3>1, <3>2, TaskFields
    <3>4. UNCHANGED <<insts, inst, server, ending>>
      BY <2>2 DEF CheckPort, StartReturns
    <3> QED BY <2>0, <3>3, <3>4 DEF HaltInv, Halted, ending
  <2>3. CASE Launch(t)
    <3> DEFINE id == task[t].id
    <3>1. /\ task[t].op = "start" /\ id \in Ids /\ inst[id].key = task[t].key
          /\ task[t].key \in left
      BY <2>0, <2>3 DEF Launch, InPlace, StartPcs, HaltPcs, HeldInv
    <3>2. PICK r : SetTask(t, r) /\ r \in {Idle, [task[t] EXCEPT !.pc = "return"]}
      BY <2>3 DEF Launch
    <3>3. r.op = "start" => r.key = task[t].key
      BY <2>0, <3>2, IdleFields DEF TaskTypes
    <3>4. \A u \in Tasks : task'[u].op = "start" => task'[u].key \in left
      BY <2>0, <3>1, <3>2, <3>3, TaskFields
    <3>5. \A j \in Ids \ {id} : inst'[j] = inst[j]
      BY <2>3, <3>1, PhaseFields DEF Launch, Phases
    <3>6. \A k \in Keys \ left : insts[k] # 0 => insts[k] \in Ids \ {id}
      BY <3>1 DEF Typed, TableInv
    <3>7. UNCHANGED <<insts, server, ending>>
      BY <2>3 DEF Launch
    <3> QED BY <2>0, <3>4, <3>5, <3>6, <3>7 DEF HaltInv, Halted, ending
  <2>4. CASE Lookup(t)
    <3> DEFINE i == IF Resolves(t) THEN insts[task[t].key] ELSE 0
               r == IF i = 0 THEN Idle ELSE [task[t] EXCEPT !.pc = "halt", !.id = i]
    <3>1. task[t].op # "start"
      BY <2>0, <2>4 DEF Lookup, InPlace, StartPcs
    <3>2. [task[t] EXCEPT !.pc = "halt", !.id = i].op = task[t].op
      BY <2>0 DEF TaskTypes
    <3>3. r.op # "start"
      BY <3>1, <3>2, IdleFields
    <3>4. SetTask(t, r) /\ UNCHANGED <<inst, server, ending>>
      BY <2>4 DEF Lookup
    <3>5. insts' = insts \/ insts' = [insts EXCEPT ![task[t].key] = 0]
      BY <2>4 DEF Lookup
    <3> HIDE DEF r, i
    <3>6. \A u \in Tasks : task'[u].op = "start" => task'[u].key \in left
      BY <2>0, <3>3, <3>4, TaskFields
    <3>7. \A k \in Keys : insts'[k] # 0 => insts'[k] = insts[k]
      BY <3>5, TypedFacts
    <3> QED BY <2>0, <3>4, <3>6, <3>7 DEF HaltInv, Halted, ending
  <2>5. CASE Halt(t)
    <3> DEFINE id == task[t].id
    <3>1. id \in Ids /\ inst[id].phase \in Phases
      BY <2>0, <2>5, TypedFacts DEF Halt, InPlace, StartPcs, HaltPcs, Insts
    <3>2. /\ inst'[id].phase = Stopped(inst[id].phase)
          /\ \A j \in Ids \ {id} : inst'[j] = inst[j]
      BY <2>5, <3>1, StoppedStays, PhaseFields DEF Halt, Phases
    <3>3. \A u \in Tasks : task'[u].op = "start" => task'[u].key \in left
      BY <2>0, <2>5, TaskFields, IdleFields DEF Halt
    <3>4. UNCHANGED <<insts, server, ending>>
      BY <2>5 DEF Halt
    <3>5. ASSUME NEW k \in Keys \ left, insts[k] # 0 PROVE Halted(insts[k])'
      <4>1. Halted(insts[k]) /\ insts[k] \in Ids
        BY <2>0, <3>5, TypedFacts
      <4>2. inst'[insts[k]].phase = inst[insts[k]].phase
        BY <3>2, <4>1, StoppedStays DEF Halted
      <4> QED BY <3>4, <4>1, <4>2 DEF Halted, ending
    <3> QED BY <2>0, <3>3, <3>4, <3>5 DEF HaltInv, ending
  <2> QED BY <1>7, <2>1, <2>2, <2>3, <2>4, <2>5 DEF TaskStep
<1>8. ASSUME NEW t \in Tasks, NEW k \in Keys,
             DeleteProfile(t, k) \/ StartRequest(t, k) \/ StopRequest(t, k)
      PROVE  server = "serving" /\ server' = server
  BY <1>8 DEF DeleteProfile, StartRequest, StopRequest, Request
<1>9. ASSUME NEW k \in Keys, SaveProfile(k) PROVE server = "serving" /\ server' = server
  BY <1>9 DEF SaveProfile
<1>10. ASSUME NEW t \in Tasks, TaskStep(t) PROVE server' = server
  BY <1>10 DEF TaskStep, Bind, CheckPort, Launch, StartReturns, Lookup, Halt
<1>11. ShutdownSignal => server = "serving" /\ server' = "draining"
  BY DEF ShutdownSignal
<1> QED
  BY <1>1, <1>2, <1>3, <1>4, <1>5, <1>6, <1>7, <1>8, <1>9, <1>10, <1>11 DEF Next

\* The shutdown of main.go leaves no tunnel of the table running or about to,
\* save what its two time limits leave: a start request that outlasted
\* http.Server.Shutdown is on its own, and a run whose Stop timed out is
\* cancelled but may still be there.  What Shutdown stopped nobody else starts
\* again.
THEOREM ShutdownLeavesNothing == Spec => []ShutdownIsComplete
<1>1. Init => Typed /\ HeldInv /\ HaltInv
  BY InitTyped, IdleFields DEF Init, HeldInv, HaltInv
<1>2. Typed /\ HeldInv /\ HaltInv /\ [Next]_vars => (Typed /\ HeldInv /\ HaltInv)'
  BY StepTyped, HeldKept, HaltKept
<1>3. HaltInv => ShutdownIsComplete
  BY DEF HaltInv, Halted, ShutdownIsComplete
<1> QED BY <1>1, <1>2, <1>3, PTL DEF Spec

-----------------------------------------------------------------------------
(***************************************************************************)
(* One tunnel of a profile.  The hypothesis is the case the code is built  *)
(* for: nobody creates a profile under the key of a deleted one while its  *)
(* tunnel is still being removed.                                          *)
(***************************************************************************)
KeysAreFresh == ~ReuseKeys

\* A request that removes a tunnel follows the deletion of its profile, which
\* recorded how it spelled the key.
RemovedInv ==
  \A t \in Tasks : task[t].op = "remove" =>
    ~Present(task[t].key) /\ (task[t].raw => profile[task[t].key].raw)

\* The table knows the one instance of a profile that exists.
PresentInv == \A i \in Ids : Present(inst[i].key) => insts[inst[i].key] = i

\* An instance with a run is in the table, or a removal has it in its hands.
HasRemover(i) ==
  \E t \in Tasks : /\ task[t].op = "remove" /\ task[t].pc = "halt"
                   /\ task[t].id = i /\ task[t].key = inst[i].key

ForgottenInv == \A i \in Ids : Occupied(i) => insts[inst[i].key] = i \/ HasRemover(i)

TableIsComplete ==
  RemovedInv /\ PresentInv /\ ForgottenInv
  /\ OneInstancePerProfile /\ DeletedProfileIsStopped

LEMMA InitComplete == Init => TableIsComplete
<1> SUFFICES ASSUME Init PROVE TableIsComplete
  OBVIOUS
<1>1. Ids = {}
  BY DEF Init, Ids
<1>2. \A t \in Tasks : task[t].op # "remove"
  BY IdleFields DEF Init
<1> QED BY <1>1, <1>2 DEF TableIsComplete, RemovedInv, PresentInv, ForgottenInv,
             OneInstancePerProfile, DeletedProfileIsStopped

\* A step that gives a run to no instance but one of a profile that exists, and
\* of the removals at most ends one that has halted its instance.
LEMMA CompleteKept ==
  ASSUME Typed, TableIsComplete, Ids' = Ids,
         profile' = profile, insts' = insts,
         \A i \in Ids : inst'[i].key = inst[i].key,
         \A i \in Ids : Occupied(i)' => Occupied(i) \/ Present(inst[i].key),
         \A t \in Tasks :
           \/ task'[t] = task[t]
           \/ /\ task'[t].op # "remove"
              /\ task[t].op = "remove" =>
                   task[t].pc = "halt" /\ \A i \in Ids : task[t].id = i => ~Occupied(i)'
  PROVE  TableIsComplete'
<1>1. RemovedInv'
  BY DEF TableIsComplete, RemovedInv, Present
<1>2. PresentInv'
  BY DEF TableIsComplete, PresentInv, Present
<1>3. \A i \in Ids : Occupied(i)' /\ Present(inst[i].key) => insts[inst[i].key] = i
  BY DEF TableIsComplete, PresentInv
<1>4. ForgottenInv'
  <2> SUFFICES ASSUME NEW i \in Ids, Occupied(i)', insts[inst[i].key] # i
               PROVE  HasRemover(i)'
    BY DEF ForgottenInv
  <2>1. HasRemover(i)
    BY <1>3 DEF TableIsComplete, ForgottenInv
  <2>2. PICK t \in Tasks : /\ task[t].op = "remove" /\ task[t].pc = "halt"
                           /\ task[t].id = i /\ task[t].key = inst[i].key
    BY <2>1 DEF HasRemover
  <2>3. task'[t] = task[t]
    BY <2>2
  <2> QED BY <2>2, <2>3 DEF HasRemover
<1>5. OneInstancePerProfile'
  <2> SUFFICES ASSUME NEW i \in Ids, NEW j \in Ids, Occupied(i)', Occupied(j)',
                      inst[i].key = inst[j].key
               PROVE  i = j
    BY DEF OneInstancePerProfile
  <2>1. CASE Present(inst[i].key)
    BY <1>3, <2>1
  <2>2. CASE ~Present(inst[i].key)
    BY <2>2 DEF TableIsComplete, OneInstancePerProfile
  <2> QED BY <2>1, <2>2
<1>6. DeletedProfileIsStopped'
  <2> SUFFICES ASSUME NEW i \in Ids, Occupied(i)', ~Present(inst[i].key),
                      ~profile[inst[i].key].raw
               PROVE  \E t \in Tasks : /\ task'[t].op = "remove" /\ task'[t].key = inst[i].key
                                       /\ task'[t].pc = "lookup" \/ task'[t].id = i
    BY DEF DeletedProfileIsStopped, Present
  <2>1. PICK t \in Tasks : /\ task[t].op = "remove" /\ task[t].key = inst[i].key
                           /\ task[t].pc = "lookup" \/ task[t].id = i
    BY DEF TableIsComplete, DeletedProfileIsStopped
  <2>2. task'[t] = task[t]
    BY <2>1
  <2> QED BY <2>1, <2>2
<1> QED BY <1>1, <1>2, <1>4, <1>5, <1>6 DEF TableIsComplete

LEMMA SaveProfileComplete ==
  ASSUME KeysAreFresh, Typed, TableIsComplete, NEW k \in Keys, SaveProfile(k)
  PROVE  TableIsComplete'
<1>1. PICK p \in Profiles \ {profile[k]} : profile' = [profile EXCEPT ![k] = p]
  BY DEF SaveProfile
<1>2. p.here /\ Present(k)
  BY DEF Profiles, SaveProfile, KeysAreFresh
<1>3. profile'[k].here /\ \A j \in Keys \ {k} : profile'[j] = profile[j]
  BY <1>1, <1>2, TypedFacts
<1>4. UNCHANGED <<insts, inst, task, server>> /\ Ids' = Ids
  BY DEF SaveProfile, Ids
<1>5. /\ \A i \in Ids : inst[i].key \in Keys
      /\ \A t \in Tasks : task[t].key \in Keys
  BY TypedFacts DEF Insts, TaskTypes
<1>6. \A j \in Keys : Present(j)' <=> Present(j)
  BY <1>2, <1>3 DEF Present
<1>7. RemovedInv'
  BY <1>2, <1>3, <1>4, <1>5, <1>6 DEF TableIsComplete, RemovedInv
<1>8. PresentInv' /\ OneInstancePerProfile'
  BY <1>4, <1>5, <1>6 DEF TableIsComplete, PresentInv, OneInstancePerProfile, Occupied
<1>9. ForgottenInv'
  BY <1>4 DEF TableIsComplete, ForgottenInv, HasRemover, Occupied
<1>10. DeletedProfileIsStopped'
  BY <1>2, <1>3, <1>4, <1>5, <1>6 DEF TableIsComplete, DeletedProfileIsStopped, Occupied
<1> QED BY <1>7, <1>8, <1>9, <1>10 DEF TableIsComplete

LEMMA DeleteProfileComplete ==
  ASSUME Typed, TableIsComplete, NEW t \in Tasks, NEW k \in Keys, DeleteProfile(t, k)
  PROVE  TableIsComplete'
<1>1. /\ task[t].op # "remove" /\ Present(k)
      /\ task'[t].op = "remove" /\ task'[t].key = k /\ task'[t].pc = "lookup"
      /\ task'[t].raw \in BOOLEAN
      /\ \A u \in Tasks \ {t} : task'[u] = task[u]
  BY RequestFields, IdleFields DEF DeleteProfile, Ops
<1>2. profile' = [profile EXCEPT ![k] = Absent(task'[t].raw)]
  BY DEF DeleteProfile
<1>3. /\ ~Present(k)' /\ profile'[k].raw = task'[t].raw
      /\ \A j \in Keys \ {k} : profile'[j] = profile[j]
  BY <1>2, TypedFacts DEF Absent, Present
<1>4. UNCHANGED <<insts, inst, server>> /\ Ids' = Ids
  BY DEF DeleteProfile, Ids
<1>5. /\ \A i \in Ids : inst[i].key \in Keys
      /\ \A u \in Tasks : task[u].key \in Keys
  BY TypedFacts DEF Insts, TaskTypes
<1>6. RemovedInv'
  BY <1>1, <1>3, <1>5 DEF TableIsComplete, RemovedInv, Present
<1>7. PresentInv'
  BY <1>3, <1>4, <1>5 DEF TableIsComplete, PresentInv, Present
<1>8. OneInstancePerProfile'
  BY <1>4 DEF TableIsComplete, OneInstancePerProfile, Occupied
<1>9. ForgottenInv'
  <2> SUFFICES ASSUME NEW i \in Ids, Occupied(i), insts[inst[i].key] # i
               PROVE  HasRemover(i)'
    BY <1>4 DEF ForgottenInv, Occupied
  <2>1. HasRemover(i)
    BY DEF TableIsComplete, ForgottenInv
  <2> QED BY <2>1, <1>1, <1>4 DEF HasRemover
<1>10. DeletedProfileIsStopped'
  <2> SUFFICES ASSUME NEW i \in Ids, Occupied(i), ~Present(inst[i].key)',
                      ~profile'[inst[i].key].raw
               PROVE  \E u \in Tasks : /\ task'[u].op = "remove" /\ task'[u].key = inst[i].key
                                       /\ task'[u].pc = "lookup" \/ task'[u].id = i
    BY <1>4 DEF DeletedProfileIsStopped, Occupied, Present
  <2>1. CASE inst[i].key = k
    BY <2>1, <1>1
  <2>2. CASE inst[i].key # k
    <3>1. PICK u \in Tasks : /\ task[u].op = "remove" /\ task[u].key = inst[i].key
                             /\ task[u].pc = "lookup" \/ task[u].id = i
      <4>1. profile'[inst[i].key] = profile[inst[i].key]
        BY <2>2, <1>3, <1>5
      <4>2. ~Present(inst[i].key) /\ ~profile[inst[i].key].raw
        BY <1>4, <4>1 DEF Present
      <4> QED BY <4>2 DEF TableIsComplete, DeletedProfileIsStopped
    <3> QED BY <3>1, <1>1
  <2> QED BY <2>1, <2>2
<1> QED BY <1>6, <1>7, <1>8, <1>9, <1>10 DEF TableIsComplete

LEMMA BindComplete ==
  ASSUME Typed, TableIsComplete, NEW t \in Tasks, Bind(t) PROVE TableIsComplete'
<1> DEFINE k == task[t].key
<1>0. PICK i : /\ i \in Nat \ {0}
               /\ insts[k] = i \/ (insts[k] = 0 /\ i \notin Ids)
               /\ Ids' = Ids \cup {i}
               /\ insts' = [insts EXCEPT ![k] = i]
               /\ \A j \in Ids : inst'[j] = inst[j]
               /\ inst'[i].key = k
               /\ i \notin Ids => inst'[i].phase = "idle"
               /\ SetTask(t, [task[t] EXCEPT !.pc = "check", !.id = i])
  BY BindEffect
<1>1. k \in Keys /\ task[t] \in TaskTypes /\ UNCHANGED <<profile, server>>
  BY TypedFacts DEF TaskTypes, Bind
<1>2. /\ task[t].op # "remove" /\ task'[t].op # "remove"
      /\ \A u \in Tasks \ {t} : task'[u] = task[u]
  <2>1. task[t].op = "start" /\ [task[t] EXCEPT !.pc = "check", !.id = i].op = task[t].op
    BY <1>1 DEF Bind, TaskTypes
  <2> QED BY <2>1, <1>0, TaskFields
<1>3. insts'[k] = i /\ \A j \in Keys \ {k} : insts'[j] = insts[j]
  BY <1>0, <1>1, TypedFacts
<1>4. \A j \in Ids' : Occupied(j)' => j \in Ids /\ Occupied(j)
  BY <1>0 DEF Occupied
<1>5. \A j \in Ids : inst[j].key \in Keys /\ inst'[j] = inst[j]
  BY <1>0, TypedFacts DEF Insts
<1>6. RemovedInv'
  BY <1>1, <1>2 DEF TableIsComplete, RemovedInv, Present
<1>7. PresentInv'
  <2> SUFFICES ASSUME NEW j \in Ids', Present(inst'[j].key) PROVE insts'[inst'[j].key] = j
    BY <1>1 DEF PresentInv, Present
  <2>1. CASE j = i
    BY <2>1, <1>0, <1>3
  <2>2. CASE j # i
    <3>1. j \in Ids /\ insts[inst[j].key] = j
      BY <2>2, <1>0, <1>5 DEF TableIsComplete, PresentInv
    <3>2. j # 0
      BY <3>1, TypedFacts
    <3>3. inst[j].key # k
      BY <2>2, <3>1, <3>2, <1>0
    <3> QED BY <3>1, <3>3, <1>3, <1>5
  <2> QED BY <2>1, <2>2
<1>8. ForgottenInv'
  <2> SUFFICES ASSUME NEW j \in Ids, Occupied(j), insts'[inst[j].key] # j
               PROVE  HasRemover(j)'
    BY <1>4, <1>5 DEF ForgottenInv
  <2>1. insts[inst[j].key] # j
    <3>1. CASE inst[j].key = k
      BY <3>1, <1>0, <1>3, TypedFacts
    <3>2. CASE inst[j].key # k
      BY <3>2, <1>3, <1>5
    <3> QED BY <3>1, <3>2
  <2>2. HasRemover(j)
    BY <2>1 DEF TableIsComplete, ForgottenInv
  <2> QED BY <2>2, <1>2, <1>5 DEF HasRemover
<1>9. OneInstancePerProfile'
  BY <1>4, <1>5 DEF TableIsComplete, OneInstancePerProfile
<1>10. DeletedProfileIsStopped'
  <2> SUFFICES ASSUME NEW j \in Ids, Occupied(j), ~Present(inst[j].key),
                      ~profile[inst[j].key].raw
               PROVE  \E u \in Tasks : /\ task'[u].op = "remove" /\ task'[u].key = inst[j].key
                                       /\ task'[u].pc = "lookup" \/ task'[u].id = j
    BY <1>1, <1>4, <1>5 DEF DeletedProfileIsStopped, Present
  <2>1. PICK u \in Tasks : /\ task[u].op = "remove" /\ task[u].key = inst[j].key
                           /\ task[u].pc = "lookup" \/ task[u].id = j
    BY DEF TableIsComplete, DeletedProfileIsStopped
  <2> QED BY <2>1, <1>2
<1> QED BY <1>6, <1>7, <1>8, <1>9, <1>10 DEF TableIsComplete

\* A look-up: for a removal the table forgets what the removal now holds.
LEMMA LookupComplete ==
  ASSUME Typed, TableIsComplete, NEW t \in Tasks, Lookup(t) PROVE TableIsComplete'
<1> DEFINE k == task[t].key
           i == IF Resolves(t) THEN insts[k] ELSE 0
           r == IF i = 0 THEN Idle ELSE [task[t] EXCEPT !.pc = "halt", !.id = i]
<1>1. /\ task[t] \in TaskTypes /\ k \in Keys /\ i \in Ids \cup {0} /\ Ids' = Ids
      /\ task[t].pc = "lookup" /\ UNCHANGED <<profile, inst, server>>
  BY TypedFacts DEF TaskTypes, Lookup, Ids
<1>2. SetTask(t, r) /\ insts' = (IF i # 0 /\ task[t].op = "remove"
                                   THEN [insts EXCEPT ![k] = 0] ELSE insts)
  BY DEF Lookup
<1>3. IF i = 0 THEN r = Idle
      ELSE r.op = task[t].op /\ r.pc = "halt" /\ r.key = k /\ r.id = i /\ r.raw = task[t].raw
  BY <1>1 DEF TaskTypes
<1>4. /\ i # 0 => insts[k] = i /\ inst[i].key = k
      /\ i = 0 => (~Present(k) /\ task[t].raw) \/ insts[k] = 0
  <2>1. i # 0 => insts[k] = i
    OBVIOUS
  <2>2. insts[k] # 0 => inst[insts[k]].key = k
    BY <1>1 DEF Typed, TableInv
  <2>3. i = 0 => (~Present(k) /\ task[t].raw) \/ insts[k] = 0
    BY DEF Resolves
  <2> QED BY <2>1, <2>2, <2>3
<1> HIDE DEF r, i
<1>5. task'[t] = r /\ \A u \in Tasks \ {t} : task'[u] = task[u]
  BY <1>2, TaskFields
<1>6. CASE task[t].op # "remove"
  <2>1. r.op # "remove" /\ insts' = insts
    BY <1>2, <1>3, <1>6, IdleFields
  <2> QED BY <1>1, <1>5, <1>6, <2>1, CompleteKept DEF Occupied
<1>7. CASE task[t].op = "remove"
  <2>1. ~Present(k) /\ (task[t].raw => profile[k].raw)
    BY <1>7 DEF TableIsComplete, RemovedInv
  <2>2. \A j \in Ids : inst[j].key \in Keys
    BY TypedFacts DEF Insts
  <2>3. \A j \in Keys \ {k} : insts'[j] = insts[j]
    BY <1>2, TypedFacts
  <2>4. \A j \in Ids : insts[inst[j].key] # j \/ insts'[inst[j].key] = j
                       \/ (j = i /\ i # 0 /\ inst[j].key = k)
    BY <1>2, <1>4, <2>2, <2>3, TypedFacts
  <2>5. RemovedInv'
    BY <1>1, <1>3, <1>5, <1>7, IdleFields DEF TableIsComplete, RemovedInv, Present
  <2>6. PresentInv'
    BY <1>1, <2>1, <2>2, <2>3 DEF TableIsComplete, PresentInv, Present
  <2>7. OneInstancePerProfile'
    BY <1>1 DEF TableIsComplete, OneInstancePerProfile, Occupied
  <2>8. ForgottenInv'
    <3> SUFFICES ASSUME NEW j \in Ids, Occupied(j), insts'[inst[j].key] # j
                 PROVE  HasRemover(j)'
      BY <1>1 DEF ForgottenInv, Occupied
    <3>1. CASE insts[inst[j].key] = j
      <4>1. j = i /\ i # 0 /\ inst[j].key = k
        BY <3>1, <2>4
      <4> QED BY <4>1, <1>1, <1>3, <1>5, <1>7 DEF HasRemover
    <3>2. CASE insts[inst[j].key] # j
      <4>1. PICK u \in Tasks : /\ task[u].op = "remove" /\ task[u].pc = "halt"
                               /\ task[u].id = j /\ task[u].key = inst[j].key
        BY <3>2 DEF TableIsComplete, ForgottenInv, HasRemover
      <4>2. u # t
        BY <4>1, <1>1
      <4> QED BY <4>1, <4>2, <1>1, <1>5 DEF HasRemover
    <3> QED BY <3>1, <3>2
  <2>9. DeletedProfileIsStopped'
    <3> SUFFICES ASSUME NEW j \in Ids, Occupied(j), ~Present(inst[j].key),
                        ~profile[inst[j].key].raw
                 PROVE  \E u \in Tasks : /\ task'[u].op = "remove" /\ task'[u].key = inst[j].key
                                         /\ task'[u].pc = "lookup" \/ task'[u].id = j
      BY <1>1 DEF DeletedProfileIsStopped, Occupied, Present
    <3>1. CASE HasRemover(j)
      <4>1. PICK u \in Tasks : /\ task[u].op = "remove" /\ task[u].pc = "halt"
                               /\ task[u].id = j /\ task[u].key = inst[j].key
        BY <3>1 DEF HasRemover
      <4>2. u # t
        BY <4>1, <1>1
      <4> QED BY <4>1, <4>2, <1>5
    <3>2. CASE ~HasRemover(j)
      <4>1. insts[inst[j].key] = j
        BY <3>2 DEF TableIsComplete, ForgottenInv
      <4>2. CASE inst[j].key = k
        <5>1. j # 0 /\ ~task[t].raw
          BY <4>2, <2>1, TypedFacts
        <5>2. i = j
          BY <4>1, <4>2, <5>1, <1>4
        <5> QED BY <4>2, <5>1, <5>2, <1>3, <1>5, <1>7
      <4>3. CASE inst[j].key # k
        <5>1. PICK u \in Tasks : /\ task[u].op = "remove" /\ task[u].key = inst[j].key
                                 /\ task[u].pc = "lookup" \/ task[u].id = j
          BY DEF TableIsComplete, DeletedProfileIsStopped
        <5>2. u # t
          BY <4>3, <5>1
        <5> QED BY <5>1, <5>2, <1>5
      <4> QED BY <4>2, <4>3
    <3> QED BY <3>1, <3>2
  <2> QED BY <2>5, <2>6, <2>7, <2>8, <2>9 DEF TableIsComplete
<1> QED BY <1>6, <1>7

LEMMA HaltComplete ==
  ASSUME Typed, TableIsComplete, NEW t \in Tasks, Halt(t) PROVE TableIsComplete'
<1> DEFINE i == task[t].id
<1>1. i \in Ids /\ task[t].pc = "halt"
  BY DEF Halt, Typed, TasksInv, InPlace, StartPcs, HaltPcs
<1>2. inst[i].phase \in Phases
  BY <1>1, TypedFacts DEF Insts
<1>3. Stopped(inst[i].phase) \in Phases /\ Stopped(inst[i].phase) \in {"idle", "stopping"}
  BY <1>2, StoppedStays DEF Phases
<1>4. /\ Ids' = Ids /\ inst'[i].phase = Stopped(inst[i].phase)
      /\ \A j \in Ids : inst'[j].key = inst[j].key
      /\ \A j \in Ids \ {i} : inst'[j] = inst[j]
  BY <1>1, <1>3, PhaseFields DEF Halt
<1>5. (\A j \in Ids : i = j => ~Occupied(j)') /\ \A j \in Ids : Occupied(j)' => Occupied(j)
  <2>1. inst'[i].phase \notin {"ready", "up", "pending"}
    BY <1>3, <1>4
  <2>2. \A j \in Ids : inst'[j].phase \in {"ready", "up", "pending"} => inst'[j] = inst[j]
    BY <1>4, <2>1
  <2> QED BY <2>1, <2>2 DEF Occupied
<1>6. \A u \in Tasks :
        \/ task'[u] = task[u]
        \/ /\ task'[u].op # "remove"
           /\ task[u].op = "remove" =>
                task[u].pc = "halt" /\ \A j \in Ids : task[u].id = j => ~Occupied(j)'
  <2>1. task'[t].op # "remove" /\ \A u \in Tasks \ {t} : task'[u] = task[u]
    BY TaskFields, IdleFields DEF Halt
  <2> QED BY <1>1, <1>5, <2>1
<1>7. UNCHANGED <<profile, insts, server>>
  BY DEF Halt
<1> QED BY <1>4, <1>5, <1>6, <1>7, CompleteKept

\* Goroutines that start or request something do not touch a removal.
LEMMA StartComplete ==
  ASSUME Typed, TableIsComplete, NEW t \in Tasks,
         \/ CheckPort(t) \/ Launch(t) \/ StartReturns(t)
         \/ \E k \in Keys : StartRequest(t, k) \/ StopRequest(t, k)
  PROVE  TableIsComplete'
<1>1. CASE CheckPort(t) \/ Launch(t) \/ StartReturns(t)
  <2>1. task[t].op = "start" /\ task[t] \in TaskTypes /\ InPlace(task[t], Ids)
    BY <1>1, TypedFacts DEF CheckPort, Launch, StartReturns, Typed, TasksInv, InPlace, StartPcs
  <2>2. task[t].op # "remove" /\ task'[t].op # "remove"
        /\ \A u \in Tasks \ {t} : task'[u] = task[u]
    <3>1. PICK r : SetTask(t, r) /\ r \in {Idle, [task[t] EXCEPT !.pc = "launch"],
                                           [task[t] EXCEPT !.pc = "return"]}
      BY <1>1 DEF CheckPort, Launch, StartReturns
    <3>2. r.op \in {"none", "start"}
      BY <2>1, <3>1, IdleFields DEF TaskTypes
    <3> QED BY <2>1, <3>1, <3>2, TaskFields
  <2>3. UNCHANGED <<profile, insts, server>>
    BY <1>1 DEF CheckPort, Launch, StartReturns
  <2>4. /\ Ids' = Ids /\ \A j \in Ids : inst'[j].key = inst[j].key
        /\ \A j \in Ids : Occupied(j)' => Occupied(j)
    <3>1. CASE UNCHANGED inst
      BY <3>1 DEF Ids, Occupied
    <3>2. CASE Launch(t) /\ SetPhase(task[t].id, "launching")
      <4>1. task[t].id \in Ids
        BY <2>1, <3>2 DEF Launch, InPlace, StartPcs, HaltPcs
      <4> QED BY <4>1, <3>2, PhaseFields DEF Phases, Occupied
    <3> QED BY <1>1, <3>1, <3>2 DEF CheckPort, Launch, StartReturns
  <2> QED BY <2>2, <2>3, <2>4, CompleteKept
<1>2. ASSUME NEW k \in Keys, StartRequest(t, k) \/ StopRequest(t, k)
      PROVE  TableIsComplete'
  <2>1. task[t].op # "remove" /\ task'[t].op # "remove"
        /\ \A u \in Tasks \ {t} : task'[u] = task[u]
    BY <1>2, RequestFields, IdleFields DEF StartRequest, StopRequest, Ops
  <2>2. UNCHANGED <<profile, insts, inst, server>> /\ Ids' = Ids
    BY <1>2 DEF StartRequest, StopRequest, Ids
  <2> QED BY <2>1, <2>2, CompleteKept DEF Occupied
<1> QED BY <1>1, <1>2

LEMMA ServerComplete ==
  ASSUME Typed, TableIsComplete,
         ShutdownSignal \/ StopAll \/ Exit \/ \E i \in Ids : StopGivesUp(i)
  PROVE  TableIsComplete'
<1>1. CASE ShutdownSignal \/ Exit \/ \E i \in Ids : StopGivesUp(i)
  <2>1. UNCHANGED <<profile, insts, inst, task>> /\ Ids' = Ids
    BY <1>1 DEF ShutdownSignal, Exit, StopGivesUp, Ids
  <2> QED BY <2>1, CompleteKept DEF Occupied
<1>2. CASE StopAll
  <2>1. \A j \in Ids : Occupied(j)' => Occupied(j)
    BY <1>2, StopAllEffect, StoppedStays, TypedFacts DEF Occupied, Insts
  <2> QED BY <1>2, <2>1, StopAllEffect, CompleteKept
<1> QED BY <1>1, <1>2

LEMMA StepComplete ==
  ASSUME KeysAreFresh, Typed, TableIsComplete, [Next]_vars PROVE TableIsComplete'
<1>1. ASSUME NEW t \in Tasks, NEW k \in Keys,
             DeleteProfile(t, k) \/ StartRequest(t, k) \/ StopRequest(t, k)
      PROVE  TableIsComplete'
  BY <1>1, DeleteProfileComplete, StartComplete
<1>2. ASSUME NEW k \in Keys, SaveProfile(k) PROVE TableIsComplete'
  BY <1>2, SaveProfileComplete
<1>3. ASSUME NEW t \in Tasks, TaskStep(t) PROVE TableIsComplete'
  BY <1>3, BindComplete, StartComplete, LookupComplete, HaltComplete DEF TaskStep
<1>4. ASSUME NEW i \in Ids, InstStep(i) \/ RunEnds(i) PROVE TableIsComplete'
  <2>1. \A j \in Ids : Occupied(j)' => Occupied(j) \/ Present(inst[j].key)
    BY <1>4, InstEffect DEF Occupied, Present
  <2> QED BY <1>4, <2>1, InstEffect, CompleteKept
<1>5. ASSUME UNCHANGED vars PROVE TableIsComplete'
  <2>1. UNCHANGED <<profile, insts, inst, task, server>> /\ Ids' = Ids
    BY <1>5 DEF vars, Ids
  <2> QED BY <2>1, CompleteKept DEF Occupied
<1> QED BY <1>1, <1>2, <1>3, <1>4, <1>5, ServerComplete DEF Next

LEMMA CompleteAlways == KeysAreFresh => (Spec => []TableIsComplete)
<1> SUFFICES ASSUME KeysAreFresh PROVE Spec => []TableIsComplete
  OBVIOUS
<1>1. Init => Typed /\ TableIsComplete
  BY InitTyped, InitComplete
<1>2. Typed /\ TableIsComplete /\ [Next]_vars => (Typed /\ TableIsComplete)'
  BY StepTyped, StepComplete
<1> QED BY <1>1, <1>2, PTL DEF Spec

\* One instance per profile: no interleaving of starts, stops and deletions
\* gives a profile a second run beside the one Status and Stop speak of.
THEOREM OneRunPerProfile == KeysAreFresh => (Spec => []OneInstancePerProfile)
<1>1. TableIsComplete => OneInstancePerProfile
  BY DEF TableIsComplete
<1> QED BY <1>1, CompleteAlways, PTL

\* A tunnel whose profile is deleted does not outlive the request unnoticed:
\* the removal that follows holds its instance until it has stopped it, unless
\* the request spelled the key in a way resolveKey no longer finds.
THEOREM DeletionReachesTheRun == KeysAreFresh => (Spec => []DeletedProfileIsStopped)
<1>1. TableIsComplete => DeletedProfileIsStopped
  BY DEF TableIsComplete
<1> QED BY <1>1, CompleteAlways, PTL

-----------------------------------------------------------------------------
(***************************************************************************)
(* The slots.  TunnelInstance implements TunnelSlot (InstanceIsSlot in     *)
(* TunnelInstance_proofs); here every instance of the table is one.        *)
(***************************************************************************)

\* Commands are not counted: the steps of TunnelRunner tell them apart.
Slot(i) == INSTANCE TunnelSlot WITH slot <- inst[i].phase, calls <- 0

\* What a step does to the instances: a slot changes as TunnelSlot says, and an
\* instance that instanceFor creates is an idle one.
SlotsChange ==
  /\ Ids \subseteq Ids'
  /\ \A i \in Ids : inst'[i].phase = inst[i].phase \/ Slot(i)!Change
  /\ \A i \in Ids' \ Ids : inst'[i].phase = "idle"

LEMMA SlotOfTask ==
  ASSUME Typed, NEW t \in Tasks, Launch(t) \/ Halt(t)
  PROVE  SlotsChange
<1> DEFINE id == task[t].id
<1>1. task[t].pc \in {"launch", "halt"} /\ id \in Ids /\ inst[id] \in Insts
  BY TypedFacts DEF Launch, Halt, Typed, TasksInv, InPlace, StartPcs, HaltPcs
<1>2. CASE Launch(t) /\ inst[id].phase \in {"idle", "pending"}
  <2>1. /\ Ids' = Ids /\ inst'[id].phase = "launching"
        /\ \A i \in Ids \ {id} : inst'[i] = inst[i]
    BY <1>1, <1>2, TypedFacts, PhaseFields DEF Launch, Phases
  <2> QED BY <1>1, <1>2, <2>1 DEF SlotsChange, Slot!Change, Slot!Fill
<1>3. CASE Launch(t) /\ inst[id].phase \notin {"idle", "pending"}
  BY <1>3 DEF Launch, SlotsChange, Ids
<1>4. CASE Halt(t)
  <2>1. Stopped(inst[id].phase) \in Phases
    BY DEF Stopped, Phases
  <2>2. /\ Ids' = Ids /\ inst'[id].phase = Stopped(inst[id].phase)
        /\ \A i \in Ids \ {id} : inst'[i] = inst[i]
    BY <1>1, <1>4, <2>1, TypedFacts, PhaseFields DEF Halt
  <2> QED BY <1>1, <2>2 DEF SlotsChange, Slot!Change, Slot!Clear, Stopped
<1> QED BY <1>2, <1>3, <1>4

LEMMA SlotOfInst ==
  ASSUME Typed, NEW i \in Ids, InstStep(i) \/ RunEnds(i)
  PROVE  SlotsChange
<1>1. /\ Ids' = Ids /\ inst[i] \in Insts
      /\ \A j \in Ids \ {i} : inst'[j] = inst[j]
  BY InstEffect, TypedFacts
<1>2. Slot(i)!Change
  <2>1. CASE ReadOptions(i)
    <3> DEFINE p == profile[inst[i].key]
               r == IF p.usable THEN [inst[i] EXCEPT !.phase = "ready", !.port = p.port]
                                ELSE [inst[i] EXCEPT !.phase = "idle"]
    <3>1. inst' = [inst EXCEPT ![i] = r] /\ inst[i].phase = "launching"
      BY <2>1 DEF ReadOptions
    <3>2. r.phase \in {"ready", "idle"}
      BY <1>1 DEF Insts
    <3> HIDE DEF r, p
    <3>3. inst'[i] = r
      BY <3>1, TypedFacts DEF Ids
    <3> QED BY <3>1, <3>2, <3>3 DEF Slot!Change, Slot!Progress, Slot!ReadOptions
  <2>2. CASE PublishRun(i)
    BY <2>2, PhaseFields DEF PublishRun, Phases, Slot!Change, Slot!Progress, Slot!Publish
  <2>3. CASE RestartDropped(i)
    BY <2>3, PhaseFields DEF RestartDropped, Phases, Slot!Change, Slot!Progress, Slot!RestartDropped
  <2>4. CASE RestartDue(i)
    BY <2>4, PhaseFields DEF RestartDue, Phases, Slot!Change, Slot!Progress, Slot!RestartDue
  <2>5. CASE RunStopped(i)
    BY <2>5, PhaseFields DEF RunStopped, Phases, Slot!Change, Slot!Progress, Slot!RunStopped
  <2>6. CASE RunEnds(i)
    BY <2>6, PhaseFields DEF RunEnds, Phases, Slot!Change, Slot!RunEnds
  <2> QED BY <2>1, <2>2, <2>3, <2>4, <2>5, <2>6 DEF InstStep
<1> QED BY <1>1, <1>2 DEF SlotsChange

LEMMA SlotStep == ASSUME Typed, [Next]_vars PROVE SlotsChange
<1>1. CASE UNCHANGED inst
  BY <1>1 DEF SlotsChange, Ids
<1>2. ASSUME NEW t \in Tasks, Bind(t) PROVE SlotsChange
  BY <1>2, BindEffect DEF SlotsChange
<1>3. CASE StopAll
  BY <1>3, StopAllEffect DEF SlotsChange, Slot!Change, Slot!Clear, Stopped
<1>4. ASSUME NEW t \in Tasks, TaskStep(t) PROVE SlotsChange
  BY <1>1, <1>2, <1>4, SlotOfTask DEF TaskStep, CheckPort, StartReturns, Lookup
<1>5. ASSUME NEW i \in Ids, InstStep(i) \/ RunEnds(i) PROVE SlotsChange
  BY <1>5, SlotOfInst
<1>6. CASE ShutdownSignal \/ Exit \/ UNCHANGED vars \/ \E i \in Ids : StopGivesUp(i)
  BY <1>1, <1>6 DEF ShutdownSignal, Exit, StopGivesUp, vars
<1>7. ASSUME NEW t \in Tasks, NEW k \in Keys,
             DeleteProfile(t, k) \/ StartRequest(t, k) \/ StopRequest(t, k)
      PROVE  SlotsChange
  BY <1>1, <1>7 DEF DeleteProfile, StartRequest, StopRequest
<1>8. ASSUME NEW k \in Keys, SaveProfile(k) PROVE SlotsChange
  BY <1>1, <1>8 DEF SaveProfile
<1> QED BY <1>3, <1>4, <1>5, <1>6, <1>7, <1>8 DEF Next

\* Every step of the runner leaves each instance alone or does to it what
\* TunnelSlot allows: this model of the table adds nothing to what the instances
\* of cloudflared.Instance can do.  (That it leaves nothing out is seen from its
\* actions: InstStep and RunEnds are the slot's own steps, one by one.)
THEOREM InstancesAreSlots == Spec => [][SlotsChange]_vars
<1>1. Typed /\ [Next]_vars => [SlotsChange]_vars
  BY SlotStep
<1> QED BY <1>1, TablesAreSound, PTL DEF Spec
=============================================================================
