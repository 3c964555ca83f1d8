---- MODULE WritesProofs ----
(* What a write may undo, for any calls, clients and numbers of failures, and which
   documents of a manifest are applied, for any manifest. *)
EXTENDS Writes, TLAPS

Objects == [rv : Nat, field : [Fields -> Nat], attached : SUBSET ContainerNames]

\* A call that is not done has a request that fits the object.
AskedTold ==
    \A c \in Calls : pc[c] # "done" =>
        /\ subject \in Kinds /\ Tool(c) \in ToolsOf(subject)
        /\ request[c].overwrite \in BOOLEAN /\ request[c].dryRun \in BOOLEAN
        /\ Tool(c) = "add_ephemeral_container" =>
              request[c].dryRun = FALSE /\ request[c].name \in ContainerNames

\* What is stored has the last resourceVersion given out, and only pods have containers.
ObjectTold ==
    /\ store \in Objects /\ version \in Nat \ {0}
    /\ store = Absent \/ store.rv = version
    /\ store.attached # {} => subject = "Pod"

\* What a call has read is an earlier object, or still the one that is stored.
SeenTold ==
    \A c \in Calls :
        /\ seen[c] = NotRead \/ (seen[c] \in Objects /\ seen[c].rv \in 1..version)
        /\ seen[c].rv # 0 /\ seen[c].rv = store.rv => seen[c] = store
        /\ seen[c] # NotRead => Tool(c) \in Readers
        /\ pc[c] = "read" /\ Tool(c) # "update_configmap" => seen[c] # NotRead
        /\ pc[c] = "read" /\ Tool(c) \in Markers /\ request[c].overwrite = FALSE =>
              seen[c].field[OwnField(Tool(c))] = Unset

\* Who has an answer is done.
CallsTold ==
    /\ seen \in [Calls -> Objects \cup {NotRead}]
    /\ pc \in [Calls -> {"new", "read", "done"}]
    /\ answer \in [Calls -> {"none", "ok", "refused", "failed"}]
    /\ \A c \in Calls : pc[c] # "done" => answer[c] = "none"

WritesInv == AskedTold /\ ObjectTold /\ SeenTold /\ CallsTold

\* An object without anything in it.
LEMMA AbsentFacts ==
    /\ Absent \in Objects /\ Absent.rv = 0 /\ Absent.attached = {}
    /\ \A f \in Fields : Absent.field[f] = 0
    /\ NotRead.rv = 0
BY DEF Absent, NotRead, Objects, Unset

\* A new object has one version, and no containers.
LEMMA FreshFacts ==
    ASSUME NEW v \in Nat
    PROVE  Fresh(v) \in Objects /\ Fresh(v).rv = v /\ Fresh(v).attached = {}
BY DEF Fresh, Absent, Objects, Fields, Unset

\* What requests for a tool have in common.
LEMMA RequestFacts ==
    ASSUME NEW t, NEW r \in RequestsFor(t)
    PROVE  /\ r.tool = t /\ r.overwrite \in BOOLEAN /\ r.dryRun \in BOOLEAN
           /\ t = "add_ephemeral_container" => r.dryRun = FALSE /\ r.name \in ContainerNames
BY DEF RequestsFor, Markers

\* Every tool is about one field.
LEMMA OwnFieldFacts ==
    ASSUME NEW t
    PROVE  /\ OwnField(t) \in Fields
           /\ t \in {"label", "annotate", "scale"} => OwnField(t) # "data"
BY DEF OwnField, Fields

\* The initial states satisfy the invariant.
LEMMA InitWrites == Init => WritesInv
<1> SUFFICES ASSUME Init PROVE WritesInv
  OBVIOUS
<1>1. AskedTold
  <2> SUFFICES ASSUME NEW c \in Calls, pc[c] # "done"
               PROVE  /\ subject \in Kinds /\ Tool(c) \in ToolsOf(subject)
                      /\ request[c].overwrite \in BOOLEAN /\ request[c].dryRun \in BOOLEAN
                      /\ Tool(c) = "add_ephemeral_container" =>
                            request[c].dryRun = FALSE /\ request[c].name \in ContainerNames
    BY DEF AskedTold
  <2>1. /\ subject \in Kinds
        /\ request \in [Calls -> UNION {RequestsFor(t) : t \in ToolsOf(subject)}]
    BY DEF Init, Idle
  <2>2. PICK t \in ToolsOf(subject) : request[c] \in RequestsFor(t)
    BY <2>1
  <2> QED
    BY <2>1, <2>2, RequestFacts DEF Tool
<1>2. ObjectTold
  <2>1. store = Absent \/ store \in InitialObjects
    BY DEF Init, Idle
  <2>2. store = Absent \/ \E l, a \in {0, 1} :
          store = [Fresh(1) EXCEPT !.field = [@ EXCEPT !["label"] = l, !["annotation"] = a]]
    BY <2>1 DEF InitialObjects, Unset
  <2>3. store \in Objects /\ (store = Absent \/ store.rv = 1) /\ store.attached = {}
    <3>1. CASE store = Absent
      BY <3>1, AbsentFacts
    <3>2. ASSUME NEW l \in {0, 1}, NEW a \in {0, 1},
                 store = [Fresh(1) EXCEPT !.field =
                             [@ EXCEPT !["label"] = l, !["annotation"] = a]]
          PROVE  store \in Objects /\ store.rv = 1 /\ store.attached = {}
      BY <3>2, FreshFacts DEF Objects
    <3> QED
      BY <2>2, <3>1, <3>2
  <2> QED
    BY <2>3 DEF Init, ObjectTold
<1>3. SeenTold /\ CallsTold
  <2>1. /\ seen = [c \in Calls |-> NotRead] /\ answer = [c \in Calls |-> "none"]
        /\ pc = [c \in Calls |-> "new"] \/ pc = [c \in Calls |-> "done"]
    BY DEF Init, Idle
  <2> QED
    BY <2>1, AbsentFacts DEF SeenTold, CallsTold
<1> QED
  BY <1>1, <1>2, <1>3 DEF WritesInv

\* The kinds of object a tool is for.
LEMMA ToolFacts ==
    ASSUME NEW k \in Kinds, NEW t \in ToolsOf(k)
    PROVE  /\ \/ t \in {"create_configmap", "update_configmap"}
              \/ t \in {"label", "annotate", "scale"}
              \/ t \in {"patch", "add_ephemeral_container", "delete_manifest", "delete_pod"}
           /\ t \in {"create_configmap", "update_configmap"} => k = "ConfigMap"
           /\ t = "add_ephemeral_container" => k = "Pod"
BY DEF Kinds, ToolsOf

\* An update that carries a version carries that of the object it was made of.
LEMMA SentIsStored ==
    ASSUME WritesInv, NEW c \in Calls, Writing(c), Accepted(c), seen[c] # NotRead,
           Tool(c) \in {"update_configmap", "add_ephemeral_container"}
    PROVE  seen[c] = store
<1>1. seen[c].rv \in {0, store.rv}
  BY DEF Accepted, SentVersion, AnyVersion
<1>2. seen[c].rv \in 1..version /\ version \in Nat
  BY DEF WritesInv, SeenTold, ObjectTold
<1>3. seen[c].rv # 0
  BY <1>2
<1> QED
  BY <1>1, <1>3 DEF WritesInv, SeenTold

\* What a call writes is an object of the next version, or none.
LEMMA WrittenFacts ==
    ASSUME WritesInv, NEW c \in Calls, pc[c] # "done", Writing(c), Accepted(c),
           NEW o \in Written(c, version + 1)
    PROVE  /\ o \in Objects /\ (o = Absent \/ o.rv = version + 1)
           /\ o.attached # {} => subject = "Pod"
<1> DEFINE v == version + 1
<1> DEFINE Good == /\ o \in Objects /\ (o = Absent \/ o.rv = v)
                   /\ o.attached # {} => subject = "Pod"
<1>1. /\ v \in Nat /\ store \in Objects /\ (store.attached # {} => subject = "Pod")
  BY DEF WritesInv, ObjectTold
<1>2. subject \in Kinds /\ Tool(c) \in ToolsOf(subject)
  BY DEF WritesInv, AskedTold
<1>3. CASE Tool(c) \in {"create_configmap", "update_configmap"}
  <2>1. o = [Fresh(v) EXCEPT !.field["replicas"] = store.field["replicas"]]
    BY <1>3 DEF Written
  <2>2. o = [rv |-> v,
             field |-> [Fresh(v).field EXCEPT !["replicas"] = store.field["replicas"]],
             attached |-> {}]
    BY <2>1, <1>1, FreshFacts DEF Objects
  <2> QED
    BY <1>1, <2>2, FreshFacts DEF Objects, Fields
<1>4. CASE Tool(c) \in {"label", "annotate", "scale"}
  <2>1. o = [store EXCEPT !.rv = v, !.field[OwnField(Tool(c))] = v]
    BY <1>4 DEF Written
  <2>2. o = [rv |-> v, field |-> [store.field EXCEPT ![OwnField(Tool(c))] = v],
             attached |-> store.attached]
    BY <2>1, <1>1 DEF Objects
  <2> QED
    BY <1>1, <2>2, OwnFieldFacts DEF Objects
<1>5. CASE Tool(c) = "patch"
  <2>1. PICK f \in Fields : o = [store EXCEPT !.rv = v, !.field[f] = v]
    BY <1>5 DEF Written
  <2>2. o = [rv |-> v, field |-> [store.field EXCEPT ![f] = v], attached |-> store.attached]
    BY <2>1, <1>1 DEF Objects
  <2> QED
    BY <1>1, <2>2 DEF Objects
<1>6. CASE Tool(c) = "add_ephemeral_container"
  <2>1. o = [store EXCEPT !.rv = v, !.attached = seen[c].attached \cup {request[c].name}]
    BY <1>6 DEF Written
  <2>2. seen[c] # NotRead /\ request[c].name \in ContainerNames
    BY <1>6 DEF WritesInv, AskedTold, SeenTold, Writing, Readers
  <2>3. seen[c] = store
    BY <1>6, <2>2, SentIsStored
  <2>4. subject = "Pod"
    BY <1>2, <1>6, ToolFacts
  <2> QED
    BY <1>1, <2>1, <2>2, <2>3, <2>4 DEF Objects
<1>7. CASE Tool(c) \in {"delete_manifest", "delete_pod"}
  BY <1>7, AbsentFacts DEF Written
<1> QED
  BY <1>2, <1>3, <1>4, <1>5, <1>6, <1>7, ToolFacts

\* Every step leaves the object, or makes one of the next version, or none.
Renewed ==
    /\ version' = version + 1
    /\ store' \in Objects /\ (store' = Absent \/ store'.rv = version')
    /\ store'.attached # {} => subject = "Pod"

\* An accepted write of a call makes the object one of the next version, or none; a
\* dry run leaves it.
LEMMA StoreFacts ==
    ASSUME WritesInv, NEW c \in Calls, pc[c] # "done", Writing(c), Accepted(c), Store(c)
    PROVE  UNCHANGED object \/ Renewed
<1>1. CASE request[c].dryRun
  BY <1>1 DEF Store
<1>2. CASE ~request[c].dryRun
  BY <1>2, WrittenFacts DEF Store, Renewed
<1> QED
  BY <1>1, <1>2

\* A write of another client is one of the next version, or a deletion.
LEMMA OthersFacts == WritesInv /\ OthersWrite => Renewed
<1> SUFFICES ASSUME WritesInv, OthersWrite PROVE Renewed
  OBVIOUS
<1> DEFINE v == version + 1
<1>1. /\ version' = v /\ v \in Nat /\ store \in Objects
      /\ store.attached # {} => subject = "Pod"
  <2>1. version' = v
    BY DEF OthersWrite
  <2>2. /\ version \in Nat \ {0} /\ store \in Objects
        /\ store.attached # {} => subject = "Pod"
    BY DEF WritesInv, ObjectTold
  <2> QED
    BY <2>1, <2>2
<1>2. ASSUME NEW f \in Fields, store' = [store EXCEPT !.rv = version', !.field[f] = version']
      PROVE  Renewed
  <2>1. store' = [rv |-> v, field |-> [store.field EXCEPT ![f] = v],
                  attached |-> store.attached]
    BY <1>1, <1>2 DEF Objects
  <2> QED
    BY <1>1, <2>1 DEF Objects, Renewed
<1>3. ASSUME NEW n \in ContainerNames, subject = "Pod",
             store' = [store EXCEPT !.rv = version', !.attached = @ \cup {n}]
      PROVE  Renewed
  <2>1. store' = [rv |-> v, field |-> store.field, attached |-> store.attached \cup {n}]
    BY <1>1, <1>3 DEF Objects
  <2> QED
    BY <1>1, <1>3, <2>1 DEF Objects, Renewed
<1>4. CASE store' = Absent
  BY <1>1, <1>4, AbsentFacts DEF Renewed
<1>5. CASE store' = Fresh(version')
  BY <1>1, <1>5, FreshFacts DEF Renewed
<1> QED
  BY <1>2, <1>3, <1>4, <1>5 DEF OthersWrite

\* What no step changes.
LEMMA FixedStep == [Next]_vars => subject' = subject /\ request' = request
BY DEF Next, ApplyStep, OthersWrite, CallStep, Read, ReadFails, Write, WriteRejected,
       WriteFails, call, vars

\* What a step does to the object.
LEMMA ObjectMoves == WritesInv /\ [Next]_vars => UNCHANGED object \/ Renewed
<1> SUFFICES ASSUME WritesInv, [Next]_vars PROVE UNCHANGED object \/ Renewed
  OBVIOUS
<1>0. ASSUME NEW c \in Calls, Writing(c) PROVE pc[c] # "done"
  BY <1>0 DEF Writing
<1>1. ASSUME NEW c \in Calls, Read(c) \/ ReadFails(c) \/ WriteRejected(c)
      PROVE  UNCHANGED object
  BY <1>1 DEF Read, ReadFails, WriteRejected
<1>2. ASSUME NEW c \in Calls, Write(c) PROVE UNCHANGED object \/ Renewed
  BY <1>0, <1>2, StoreFacts DEF Write
<1>3. ASSUME NEW c \in Calls, WriteFails(c) PROVE UNCHANGED object \/ Renewed
  BY <1>0, <1>3, StoreFacts DEF WriteFails
<1>4. ASSUME OthersWrite PROVE Renewed
  BY <1>4, OthersFacts
<1>5. ASSUME ApplyStep \/ UNCHANGED vars PROVE UNCHANGED object
  BY <1>5 DEF ApplyStep, vars
<1> QED
  BY <1>1, <1>2, <1>3, <1>4, <1>5 DEF Next, CallStep

\* What a step does to the calls: one of them reads, or ends, or goes on after a read
\* that failed.
Reads(c) ==
    /\ pc[c] = "new" /\ Tool(c) \in Readers /\ ~RefusesKey(c) /\ store # Absent
    /\ seen' = [seen EXCEPT ![c] = store] /\ pc' = [pc EXCEPT ![c] = "read"]
    /\ UNCHANGED <<store, version, answer>>

Refuses(c) ==
    /\ pc[c] = "new" /\ Tool(c) \in Markers /\ store # Absent
    /\ seen' = [seen EXCEPT ![c] = store] /\ Answer(c, "refused")
    /\ UNCHANGED <<store, version>>

GoesOn(c) ==
    /\ pc[c] = "new" /\ Tool(c) = "update_configmap"
    /\ pc' = [pc EXCEPT ![c] = "read"]
    /\ UNCHANGED <<store, version, seen, answer>>

Ends(c) ==
    /\ pc[c] # "done" /\ seen' = seen
    /\ \E how \in {"ok", "failed"} : Answer(c, how)

\* Every step is one of these moves of a call, or leaves the calls alone.
LEMMA CallMoves ==
    [Next]_vars =>
        \/ \E c \in Calls : Reads(c) \/ Refuses(c) \/ GoesOn(c) \/ Ends(c)
        \/ UNCHANGED <<pc, seen, answer>>
<1> SUFFICES ASSUME [Next]_vars
             PROVE  \/ \E c \in Calls : Reads(c) \/ Refuses(c) \/ GoesOn(c) \/ Ends(c)
                    \/ UNCHANGED <<pc, seen, answer>>
  OBVIOUS
<1>1. ASSUME NEW c \in Calls, Read(c) PROVE Reads(c) \/ Refuses(c)
  BY <1>1 DEF Read, Reads, Refuses, RefusesKey, object
<1>2. ASSUME NEW c \in Calls, ReadFails(c) PROVE GoesOn(c) \/ Ends(c)
  BY <1>2 DEF ReadFails, GoesOn, Ends, object
<1>3. ASSUME NEW c \in Calls, Write(c) \/ WriteRejected(c) \/ WriteFails(c) PROVE Ends(c)
  BY <1>3 DEF Write, WriteRejected, WriteFails, Writing, Ends
<1>4. ASSUME ApplyStep \/ OthersWrite \/ UNCHANGED vars PROVE UNCHANGED <<pc, seen, answer>>
  BY <1>4 DEF ApplyStep, OthersWrite, vars, call
<1> QED
  BY <1>1, <1>2, <1>3, <1>4 DEF Next, CallStep

\* Every step keeps what the calls were asked.
LEMMA AskedStep == WritesInv /\ [Next]_vars => AskedTold'
<1> SUFFICES ASSUME WritesInv, [Next]_vars PROVE AskedTold'
  OBVIOUS
<1>1. subject' = subject /\ request' = request
  BY FixedStep
<1>2. \A c \in Calls : pc'[c] # "done" => pc[c] # "done"
  <2>1. pc \in [Calls -> {"new", "read", "done"}]
    BY DEF WritesInv, CallsTold
  <2> QED
    BY <2>1, CallMoves DEF Reads, Refuses, GoesOn, Ends, Answer
<1> QED
  BY <1>1, <1>2 DEF WritesInv, AskedTold, Tool

\* Every step keeps what is stored.
LEMMA ObjectStep == WritesInv /\ [Next]_vars => ObjectTold'
<1> SUFFICES ASSUME WritesInv, [Next]_vars PROVE ObjectTold'
  OBVIOUS
<1>1. CASE UNCHANGED object
  BY <1>1, FixedStep DEF object, WritesInv, ObjectTold
<1>2. CASE Renewed
  BY <1>2, FixedStep DEF Renewed, WritesInv, ObjectTold
<1> QED
  BY <1>1, <1>2, ObjectMoves

\* Every step keeps the calls' places.
LEMMA CallsStep == WritesInv /\ [Next]_vars => CallsTold'
<1> SUFFICES ASSUME WritesInv, [Next]_vars PROVE CallsTold'
  OBVIOUS
<1> USE DEF WritesInv, CallsTold
<1>0. store \in Objects
  BY DEF ObjectTold
<1>1. ASSUME NEW c \in Calls, Reads(c) PROVE CallsTold'
  BY <1>0, <1>1 DEF Reads
<1>2. ASSUME NEW c \in Calls, Refuses(c) PROVE CallsTold'
  BY <1>0, <1>2 DEF Refuses, Answer
<1>3. ASSUME NEW c \in Calls, GoesOn(c) PROVE CallsTold'
  BY <1>3 DEF GoesOn
<1>4. ASSUME NEW c \in Calls, Ends(c) PROVE CallsTold'
  BY <1>4 DEF Ends, Answer
<1>5. CASE UNCHANGED <<pc, seen, answer>>
  BY <1>5
<1> QED
  BY <1>1, <1>2, <1>3, <1>4, <1>5, CallMoves

\* What a call has read stays an earlier object, or the one that is stored.
LEMMA SeenStays ==
    ASSUME WritesInv, NEW c \in Calls, UNCHANGED object \/ Renewed, seen'[c] = seen[c]
    PROVE  /\ seen'[c] = NotRead \/ (seen'[c] \in Objects /\ seen'[c].rv \in 1..version')
           /\ seen'[c].rv # 0 /\ seen'[c].rv = store'.rv => seen'[c] = store'
<1>1. /\ seen[c] = NotRead \/ (seen[c] \in Objects /\ seen[c].rv \in 1..version)
      /\ seen[c].rv # 0 /\ seen[c].rv = store.rv => seen[c] = store
      /\ version \in Nat
  BY DEF WritesInv, SeenTold, ObjectTold
<1>2. CASE UNCHANGED object
  BY <1>1, <1>2 DEF object
<1>3. CASE Renewed
  <2>1. version' = version + 1 /\ (store'.rv = 0 \/ store'.rv = version')
    BY <1>3, AbsentFacts DEF Renewed
  <2>2. seen[c].rv \in 0..version
    BY <1>1, AbsentFacts
  <2>3. ~(seen[c].rv # 0 /\ seen[c].rv = store'.rv)
    BY <1>1, <2>1, <2>2
  <2>4. seen[c].rv \in 1..version => seen[c].rv \in 1..version'
    BY <1>1, <2>1
  <2> QED
    BY <1>1, <2>3, <2>4
<1> QED
  BY <1>2, <1>3

\* Every step keeps what the calls have read.
LEMMA SeenStep == WritesInv /\ [Next]_vars => SeenTold'
<1> SUFFICES ASSUME WritesInv, [Next]_vars, NEW c \in Calls
             PROVE  /\ /\ seen'[c] = NotRead
                          \/ (seen'[c] \in Objects /\ seen'[c].rv \in 1..version')
                       /\ seen'[c].rv # 0 /\ seen'[c].rv = store'.rv => seen'[c] = store'
                    /\ seen'[c] # NotRead => Tool(c) \in Readers
                    /\ pc'[c] = "read" /\ Tool(c) # "update_configmap" => seen'[c] # NotRead
                    /\ pc'[c] = "read" /\ Tool(c) \in Markers /\ request[c].overwrite = FALSE
                          => seen'[c].field[OwnField(Tool(c))] = Unset
  BY FixedStep DEF SeenTold, Tool
<1>0. /\ seen \in [Calls -> Objects \cup {NotRead}]
      /\ pc \in [Calls -> {"new", "read", "done"}]
      /\ answer \in [Calls -> {"none", "ok", "refused", "failed"}]
  BY DEF WritesInv, CallsTold
<1>1. UNCHANGED object \/ Renewed
  BY ObjectMoves
<1>2. /\ seen[c] # NotRead => Tool(c) \in Readers
      /\ pc[c] = "read" /\ Tool(c) # "update_configmap" => seen[c] # NotRead
      /\ pc[c] = "read" /\ Tool(c) \in Markers /\ request[c].overwrite = FALSE =>
            seen[c].field[OwnField(Tool(c))] = Unset
  BY DEF WritesInv, SeenTold
<1>3. CASE /\ seen'[c] = seen[c]
           /\ (pc'[c] = "read" => pc[c] = "read" \/ Tool(c) = "update_configmap")
  <2>1. Tool(c) = "update_configmap" => Tool(c) \notin Markers
    BY DEF Markers
  <2> QED
    BY <1>1, <1>2, <1>3, <2>1, SeenStays
<1>4. CASE Reads(c) \/ Refuses(c)
  <2>1. /\ seen'[c] = store /\ store # Absent /\ store' = store /\ version' = version
        /\ Tool(c) \in Readers
    BY <1>0, <1>4 DEF Reads, Refuses, Markers, Readers
  <2>2. store \in Objects /\ store.rv = version /\ version \in Nat \ {0}
    BY <2>1 DEF WritesInv, ObjectTold
  <2>3. store.rv # 0 /\ store.rv \in 1..version
    BY <2>2
  <2>4. store # NotRead
    BY <2>3, AbsentFacts
  <2>5. pc'[c] = "read" /\ Tool(c) \in Markers /\ request[c].overwrite = FALSE =>
           store.field[OwnField(Tool(c))] = Unset
    <3>1. CASE Reads(c)
      BY <3>1 DEF Reads, RefusesKey
    <3>2. CASE Refuses(c)
      BY <1>0, <3>2 DEF Refuses, Answer
    <3> QED
      BY <1>4, <3>1, <3>2
  <2> QED
    BY <2>1, <2>2, <2>3, <2>4, <2>5
<1>5. \/ Reads(c) \/ Refuses(c)
      \/ /\ seen'[c] = seen[c]
         /\ pc'[c] = "read" => pc[c] = "read" \/ Tool(c) = "update_configmap"
  BY <1>0, CallMoves DEF Reads, Refuses, GoesOn, Ends, Answer
<1> QED
  BY <1>3, <1>4, <1>5

\* In every reachable state the object has the last version given out, a call has read
\* an earlier object or the one that is stored, and a label or annotation call that
\* goes on found its key free (scale.go:281-340, resources.go:80-107,
\* ephemeral.go:46-68).
THEOREM WritesInvariant == Spec => []WritesInv
<1>1. WritesInv /\ [Next]_vars => WritesInv'
  BY AskedStep, ObjectStep, SeenStep, CallsStep DEF WritesInv
<1> QED
  BY <1>1, InitWrites, PTL DEF Spec

\* Only the call itself ends it, with a write that was accepted.
LEMMA WriteMoves ==
    ASSUME WritesInv, [Next]_vars, NEW c \in Calls, pc[c] # "done", pc'[c] = "done",
           store' # store
    PROVE  /\ Writing(c) /\ Accepted(c) /\ request[c].dryRun = FALSE
           /\ store' \in Written(c, version + 1)
<1>0. pc \in [Calls -> {"new", "read", "done"}]
  BY DEF WritesInv, CallsTold
<1>1. ASSUME NEW d \in Calls, Write(d) \/ WriteFails(d)
      PROVE  Writing(d) /\ Accepted(d) /\ Store(d) /\ d = c
  <2>1. Writing(d) /\ Accepted(d) /\ Store(d)
    BY <1>1 DEF Write, WriteFails, object
  <2>2. d = c
    BY <1>0, <1>1 DEF Write, WriteFails, Answer
  <2> QED
    BY <2>1, <2>2
<1>2. ASSUME NEW d \in Calls, Read(d) \/ ReadFails(d) \/ WriteRejected(d) PROVE FALSE
  BY <1>2 DEF Read, ReadFails, WriteRejected, object
<1>3. ASSUME ApplyStep \/ OthersWrite \/ UNCHANGED vars PROVE FALSE
  BY <1>3 DEF ApplyStep, OthersWrite, vars, call, object
<1>4. Writing(c) /\ Accepted(c) /\ Store(c)
  BY <1>1, <1>2, <1>3 DEF Next, CallStep
<1>5. request[c].dryRun \in BOOLEAN
  BY DEF WritesInv, AskedTold
<1> QED
  BY <1>4, <1>5 DEF Store, object

\* A call's own write keeps what others wrote after its read, except the field it is
\* about when that is a label, an annotation or the replica count (resources.go:107,
\* scale.go:52, scale.go:331, ephemeral.go:68).
THEOREM OthersWritesSurvive == Spec => UndoesOnlyOwnField
<1>1. WritesInv /\ [Next]_vars =>
         [\A c \in Calls : Writes(c) /\ seen[c] # NotRead =>
             /\ \A f \in Fields :
                   /\ store.field[f] # seen[c].field[f]
                   /\ store'.field[f] # store.field[f]
                   => f = OwnField(Tool(c)) /\ f # "data"
             /\ store.attached \subseteq store'.attached]_vars
  <2> SUFFICES ASSUME WritesInv, [Next]_vars, NEW c \in Calls, Writes(c), seen[c] # NotRead
               PROVE  /\ \A f \in Fields :
                            /\ store.field[f] # seen[c].field[f]
                            /\ store'.field[f] # store.field[f]
                            => f = OwnField(Tool(c)) /\ f # "data"
                      /\ store.attached \subseteq store'.attached
    OBVIOUS
  <2>0. pc[c] # "done" /\ store \in Objects /\ version + 1 \in Nat
    BY DEF Writes, WritesInv, ObjectTold
  <2>1. /\ Writing(c) /\ Accepted(c) /\ store' \in Written(c, version + 1)
    BY WriteMoves DEF Writes
  <2>2. Tool(c) \in Readers /\ subject \in Kinds /\ Tool(c) \in ToolsOf(subject)
    BY <2>0 DEF WritesInv, SeenTold, AskedTold
  <2>3. CASE Tool(c) = "update_configmap"
    <3>1. seen[c] = store
      BY <2>1, <2>3, SentIsStored
    <3>2. store.attached = {}
      BY <2>2, <2>3, ToolFacts DEF WritesInv, ObjectTold
    <3> QED
      BY <3>1, <3>2
  <2>4. CASE Tool(c) = "add_ephemeral_container"
    <3>1. seen[c] = store
      BY <2>1, <2>4, SentIsStored
    <3>2. store' = [store EXCEPT !.rv = version + 1,
                                 !.attached = seen[c].attached \cup {request[c].name}]
      BY <2>1, <2>4 DEF Written
    <3>3. store'.attached = store.attached \cup {request[c].name}
      BY <2>0, <3>1, <3>2 DEF Objects
    <3> QED
      BY <3>1, <3>3
  <2>5. CASE Tool(c) \in {"label", "annotate", "scale"}
    <3>1. store' = [store EXCEPT !.rv = version + 1,
                                 !.field[OwnField(Tool(c))] = version + 1]
      BY <2>1, <2>5 DEF Written
    <3>2. /\ store'.attached = store.attached
          /\ store'.field = [store.field EXCEPT ![OwnField(Tool(c))] = version + 1]
      BY <2>0, <3>1 DEF Objects
    <3>3. \A f \in Fields : f # OwnField(Tool(c)) => store'.field[f] = store.field[f]
      BY <2>0, <3>2 DEF Objects
    <3>4. OwnField(Tool(c)) # "data"
      BY <2>5, OwnFieldFacts
    <3> QED
      BY <3>2, <3>3, <3>4
  <2> QED
    BY <2>2, <2>3, <2>4, <2>5 DEF Readers
<1> QED
  BY <1>1, WritesInvariant, PTL DEF Spec, UndoesOnlyOwnField

\* Without overwrite, a key that has a value changes only if the call had looked and
\* found none (scale.go:324).
THEOREM ExistingKeysKept == Spec => KeepsExistingKeys
<1>1. WritesInv /\ [Next]_vars =>
         [\A c \in Calls : Writes(c) /\ Tool(c) \in Markers /\ ~request[c].overwrite =>
             \/ store.field[OwnField(Tool(c))] = Unset
             \/ seen[c] # NotRead /\ seen[c].field[OwnField(Tool(c))] = Unset]_vars
  <2> SUFFICES ASSUME WritesInv, [Next]_vars, NEW c \in Calls, Writes(c),
                      Tool(c) \in Markers, ~request[c].overwrite
               PROVE  seen[c] # NotRead /\ seen[c].field[OwnField(Tool(c))] = Unset
    OBVIOUS
  <2>1. pc[c] # "done" /\ Writing(c)
    BY WriteMoves DEF Writes
  <2>2. pc[c] = "read" /\ Tool(c) # "update_configmap"
    BY <2>1 DEF Writing, Markers, Readers
  <2>3. request[c].overwrite = FALSE
    BY <2>1 DEF WritesInv, AskedTold
  <2> QED
    BY <2>2, <2>3 DEF WritesInv, SeenTold
<1> QED
  BY <1>1, WritesInvariant, PTL DEF Spec, KeepsExistingKeys

----------------------------------------------------------------------------
\* add_ephemeral_container keeps its promise.

Outcomes == [c \in Calls |-> Outcome(c)]

\* A call that is answered has the outcome of its answer; other calls have none.
LEMMA OutcomeMoves ==
    ASSUME WritesInv, [Next]_vars, NEW c \in Calls, pc[c] # "done",
           seen' = seen \/ seen' = [seen EXCEPT ![c] = store],
           NEW how \in {"ok", "refused", "failed"}, Answer(c, how)
    PROVE  /\ Tool(c) # "add_ephemeral_container" => Outcomes' = Outcomes
           /\ Tool(c) = "add_ephemeral_container" =>
                 /\ Outcomes[c] = "pending"
                 /\ Outcomes' = [Outcomes EXCEPT ![c] = IF how = "ok" THEN "attached"
                                                        ELSE "failed"]
<1>1. /\ request' = request /\ answer' = [answer EXCEPT ![c] = how] /\ answer[c] = "none"
      /\ answer \in [Calls -> {"none", "ok", "refused", "failed"}]
  BY FixedStep DEF Answer, WritesInv, CallsTold
<1>2. ASSUME NEW d \in Calls, d # c PROVE Outcome(d)' = Outcome(d)
  BY <1>1, <1>2 DEF Outcome, Tool
<1>3. ASSUME Tool(c) # "add_ephemeral_container" PROVE Outcome(c)' = Outcome(c)
  BY <1>1, <1>3 DEF Outcome, Tool
<1>4. ASSUME Tool(c) = "add_ephemeral_container"
      PROVE  /\ Outcome(c) = "pending"
             /\ Outcome(c)' = IF how = "ok" THEN "attached" ELSE "failed"
  BY <1>1, <1>4 DEF Outcome, Tool
<1> QED
  BY <1>2, <1>3, <1>4 DEF Outcomes

\* A write of another tool leaves the list of containers, or takes the object away.
LEMMA OtherToolsLeaveList ==
    ASSUME WritesInv, NEW c \in Calls, pc[c] # "done", Writing(c), Accepted(c), Store(c),
           Tool(c) # "add_ephemeral_container"
    PROVE  store'.attached = store.attached \/ store'.attached = {}
<1> DEFINE v == version + 1
<1>1. v \in Nat /\ store \in Objects
  BY DEF WritesInv, ObjectTold
<1>2. subject \in Kinds /\ Tool(c) \in ToolsOf(subject)
  BY DEF WritesInv, AskedTold
<1>3. CASE request[c].dryRun
  BY <1>3 DEF Store, object
<1>4. CASE ~request[c].dryRun
  <2>0. store' \in Written(c, v)
    BY <1>4 DEF Store
  <2>1. CASE Tool(c) \in {"create_configmap", "update_configmap"}
    <3>1. store' = [Fresh(v) EXCEPT !.field["replicas"] = store.field["replicas"]]
      BY <2>0, <2>1 DEF Written
    <3> QED
      BY <1>1, <3>1, FreshFacts DEF Objects
  <2>2. CASE Tool(c) \in {"label", "annotate", "scale"}
    <3>1. store' = [store EXCEPT !.rv = v, !.field[OwnField(Tool(c))] = v]
      BY <2>0, <2>2 DEF Written
    <3> QED
      BY <1>1, <3>1 DEF Objects
  <2>3. CASE Tool(c) = "patch"
    <3>1. PICK f \in Fields : store' = [store EXCEPT !.rv = v, !.field[f] = v]
      BY <2>0, <2>3 DEF Written
    <3> QED
      BY <1>1, <3>1 DEF Objects
  <2>4. CASE Tool(c) \in {"delete_manifest", "delete_pod"}
    BY <2>0, <2>4, AbsentFacts DEF Written
  <2> QED
    BY <1>2, <2>1, <2>2, <2>3, <2>4, ToolFacts
<1> QED
  BY <1>3, <1>4

\* add_ephemeral_container adds its container to the list that is there.
LEMMA AddsOne ==
    ASSUME WritesInv, NEW c \in Calls, pc[c] # "done", Writing(c), Accepted(c), Store(c),
           Tool(c) = "add_ephemeral_container"
    PROVE  \E n \in ContainerNames \ store.attached : store'.attached = store.attached \cup {n}
<1>1. store \in Objects
  BY DEF WritesInv, ObjectTold
<1>2. request[c].dryRun = FALSE /\ request[c].name \in ContainerNames
  BY DEF WritesInv, AskedTold
<1>3. seen[c] = store
  <2>1. seen[c] # NotRead
    BY DEF WritesInv, SeenTold, Writing, Readers
  <2> QED
    BY <2>1, SentIsStored
<1>4. store' = [store EXCEPT !.rv = version + 1,
                             !.attached = seen[c].attached \cup {request[c].name}]
  BY <1>2 DEF Store, Written
<1>5. store'.attached = store.attached \cup {request[c].name}
  BY <1>1, <1>3, <1>4 DEF Objects
<1>6. request[c].name \notin store.attached
  BY <1>3 DEF Accepted
<1> QED
  BY <1>2, <1>5, <1>6

\* Every step is one of the promise, or changes nothing of it.
LEMMA PromiseStep == WritesInv /\ [Next]_vars => [Promise!Next]_(Promise!vars)
<1> SUFFICES ASSUME WritesInv, [Next]_vars PROVE Promise!Next \/ UNCHANGED Promise!vars
  OBVIOUS
<1> DEFINE list == store.attached
<1>a. ASSUME list' = list, Outcomes' = Outcomes PROVE UNCHANGED Promise!vars
  BY <1>a DEF Promise!vars, Outcomes
<1>b. ASSUME list' = {}, Outcomes' = Outcomes PROVE Promise!Next
  BY <1>b DEF Promise!Next, Promise!PodGone, Outcomes
<1>c. ASSUME NEW c \in Calls, list' = list, Outcomes[c] = "pending",
             Outcomes' = [Outcomes EXCEPT ![c] = "failed"]
      PROVE  Promise!Next
  BY <1>c DEF Promise!Next, Promise!Fail, Outcomes
<1>d. ASSUME NEW c \in Calls, \E n \in ContainerNames \ list : list' = list \cup {n},
             Outcomes[c] = "pending", NEW o \in {"attached", "failed"},
             Outcomes' = [Outcomes EXCEPT ![c] = o]
      PROVE  Promise!Next
  BY <1>d DEF Promise!Next, Promise!Attach, Outcomes
<1>e. ASSUME UNCHANGED <<answer>> PROVE Outcomes' = Outcomes
  BY <1>e, FixedStep DEF Outcomes, Outcome, Tool
<1>1. ASSUME NEW c \in Calls, Read(c) PROVE Promise!Next \/ UNCHANGED Promise!vars
  <2>1. list' = list
    BY <1>1 DEF Read, object
  <2>2. Outcomes' = Outcomes
    <3>1. CASE UNCHANGED answer
      BY <1>e, <3>1
    <3>2. CASE Answer(c, "refused") /\ Tool(c) \in Markers /\ pc[c] # "done"
                 /\ seen' = [seen EXCEPT ![c] = store]
      BY <3>2, OutcomeMoves DEF Markers
    <3> QED
      BY <1>1, <3>1, <3>2 DEF Read, RefusesKey
  <2> QED
    BY <1>a, <2>1, <2>2
<1>2. ASSUME NEW c \in Calls, list' = list, pc[c] # "done", seen' = seen, Answer(c, "failed")
      PROVE  Promise!Next \/ UNCHANGED Promise!vars
  <2>1. CASE Tool(c) = "add_ephemeral_container"
    BY <1>2, <1>c, <2>1, OutcomeMoves
  <2>2. CASE Tool(c) # "add_ephemeral_container"
    BY <1>2, <1>a, <2>2, OutcomeMoves
  <2> QED
    BY <2>1, <2>2
<1>3. ASSUME NEW c \in Calls, pc[c] # "done", seen' = seen, NEW how \in {"ok", "failed"},
             Answer(c, how), Writing(c), Accepted(c), Store(c)
      PROVE  Promise!Next \/ UNCHANGED Promise!vars
  <2>1. CASE Tool(c) = "add_ephemeral_container"
    <3>1. \E n \in ContainerNames \ list : list' = list \cup {n}
      BY <1>3, <2>1, AddsOne
    <3>2. /\ Outcomes[c] = "pending"
          /\ \E o \in {"attached", "failed"} : Outcomes' = [Outcomes EXCEPT ![c] = o]
      BY <1>3, <2>1, OutcomeMoves
    <3> QED
      BY <1>d, <3>1, <3>2
  <2>2. CASE Tool(c) # "add_ephemeral_container"
    <3>1. Outcomes' = Outcomes
      BY <1>3, <2>2, OutcomeMoves
    <3>2. list' = list \/ list' = {}
      BY <1>3, <2>2, OtherToolsLeaveList
    <3> QED
      BY <1>a, <1>b, <3>1, <3>2
  <2> QED
    BY <2>1, <2>2
<1>4. ASSUME NEW c \in Calls, ReadFails(c) PROVE Promise!Next \/ UNCHANGED Promise!vars
  <2>1. list' = list /\ pc[c] # "done" /\ seen' = seen
    BY <1>4 DEF ReadFails, object
  <2>2. UNCHANGED answer \/ Answer(c, "failed")
    BY <1>4 DEF ReadFails
  <2> QED
    BY <1>2, <1>a, <1>e, <2>1, <2>2
<1>5. ASSUME NEW c \in Calls, WriteRejected(c) PROVE Promise!Next \/ UNCHANGED Promise!vars
  <2>1. list' = list /\ pc[c] # "done" /\ seen' = seen /\ Answer(c, "failed")
    BY <1>5 DEF WriteRejected, Writing, object
  <2> QED
    BY <1>2, <2>1
<1>6. ASSUME NEW c \in Calls, Write(c) PROVE Promise!Next \/ UNCHANGED Promise!vars
  <2>1. /\ pc[c] # "done" /\ seen' = seen /\ Answer(c, "ok")
        /\ Writing(c) /\ Accepted(c) /\ Store(c)
    BY <1>6 DEF Write, Writing
  <2> QED
    BY <1>3, <2>1
<1>7. ASSUME NEW c \in Calls, WriteFails(c) PROVE Promise!Next \/ UNCHANGED Promise!vars
  <2>1. pc[c] # "done" /\ seen' = seen /\ Answer(c, "failed") /\ Writing(c)
    BY <1>7 DEF WriteFails, Writing
  <2>2. list' = list \/ (Accepted(c) /\ Store(c))
    BY <1>7 DEF WriteFails, object
  <2> QED
    BY <1>2, <1>3, <2>1, <2>2
<1>8. ASSUME OthersWrite PROVE Promise!Next \/ UNCHANGED Promise!vars
  <2>0. Outcomes' = Outcomes /\ store \in Objects /\ version' \in Nat
    <3>1. UNCHANGED answer /\ version' = version + 1
      BY <1>8 DEF OthersWrite, call
    <3> QED
      BY <1>e, <3>1 DEF WritesInv, ObjectTold
  <2>1. ASSUME NEW f \in Fields, store' = [store EXCEPT !.rv = version', !.field[f] = version']
        PROVE  list' = list
    BY <2>0, <2>1 DEF Objects
  <2>2. ASSUME NEW n \in ContainerNames \ store.attached,
               store' = [store EXCEPT !.rv = version', !.attached = @ \cup {n}]
        PROVE  Promise!Next
    <3>1. list' = list \cup {n}
      BY <2>0, <2>2 DEF Objects
    <3> QED
      BY <2>0, <3>1 DEF Promise!Next, Promise!OthersAttach, Outcomes
  <2>3. CASE store' = Absent \/ store' = Fresh(version')
    <3>1. list' = {}
      BY <2>0, <2>3, AbsentFacts, FreshFacts
    <3> QED
      BY <1>b, <2>0, <3>1
  <2> QED
    BY <1>8, <1>a, <2>0, <2>1, <2>2, <2>3 DEF OthersWrite
<1>9. ASSUME ApplyStep \/ UNCHANGED vars PROVE UNCHANGED Promise!vars
  <2>1. list' = list /\ UNCHANGED answer
    BY <1>9 DEF ApplyStep, vars, object, call
  <2> QED
    BY <1>a, <1>e, <2>1
<1> QED
  BY <1>1, <1>4, <1>5, <1>6, <1>7, <1>8, <1>9 DEF Next, CallStep

\* The reads and the updates of add_ephemeral_container implement ContainerList: each
\* call adds its container in one step or not at all (ephemeral.go:46-68).
THEOREM AttachingIsAtomic == Spec => AttachesAtomically
<1>1. Init => Promise!Init
  <2> SUFFICES ASSUME Init PROVE Promise!Init
    OBVIOUS
  <2>1. store.attached \in SUBSET ContainerNames
    BY InitWrites DEF WritesInv, ObjectTold, Objects
  <2>2. \A c \in Calls : Outcome(c) = "pending"
    BY DEF Init, Outcome
  <2> QED
    BY <2>1, <2>2 DEF Promise!Init
<1> QED
  BY <1>1, PromiseStep, WritesInvariant, PTL DEF Spec, AttachesAtomically, Promise!Spec

----------------------------------------------------------------------------
\* apply_manifest.

\* The documents before the one in hand are applied, or dropped; after them none is.
ManifestTold ==
    /\ Len(manifest) \in Nat
    /\ at \in Nat /\ stored \subseteq Nat
    /\ at = 0 => stored = {}
    /\ dryRun => stored = {}
    /\ verdict = "none" => \A i \in stored : i < at
    /\ at > 0 =>
          \A j \in 1..(at - 1) :
             \/ manifest[j] = "empty"
             \/ manifest[j] = "good" /\ (dryRun \/ j \in stored)
             \/ \E k \in 1..j : manifest[k] = "cut"
    /\ \A i \in stored : \A j \in 1..i :
          manifest[j] = "empty" \/ (manifest[j] = "good" /\ j \in stored)
    /\ verdict = "applied" => at > Len(manifest)

\* The initial states satisfy what is told of the manifest.
LEMMA InitManifest == Init => ManifestTold
<1> SUFFICES ASSUME Init PROVE ManifestTold
  OBVIOUS
<1>1. manifest \in UNION {[1..n -> Documents] : n \in 0..MaxDocuments} \/ manifest = <<>>
  BY DEF Init, ManifestInit
<1>2. Len(manifest) \in Nat
  <2>1. CASE manifest = <<>>
    BY <2>1
  <2>2. ASSUME NEW n \in 0..MaxDocuments, manifest \in [1..n -> Documents]
        PROVE  Len(manifest) \in Nat
    <3>1. manifest \in Seq(Documents)
      BY <2>2, ManifestAssumption DEF ManifestAssumption
    <3> QED
      BY <3>1
  <2> QED
    BY <1>1, <2>1, <2>2
<1>3. at = 0 /\ stored = {} /\ verdict \in {"none", "refused"}
  BY DEF Init, ManifestInit
<1> QED
  BY <1>2, <1>3 DEF ManifestTold

\* The document in hand, the good one among them, has only such before it as are
\* applied or empty.
LEMMA InHandTold ==
    ASSUME ManifestTold, InHand
    PROVE  /\ at \in Nat \ {0} /\ at \notin stored
           /\ \A j \in 1..(at - 1) :
                 \/ manifest[j] = "empty"
                 \/ manifest[j] = "good" /\ (dryRun \/ j \in stored)
<1>1. at \in Nat \ {0} /\ at \in Decoded /\ verdict = "none"
  BY DEF ManifestTold, InHand
<1>2. \A j \in 1..at : manifest[j] # "cut"
  BY <1>1 DEF Decoded
<1>3. at \notin stored
  BY <1>1 DEF ManifestTold
<1>4. ASSUME NEW j \in 1..(at - 1), NEW k \in 1..j PROVE manifest[k] # "cut"
  BY <1>1, <1>2, <1>4
<1> QED
  BY <1>1, <1>3, <1>4 DEF ManifestTold

\* Storing the document in hand keeps the stored ones in order.
LEMMA StoredInOrder ==
    ASSUME ManifestTold, InHand, manifest[at] = "good", manifest' = manifest, ~dryRun,
           stored' = stored \cup {at}
    PROVE  /\ stored' \subseteq Nat
           /\ \A i \in stored' : i <= at
           /\ \A i \in stored' : \A j \in 1..i :
                 manifest'[j] = "empty" \/ (manifest'[j] = "good" /\ j \in stored')
<1>1. /\ at \in Nat \ {0} /\ stored \subseteq Nat /\ \A i \in stored : i < at
      /\ \A i \in stored : \A j \in 1..i :
            manifest[j] = "empty" \/ (manifest[j] = "good" /\ j \in stored)
  BY DEF ManifestTold, InHand
<1>2. \A j \in 1..(at - 1) : manifest[j] = "empty" \/ (manifest[j] = "good" /\ j \in stored)
  BY InHandTold
<1>3. \A j \in 1..at : manifest[j] = "empty" \/ (manifest[j] = "good" /\ j \in stored')
  BY <1>1, <1>2
<1> QED
  BY <1>1, <1>3

\* Every step of the manifest keeps it.
LEMMA ManifestStep == ManifestTold /\ [Next]_vars => ManifestTold'
<1> SUFFICES ASSUME ManifestTold, [Next]_vars PROVE ManifestTold'
  OBVIOUS
<1>0. at \in Nat /\ Len(manifest) \in Nat
  BY DEF ManifestTold
<1>1. ASSUME Decode PROVE ManifestTold'
  <2>1. /\ manifest' = manifest /\ dryRun' = dryRun /\ stored' = stored /\ at = 0
        /\ \/ verdict' = "refused" /\ at' = at
           \/ verdict' = verdict /\ verdict = "none" /\ at' = 1
    BY <1>1 DEF Decode
  <2> QED
    BY <2>1 DEF ManifestTold
<1>2. ASSUME Skip PROVE ManifestTold'
  <2>1. /\ manifest' = manifest /\ dryRun' = dryRun /\ stored' = stored /\ at > 0
        /\ at' = at + 1 /\ verdict' = verdict /\ verdict = "none" /\ at <= Len(manifest)
        /\ at \notin Decoded
    BY <1>2 DEF Skip
  <2>2. manifest[at] = "empty" \/ \E k \in 1..at : manifest[k] = "cut"
    BY <1>0, <2>1 DEF Decoded
  <2>3. \A j \in 1..(at' - 1) : j \in 1..(at - 1) \/ j = at
    BY <1>0, <2>1
  <2>4. \A i \in stored : i < at'
    BY <1>0, <2>1 DEF ManifestTold
  <2> QED
    BY <1>0, <2>1, <2>2, <2>3, <2>4 DEF ManifestTold
<1>3. ASSUME RefuseDocument \/ RejectDocument PROVE ManifestTold'
  <2>1. /\ manifest' = manifest /\ dryRun' = dryRun /\ stored' = stored /\ at' = at
        /\ verdict' \in {"refused", "failed"}
    BY <1>3 DEF RefuseDocument, RejectDocument, StopAt
  <2> QED
    BY <2>1 DEF ManifestTold
<1>4. ASSUME ApplyDocument PROVE ManifestTold'
  <2>1. /\ manifest' = manifest /\ dryRun' = dryRun /\ InHand /\ manifest[at] = "good"
        /\ at' = at + 1 /\ verdict' = verdict /\ verdict = "none"
    BY <1>4 DEF ApplyDocument, InHand
  <2>2. \A j \in 1..(at' - 1) : j \in 1..(at - 1) \/ j = at
    BY <1>0, <2>1
  <2>3. CASE dryRun
    <3>1. stored' = stored /\ stored = {}
      BY <1>4, <2>3 DEF ApplyDocument, ManifestTold
    <3>2. \A j \in 1..(at' - 1) :
             manifest'[j] = "empty" \/ (manifest'[j] = "good" /\ (dryRun' \/ j \in stored'))
      BY <2>1, <2>2, <2>3, InHandTold
    <3> QED
      BY <1>0, <2>1, <3>1, <3>2 DEF ManifestTold
  <2>4. CASE ~dryRun
    <3>1. stored' = stored \cup {at}
      BY <1>4, <2>4 DEF ApplyDocument
    <3>2. /\ stored' \subseteq Nat /\ \A i \in stored' : i <= at
          /\ \A i \in stored' : \A j \in 1..i :
                manifest'[j] = "empty" \/ (manifest'[j] = "good" /\ j \in stored')
      BY <2>1, <2>4, <3>1, StoredInOrder
    <3>3. \A j \in 1..(at' - 1) :
             manifest'[j] = "empty" \/ (manifest'[j] = "good" /\ (dryRun' \/ j \in stored'))
      BY <2>1, <2>2, <3>1, InHandTold
    <3>4. /\ at' \in Nat /\ at' # 0 /\ \A i \in stored' : i < at'
      BY <1>0, <2>1, <3>2
    <3> QED
      BY <1>0, <2>1, <2>4, <3>2, <3>3, <3>4 DEF ManifestTold
  <2> QED
    BY <2>3, <2>4
<1>5. ASSUME ApplyFails PROVE ManifestTold'
  <2>1. /\ manifest' = manifest /\ dryRun' = dryRun /\ InHand /\ manifest[at] = "good"
        /\ at' = at /\ verdict' = "failed" /\ at > 0
        /\ stored' = stored \/ (~dryRun /\ stored' = stored \cup {at})
    BY <1>5 DEF ApplyFails, StopAt, InHand
  <2>2. CASE stored' = stored
    BY <2>1, <2>2 DEF ManifestTold
  <2>3. CASE ~dryRun /\ stored' = stored \cup {at}
    <3>1. /\ stored' \subseteq Nat
          /\ \A i \in stored' : \A j \in 1..i :
                manifest'[j] = "empty" \/ (manifest'[j] = "good" /\ j \in stored')
      BY <2>1, <2>3, StoredInOrder
    <3>2. \A j \in 1..(at' - 1) :
             manifest'[j] = "empty" \/ (manifest'[j] = "good" /\ (dryRun' \/ j \in stored'))
      BY <2>1, <2>3, InHandTold
    <3> QED
      BY <1>0, <2>1, <2>3, <3>1, <3>2 DEF ManifestTold
  <2> QED
    BY <2>1, <2>2, <2>3
<1>6. ASSUME Applied PROVE ManifestTold'
  <2>1. /\ manifest' = manifest /\ dryRun' = dryRun /\ stored' = stored /\ at' = at
        /\ verdict' = "applied" /\ at > Len(manifest)
    BY <1>6 DEF Applied
  <2> QED
    BY <2>1 DEF ManifestTold
<1>7. ASSUME UNCHANGED manifestVars PROVE ManifestTold'
  BY <1>7 DEF manifestVars, ManifestTold
<1>8. ApplyStep => ManifestNext
  BY DEF ApplyStep
<1>9. ASSUME OthersWrite \/ (\E c \in Calls : CallStep(c)) \/ UNCHANGED vars
      PROVE  UNCHANGED manifestVars
  BY <1>9 DEF OthersWrite, CallStep, Read, ReadFails, Write, WriteRejected, WriteFails, vars
<1> QED
  BY <1>1, <1>2, <1>3, <1>4, <1>5, <1>6, <1>7, <1>8, <1>9 DEF Next, ManifestNext

\* Documents are applied in order, never around one that failed, and an answer
\* "applied" is true of every document up to one that is cut, for manifests of any
\* length (operations.go:145-186, 305).
THEOREM ManifestApplied == Spec => []ApplyExplained
<1>1. ManifestTold => ApplyExplained
  <2> SUFFICES ASSUME ManifestTold, verdict = "applied", ~dryRun, NEW i \in 1..Len(manifest)
               PROVE  \/ i \in stored \/ manifest[i] = "empty"
                      \/ \E j \in 1..i : manifest[j] = "cut"
    BY DEF ManifestTold, ApplyExplained
  <2>1. at \in Nat /\ Len(manifest) \in Nat /\ at > Len(manifest)
    BY DEF ManifestTold
  <2>2. i \in 1..(at - 1) /\ at > 0
    BY <2>1
  <2> QED
    BY <2>2 DEF ManifestTold
<1> QED
  BY <1>1, InitManifest, ManifestStep, PTL DEF Spec
====
