----------------------- MODULE WaitableOpListProofs -----------------------
(***************************************************************************)
(* The operation list, for any sets of operations: the counters are exact,  *)
(* commit() and rollback() run alone, one BEGIN WORK is out at a time, one   *)
(* query is out at a time, and no replica read runs in QUERY mode.           *)
(***************************************************************************)
EXTENDS WaitableOpList, FiniteSetTheorems, TLAPS

\* The places only one kind of operation reaches.
KindOK ==
  \A o \in Ops :
    /\ pc[o] \in {"drainKv", "drainQuery", "waitBegin", "beginWork"} => o \in QueryOps
    /\ pc[o] \in {"gotKv", "gotQuery", "waitNode"} => o \in KvOps
    /\ pc[o] = "waitNodeIn" => o \in ReplicaOps
    /\ pc[o] = "admitted" => o \in ReplicaOps \cup QueryOps

\* What the runner has done, and what a known node implies.
RunnerOK ==
  /\ runner \in {"blocked", "kvEnd", "queryEnd"} <=> ~allow_ops
  /\ nodeSet => mode = "QUERY"

\* The inductive invariant.
IInv ==
  /\ TypeOK /\ KindOK /\ RunnerOK
  /\ CountsMatch /\ BlockedMeansQuiet
  /\ OneBeginWork /\ QueriesAreSerial /\ CountedReadsSeeMode

\* The operations that f puts at the places S.
AtPlaces(f, S) == {p \in Ops : f[p] \in S}

\* 1 when the place s is one of S.
Bit(s, S) == IF s \in S THEN 1 ELSE 0

\* The operations at the places S are finitely many.
LEMMA InFinite == ASSUME NEW S PROVE IsFiniteSet(In(S)) /\ IsFiniteSet(Ops)
<1>1. IsFiniteSet(KvOps \cup ReplicaOps)
  BY Zenon, OpsAssumption, FS_Union
<1>2. IsFiniteSet(Ops)
  BY <1>1, OpsAssumption, FS_Union, Zenon DEF Ops
<1>3. In(S) \subseteq Ops
  BY DEF In
<1> QED
  BY <1>2, <1>3, FS_Subset

\* What moving one operation to place t does to the number of operations at
\* the places S.
LEMMA MoveCardinality ==
  ASSUME NEW f \in [Ops -> AllPc], NEW o \in Ops, NEW t \in AllPc, NEW S
  PROVE  LET A == AtPlaces(f, S)
             B == AtPlaces([f EXCEPT ![o] = t], S)
         IN  /\ Cardinality(A) \in Nat
             /\ Cardinality(A) >= Bit(f[o], S)
             /\ Cardinality(B) = Cardinality(A) - Bit(f[o], S) + Bit(t, S)
<1> DEFINE A == AtPlaces(f, S)
           B == AtPlaces([f EXCEPT ![o] = t], S)
<1>1. A \subseteq Ops
  BY DEF AtPlaces
<1>2. IsFiniteSet(A)
  BY <1>1, InFinite, FS_Subset
<1>3. Cardinality(A) \in Nat
  BY <1>2, FS_CardinalityType
<1>4. CASE f[o] \notin S /\ t \in S
  <2>1. o \notin A /\ B = A \cup {o}
    BY <1>4 DEF AtPlaces
  <2>2. Cardinality(B) = Cardinality(A) + 1
    BY Zenon, <1>2, <2>1, FS_AddElement
  <2> QED
    BY <1>3, <1>4, <2>2 DEF Bit
<1>5. CASE f[o] \in S /\ t \notin S
  <2>1. o \in A /\ B = A \ {o}
    BY <1>5 DEF AtPlaces
  <2>2. Cardinality(B) = Cardinality(A) - 1
    BY Zenon, <1>2, <2>1, FS_RemoveElement
  <2>3. Cardinality(A) # 0
    BY <1>2, <2>1, FS_EmptySet
  <2> QED
    BY <1>3, <1>5, <2>2, <2>3 DEF Bit
<1>6. CASE f[o] \in S /\ t \in S
  <2>1. o \in A /\ B = A
    BY <1>6 DEF AtPlaces
  <2>2. Cardinality(A) # 0
    BY <1>2, <2>1, FS_EmptySet
  <2> QED
    BY <1>3, <1>6, <2>1, <2>2 DEF Bit
<1>7. CASE f[o] \notin S /\ t \notin S
  <2>1. B = A
    BY <1>7 DEF AtPlaces
  <2> QED
    BY <1>3, <1>7, <2>1 DEF Bit
<1> QED
  BY <1>4, <1>5, <1>6, <1>7

\* Nothing in flight, or only one operation: read off the counter.
LEMMA FlightEmpty ==
  ASSUME CountsMatch
  PROVE  /\ in_flight = 0 => \A p \in Ops : pc[p] \notin InFlightPc
         /\ \A o \in Ops : pc[o] \in InFlightPc /\ in_flight = 1 =>
              \A p \in Ops : pc[p] \in InFlightPc => p = o
         /\ count = 0 => \A p \in Ops : pc[p] \notin CountedPc
<1>1. IsFiniteSet(InFlight) /\ IsFiniteSet(Counted)
  BY InFinite DEF InFlight, Counted
<1>2. in_flight = 0 => InFlight = {}
  BY <1>1, FS_EmptySet, Zenon DEF CountsMatch
<1>3. count = 0 => Counted = {}
  BY <1>1, FS_EmptySet, Zenon DEF CountsMatch
<1>4. ASSUME NEW o \in Ops, pc[o] \in InFlightPc, in_flight = 1,
             NEW p \in Ops, pc[p] \in InFlightPc
      PROVE  p = o
  <2>1. o \in InFlight /\ p \in InFlight
    BY <1>4 DEF InFlight, In
  <2>2. \E x : InFlight = {x}
    BY <1>1, <1>4, FS_Singleton, Zenon DEF CountsMatch
  <2> QED
    BY <2>1, <2>2
<1> QED
  BY <1>2, <1>3, <1>4 DEF InFlight, Counted, In

\* The invariant holds of a new attempt.
LEMMA InitIInv == Init => IInv
<1> SUFFICES ASSUME Init PROVE IInv
  OBVIOUS
<1>1. TypeOK /\ KindOK /\ RunnerOK
  BY Zenon DEF Init, TypeOK, KindOK, RunnerOK, AllPc, CountedPc, InFlightPc
<1>2. Counted = {} /\ InFlight = {}
  BY DEF Init, Counted, InFlight, In, CountedPc, InFlightPc, FlightWait
<1>3. CountsMatch
  BY <1>2, FS_EmptySet DEF Init, CountsMatch
<1>4. BlockedMeansQuiet /\ OneBeginWork /\ QueriesAreSerial /\ CountedReadsSeeMode
  BY DEF Init, BlockedMeansQuiet, OneBeginWork, QueriesAreSerial,
         CountedReadsSeeMode, At, Ops
<1> QED
  BY <1>1, <1>3, <1>4 DEF IInv

\* A move that changes the counters by what it changes of the counted sets.
LEMMA CountedMove ==
  ASSUME TypeOK, CountsMatch, NEW o \in Ops, NEW t \in AllPc,
         pc' = [pc EXCEPT ![o] = t],
         count' = count - Bit(pc[o], CountedPc) + Bit(t, CountedPc),
         in_flight' = in_flight - Bit(pc[o], InFlightPc) + Bit(t, InFlightPc)
  PROVE  CountsMatch' /\ count' \in Nat /\ in_flight' \in Nat
<1>1. pc \in [Ops -> AllPc] /\ count \in Nat /\ in_flight \in Nat
  BY DEF TypeOK
<1>2. count' = Cardinality(Counted') /\ count' \in Nat
  <2>1. /\ Counted = AtPlaces(pc, CountedPc)
        /\ Counted' = AtPlaces([pc EXCEPT ![o] = t], CountedPc)
    BY DEF Counted, In, AtPlaces
  <2>2. /\ Cardinality(Counted') =
             Cardinality(Counted) - Bit(pc[o], CountedPc) + Bit(t, CountedPc)
        /\ Cardinality(Counted) >= Bit(pc[o], CountedPc)
    BY Zenon, <1>1, <2>1, MoveCardinality
  <2>3. Bit(pc[o], CountedPc) \in Nat /\ Bit(t, CountedPc) \in Nat
    BY DEF Bit
  <2> QED
    BY <1>1, <2>2, <2>3 DEF CountsMatch
<1>3. in_flight' = Cardinality(InFlight') /\ in_flight' \in Nat
  <2>1. /\ InFlight = AtPlaces(pc, InFlightPc)
        /\ InFlight' = AtPlaces([pc EXCEPT ![o] = t], InFlightPc)
    BY DEF InFlight, In, AtPlaces
  <2>2. /\ Cardinality(InFlight') =
             Cardinality(InFlight) - Bit(pc[o], InFlightPc) + Bit(t, InFlightPc)
        /\ Cardinality(InFlight) >= Bit(pc[o], InFlightPc)
    BY Zenon, <1>1, <2>1, MoveCardinality
  <2>3. Bit(pc[o], InFlightPc) \in Nat /\ Bit(t, InFlightPc) \in Nat
    BY DEF Bit
  <2> QED
    BY <1>1, <2>2, <2>3 DEF CountsMatch
<1> QED
  BY <1>2, <1>3 DEF CountsMatch

\* A move while operations are allowed, or to a place that is not counted.
LEMMA QuietMove ==
  ASSUME TypeOK, BlockedMeansQuiet, NEW o \in Ops, NEW t \in AllPc,
         pc' = [pc EXCEPT ![o] = t], allow_ops' = allow_ops,
         allow_ops \/ t \notin CountedPc \/ pc[o] \in CountedPc
  PROVE  BlockedMeansQuiet'
BY DEF TypeOK, BlockedMeansQuiet, Counted, In

\* A step that moves o outside the places the last three conjuncts speak of.
LEMMA PlainMove ==
  ASSUME IInv, NEW o \in Ops, NEW t \in AllPc, pc' = [pc EXCEPT ![o] = t],
         UNCHANGED <<mode, nodeSet>>,
         pc[o] # "beginWork", t # "beginWork",
         o \in QueryOps => t # "runQuery",
         o \in ReplicaOps /\ t = "runKv" => mode = "KV"
  PROVE  OneBeginWork' /\ QueriesAreSerial' /\ CountedReadsSeeMode'
BY DEF IInv, TypeOK, At, OneBeginWork, QueriesAreSerial, CountedReadsSeeMode, Ops

-----------------------------------------------------------------------------
(* One lemma per action *)

\* get() reads the mode.
LEMMA CallKvStep == ASSUME IInv, NEW o \in Ops, CallKv(o) PROVE IInv'
<1> USE DEF AllPc, CountedPc, InFlightPc, FlightWait, At
<1> PICK t \in {"gotKv", "gotQuery", "waitNode"} : pc' = [pc EXCEPT ![o] = t]
  BY Zenon DEF CallKv, Goto
<1>1. TypeOK' /\ KindOK' /\ RunnerOK'
  BY DEF IInv, TypeOK, KindOK, RunnerOK, CallKv, CallFrom
<1>2. CountsMatch'
  <2>1. count \in Nat /\ in_flight \in Nat
    BY DEF IInv, TypeOK
  <2>2. count' = count - Bit(pc[o], CountedPc) + Bit(t, CountedPc)
    BY <2>1 DEF CallKv, Bit
  <2>3. in_flight' = in_flight - Bit(pc[o], InFlightPc) + Bit(t, InFlightPc)
    BY <2>1 DEF CallKv, Bit
  <2> QED
    BY <2>2, <2>3, CountedMove, Zenon DEF IInv
<1>3. BlockedMeansQuiet'
  BY QuietMove, Zenon DEF IInv, CallKv
<1>4. OneBeginWork' /\ QueriesAreSerial' /\ CountedReadsSeeMode'
  BY PlainMove, Zenon DEF CallKv
<1> QED
  BY <1>1, <1>2, <1>3, <1>4 DEF IInv

\* An operation is admitted, meets a cached error, or is refused.
LEMMA AdmitStep ==
  ASSUME IInv, NEW o \in Ops, NEW next \in {"runKv", "runQuery", "admitted"},
         Admit(o, next), pc[o] \in {"idle", "gotKv", "gotQuery"},
         next = "admitted" => o \in ReplicaOps \cup QueryOps,
         next # "admitted" => o \in KvOps,
         UNCHANGED <<notified, allow_ops, mode, nodeSet, errors, runner,
                     runnerNotified>>,
         onIo' \subseteq Ops
  PROVE  IInv'
<1> USE DEF AllPc, CountedPc, InFlightPc, FlightWait, At
<1> PICK t \in {next, "erring", "refused"} :
      /\ pc' = [pc EXCEPT ![o] = t]
      /\ t = "refused" <=> ~allow_ops
  BY DEF Admit, Goto
<1>1. TypeOK' /\ KindOK' /\ RunnerOK'
  BY DEF IInv, TypeOK, KindOK, RunnerOK, Admit
<1>2. CountsMatch'
  <2>1. count \in Nat /\ in_flight \in Nat
    BY DEF IInv, TypeOK
  <2>2. count' = count - Bit(pc[o], CountedPc) + Bit(t, CountedPc)
    BY <2>1 DEF Admit, Bit
  <2>3. in_flight' = in_flight - Bit(pc[o], InFlightPc) + Bit(t, InFlightPc)
    BY <2>1 DEF Admit, Bit
  <2> QED
    BY <2>2, <2>3, CountedMove, Zenon DEF IInv
<1>3. BlockedMeansQuiet'
  BY QuietMove, Zenon DEF IInv
<1>4. OneBeginWork' /\ QueriesAreSerial' /\ CountedReadsSeeMode'
  BY Zenon, PlainMove, OpsAssumption
<1> QED
  BY <1>1, <1>2, <1>3, <1>4 DEF IInv

\* get() starts, in the mode it read.
LEMMA AdmitKvStep == ASSUME IInv, NEW o \in Ops, AdmitKv(o) PROVE IInv'
<1>1. o \in KvOps /\ onIo' \subseteq Ops
  BY DEF IInv, KindOK, TypeOK, AdmitKv, At
<1>2. CASE At(o, "gotKv") /\ Admit(o, "runKv")
  BY <1>1, <1>2, AdmitStep DEF AdmitKv, At
<1>3. CASE At(o, "gotQuery") /\ Admit(o, "runQuery")
  BY <1>1, <1>3, AdmitStep DEF AdmitKv, At
<1> QED
  BY <1>2, <1>3 DEF AdmitKv

\* query() and the replica reads start.
LEMMA CallCountedStep == ASSUME IInv, NEW o \in Ops, CallCounted(o) PROVE IInv'
<1>1. onIo' \subseteq Ops
  BY DEF IInv, TypeOK, CallCounted, CallFrom
<1> QED
  BY <1>1, AdmitStep DEF CallCounted, At

\* A replica read reads the mode.
LEMMA ReplicaModeStep == ASSUME IInv, NEW o \in Ops, ReplicaMode(o) PROVE IInv'
<1> USE DEF AllPc, CountedPc, InFlightPc, FlightWait, At
<1> PICK t \in {"runKv", "erring", "waitNodeIn"} :
      /\ pc' = [pc EXCEPT ![o] = t]
      /\ t = "runKv" => mode = "KV"
  BY Zenon DEF ReplicaMode, Goto
<1>1. TypeOK' /\ KindOK' /\ RunnerOK'
  BY DEF IInv, TypeOK, KindOK, RunnerOK, ReplicaMode
<1>2. CountsMatch'
  <2>1. count \in Nat /\ in_flight \in Nat
    BY DEF IInv, TypeOK
  <2>2. count' = count - Bit(pc[o], CountedPc) + Bit(t, CountedPc)
    BY <2>1 DEF ReplicaMode, Bit
  <2>3. in_flight' = in_flight - Bit(pc[o], InFlightPc) + Bit(t, InFlightPc)
    BY <2>1 DEF ReplicaMode, Bit
  <2> QED
    BY <2>2, <2>3, CountedMove, Zenon DEF IInv
<1>3. BlockedMeansQuiet'
  BY QuietMove, Zenon DEF IInv, ReplicaMode
<1>4. OneBeginWork' /\ QueriesAreSerial' /\ CountedReadsSeeMode'
  BY PlainMove, OpsAssumption, Zenon DEF ReplicaMode
<1> QED
  BY <1>1, <1>2, <1>3, <1>4 DEF IInv

\* A query that is alone in flight goes out: with BEGIN WORK, or with its
\* statement once the node is known.
LEMMA AloneMove ==
  ASSUME IInv, NEW o \in QueryOps, NEW t \in {"beginWork", "runQuery"},
         pc' = [pc EXCEPT ![o] = t], pc[o] # "beginWork",
         \A p \in Ops : pc[p] \in InFlightPc => p = o,
         t = "beginWork" => mode = "KV" /\ mode' = "QUERY",
         t = "runQuery" => mode' = mode,
         nodeSet' = nodeSet
  PROVE  OneBeginWork' /\ QueriesAreSerial' /\ CountedReadsSeeMode'
<1> USE DEF InFlightPc, At, Ops
<1>0. pc \in [Ops -> AllPc] /\ mode \in {"KV", "QUERY"} /\ nodeSet \in BOOLEAN
  BY DEF IInv, TypeOK
<1>1. \A p \in Ops : p # o => pc'[p] = pc[p] /\ pc[p] \notin InFlightPc
  BY <1>0
<1>2. QueriesAreSerial'
  BY <1>0, <1>1 DEF QueriesAreSerial
<1>3. CountedReadsSeeMode'
  BY <1>0, <1>1, OpsAssumption DEF CountedReadsSeeMode
<1>4. OneBeginWork'
  <2>1. CASE t = "beginWork"
    <3>1. nodeSet = FALSE
      BY <1>0, <2>1 DEF IInv, RunnerOK
    <3> QED
      BY <1>0, <1>1, <2>1, <3>1 DEF OneBeginWork
  <2>2. CASE t = "runQuery"
    <3>1. /\ \A p \in Ops : pc[p] # "beginWork"
          /\ \A p \in Ops : pc'[p] # "beginWork"
      BY <1>0, <1>1, <2>2
    <3> QED
      BY <2>2, <3>1 DEF IInv, OneBeginWork
  <2> QED
    BY <2>1, <2>2
<1> QED
  BY <1>2, <1>3, <1>4

\* The first critical section of set_query_mode.
LEMMA SetQueryModeStep == ASSUME IInv, NEW o \in Ops, SetQueryMode(o) PROVE IInv'
<1> USE DEF AllPc, CountedPc, InFlightPc, FlightWait, At
<1>0. /\ o \in QueryOps /\ pc[o] = "admitted" /\ TypeOK /\ CountsMatch
      /\ count \in Nat /\ in_flight \in Nat /\ mode \in {"KV", "QUERY"}
      /\ UNCHANGED <<onIo, notified, count, allow_ops, nodeSet, errors, runner,
                     runnerNotified>>
  BY DEF IInv, TypeOK, SetQueryMode
<1>1. PICK t \in {"beginWork", "runQuery", "waitBegin", "drainQuery", "drainKv"} :
        /\ pc' = [pc EXCEPT ![o] = t]
        /\ t \in {"beginWork", "runQuery"} => in_flight = 1 /\ in_flight' = in_flight
        /\ t \notin {"beginWork", "runQuery"} => in_flight' = in_flight - 1
        /\ t = "beginWork" => mode = "KV" /\ mode' = "QUERY"
        /\ t # "beginWork" => mode' = mode
        /\ t = "runQuery" => nodeSet
  <2>1. CASE mode = "QUERY"
    BY <1>0, <2>1 DEF SetQueryMode, FollowSetter, Goto
  <2>2. CASE mode = "KV" /\ in_flight - 1 = 0
    BY <1>0, <2>2 DEF SetQueryMode, BecomeSetter, Goto
  <2>3. CASE mode = "KV" /\ in_flight - 1 # 0
    BY <1>0, <2>3 DEF SetQueryMode, Goto
  <2> QED
    BY <1>0, <2>1, <2>2, <2>3
<1>2. CountsMatch' /\ in_flight' \in Nat
  <2>1. count' = count - Bit(pc[o], CountedPc) + Bit(t, CountedPc)
    BY <1>0, <1>1 DEF Bit
  <2>2. in_flight' = in_flight - Bit(pc[o], InFlightPc) + Bit(t, InFlightPc)
    BY <1>0, <1>1 DEF Bit
  <2> QED
    BY Zenon, <1>0, <1>1, <2>1, <2>2, CountedMove
<1>3. TypeOK' /\ KindOK'
  BY <1>0, <1>1, <1>2 DEF IInv, TypeOK, KindOK
<1>4. RunnerOK'
  <2>1. t = "beginWork" => mode' = "QUERY"
    BY <1>1
  <2> QED
    BY <1>0, <1>1, <2>1 DEF IInv, RunnerOK
<1>5. BlockedMeansQuiet'
  BY <1>0, <1>1, QuietMove, Zenon DEF IInv
<1>6. OneBeginWork' /\ QueriesAreSerial' /\ CountedReadsSeeMode'
  <2>1. CASE t \in {"beginWork", "runQuery"}
    <3>1. \A p \in Ops : pc[p] \in InFlightPc => p = o
      BY <1>0, <1>1, <2>1, FlightEmpty
    <3> QED
      BY Zenon, <1>0, <1>1, <2>1, <3>1, AloneMove
  <2>2. CASE t \notin {"beginWork", "runQuery"}
    BY Zenon, <1>0, <1>1, <2>2, PlainMove, OpsAssumption
  <2> QED
    BY <2>1, <2>2
<1> QED
  BY <1>2, <1>3, <1>4, <1>5, <1>6 DEF IInv

\* A waiter goes on.
LEMMA WakeStep == ASSUME IInv, NEW o \in Ops, Wake(o) PROVE IInv'
<1> USE DEF AllPc, CountedPc, InFlightPc, FlightWait, NodeWait, Waiting, At
<1>0. /\ TypeOK /\ CountsMatch /\ pc[o] \in Waiting /\ WaitOver(o)
      /\ count \in Nat /\ in_flight \in Nat /\ mode \in {"KV", "QUERY"}
      /\ notified' = notified \ {o}
      /\ UNCHANGED <<onIo, count, allow_ops, nodeSet, errors, runner, runnerNotified>>
  BY DEF IInv, TypeOK, Wake
<1>k. /\ pc[o] \in {"drainKv", "drainQuery", "waitBegin"} => o \in QueryOps
      /\ pc[o] = "waitNode" => o \in KvOps
      /\ pc[o] = "waitNodeIn" => o \in ReplicaOps
  BY DEF IInv, KindOK
<1>1. PICK t \in {"gotQuery", "erring", "beginWork", "runQuery", "waitBegin", "drainQuery"} :
        /\ pc' = [pc EXCEPT ![o] = t]
        /\ t = "gotQuery" <=> pc[o] = "waitNode"
        /\ t = "erring" <=> pc[o] = "waitNodeIn"
        /\ t \in {"beginWork", "runQuery"} => in_flight = 0 /\ in_flight' = 1
        /\ t \notin {"beginWork", "runQuery"} => in_flight' = in_flight
        /\ t = "beginWork" => mode = "KV" /\ mode' = "QUERY"
        /\ t # "beginWork" => mode' = mode
  <2>1. CASE pc[o] = "waitNode"
    BY <1>0, <2>1 DEF Wake, Goto
  <2>2. CASE pc[o] = "waitNodeIn"
    BY <1>0, <2>2 DEF Wake, Goto
  <2>3. CASE pc[o] = "drainKv" /\ mode = "KV"
    BY <1>0, <2>3 DEF Wake, WaitOver, BecomeSetter, Goto
  <2>4. CASE pc[o] \in {"drainQuery", "waitBegin"} \/ (pc[o] = "drainKv" /\ mode # "KV")
    BY <1>0, <2>4 DEF Wake, FollowSetter, Goto
  <2> QED
    BY <1>0, <2>1, <2>2, <2>3, <2>4
<1>2. CountsMatch' /\ in_flight' \in Nat
  <2>1. count' = count - Bit(pc[o], CountedPc) + Bit(t, CountedPc)
    BY <1>0, <1>1 DEF Bit
  <2>2. in_flight' = in_flight - Bit(pc[o], InFlightPc) + Bit(t, InFlightPc)
    BY <1>0, <1>1 DEF Bit
  <2> QED
    BY Zenon, <1>0, <1>1, <2>1, <2>2, CountedMove
<1>3. TypeOK' /\ KindOK'
  BY <1>0, <1>k, <1>1, <1>2 DEF IInv, TypeOK, KindOK
<1>4. RunnerOK'
  BY <1>0, <1>1 DEF IInv, RunnerOK
<1>5. BlockedMeansQuiet'
  BY <1>0, <1>1, QuietMove, Zenon DEF IInv
<1>6. OneBeginWork' /\ QueriesAreSerial' /\ CountedReadsSeeMode'
  <2>1. CASE t \in {"beginWork", "runQuery"}
    <3>1. \A p \in Ops : pc[p] \in InFlightPc => p = o
      BY <1>0, <1>1, <2>1, FlightEmpty
    <3> QED
      BY Zenon, <1>0, <1>k, <1>1, <2>1, <3>1, AloneMove
  <2>2. CASE t \notin {"beginWork", "runQuery"}
    BY Zenon, <1>0, <1>1, <2>2, PlainMove
  <2> QED
    BY <2>1, <2>2
<1> QED
  BY <1>2, <1>3, <1>4, <1>5, <1>6 DEF IInv

\* A waiter waits again.
LEMMA SleepAgainStep == ASSUME IInv, NEW o \in Ops, SleepAgain(o) PROVE IInv'
BY DEF SleepAgain, IInv, TypeOK, KindOK, RunnerOK, CountsMatch, Counted, InFlight,
       In, BlockedMeansQuiet, OneBeginWork, QueriesAreSerial, CountedReadsSeeMode, At

\* BEGIN WORK is answered, by a node or by nobody.
LEMMA BeginWorkStep ==
  ASSUME IInv, NEW o \in Ops, BeginWorkAnswered(o) \/ BeginWorkFailed(o)
  PROVE  IInv'
<1> USE DEF AllPc, CountedPc, InFlightPc, FlightWait, At
<1>0. /\ TypeOK /\ CountsMatch /\ pc[o] = "beginWork" /\ o \in QueryOps
      /\ pc \in [Ops -> AllPc] /\ count \in Nat /\ in_flight \in Nat
      /\ mode = "QUERY" /\ nodeSet = FALSE
      /\ notified' \subseteq Ops
      /\ UNCHANGED <<onIo, count, in_flight, allow_ops, errors, runner, runnerNotified>>
  BY DEF IInv, TypeOK, KindOK, OneBeginWork, BeginWorkAnswered, BeginWorkFailed,
         Notify, In
<1>1. PICK t \in {"runQuery", "erring"} :
        /\ pc' = [pc EXCEPT ![o] = t]
        /\ \/ mode' = mode /\ nodeSet' = TRUE
           \/ mode' = "KV" /\ nodeSet' = nodeSet
  BY DEF BeginWorkAnswered, BeginWorkFailed, Goto
<1>2. CountsMatch'
  <2>1. count' = count - Bit(pc[o], CountedPc) + Bit(t, CountedPc)
    BY <1>0, <1>1 DEF Bit
  <2>2. in_flight' = in_flight - Bit(pc[o], InFlightPc) + Bit(t, InFlightPc)
    BY <1>0, <1>1 DEF Bit
  <2> QED
    BY Zenon, <1>0, <1>1, <2>1, <2>2, CountedMove
<1>3. TypeOK' /\ KindOK' /\ RunnerOK'
  BY <1>0, <1>1, Zenon DEF IInv, TypeOK, KindOK, RunnerOK
<1>4. BlockedMeansQuiet'
  BY <1>0, <1>1, QuietMove, Zenon DEF IInv
<1>5. OneBeginWork'
  <2>1. \A p \in Ops : pc'[p] # "beginWork"
    BY <1>0, <1>1 DEF IInv, OneBeginWork
  <2> QED
    BY <1>0, <1>1, <2>1 DEF OneBeginWork
<1>6. QueriesAreSerial'
  BY <1>0, <1>1 DEF IInv, QueriesAreSerial, Ops
<1>7. CountedReadsSeeMode'
  BY <1>0, <1>1, OpsAssumption DEF IInv, CountedReadsSeeMode, Ops
<1> QED
  BY <1>2, <1>3, <1>4, <1>5, <1>6, <1>7 DEF IInv

\* A response, or an error met before the request, ends the time in flight.
LEMMA CompleteStep == ASSUME IInv, NEW o \in Ops, Complete(o) PROVE IInv'
<1> USE DEF AllPc, CountedPc, InFlightPc, FlightWait, At
<1>0. /\ TypeOK /\ CountsMatch /\ pc[o] \in {"runKv", "runQuery", "erring"}
      /\ count \in Nat /\ in_flight \in Nat
      /\ pc' = [pc EXCEPT ![o] = "callback"] /\ in_flight' = in_flight - 1
      /\ notified' \subseteq Ops /\ errors' \in BOOLEAN
      /\ UNCHANGED <<onIo, count, allow_ops, mode, nodeSet, runner, runnerNotified>>
  BY Zenon DEF IInv, TypeOK, Complete, DecrementInFlight, Notify, In, Goto
<1>1. CountsMatch' /\ in_flight' \in Nat
  <2>1. count' = count - Bit(pc[o], CountedPc) + Bit("callback", CountedPc)
    BY <1>0 DEF Bit
  <2>2. in_flight' = in_flight - Bit(pc[o], InFlightPc) + Bit("callback", InFlightPc)
    BY <1>0 DEF Bit
  <2> QED
    BY Zenon, <1>0, <2>1, <2>2, CountedMove
<1>2. TypeOK' /\ KindOK' /\ RunnerOK'
  BY <1>0, <1>1 DEF IInv, TypeOK, KindOK, RunnerOK
<1>3. BlockedMeansQuiet'
  BY <1>0, QuietMove, Zenon DEF IInv
<1>4. OneBeginWork' /\ QueriesAreSerial' /\ CountedReadsSeeMode'
  BY Zenon, <1>0, PlainMove
<1> QED
  BY <1>1, <1>2, <1>3, <1>4 DEF IInv

\* The callback returns; nobody is refused a decrement.
LEMMA CallbackReturnsStep == ASSUME IInv, NEW o \in Ops, CallbackReturns(o) PROVE IInv'
<1> USE DEF AllPc, CountedPc, InFlightPc, FlightWait, At
<1>0. allow_ops
  BY DEF IInv, TypeOK, BlockedMeansQuiet, Counted, In, CallbackReturns
<1>1. /\ TypeOK /\ CountsMatch /\ pc[o] = "callback"
      /\ count \in Nat /\ in_flight \in Nat
      /\ pc' = [pc EXCEPT ![o] = "done"] /\ count' = count - 1
      /\ notified' \subseteq Ops /\ errors' \in BOOLEAN /\ runnerNotified' \in BOOLEAN
      /\ UNCHANGED <<onIo, in_flight, allow_ops, mode, nodeSet, runner>>
  BY <1>0, Zenon DEF IInv, TypeOK, CallbackReturns, DecrementOps, Notify, In, Goto
<1>2. CountsMatch' /\ count' \in Nat
  <2>1. count' = count - Bit(pc[o], CountedPc) + Bit("done", CountedPc)
    BY <1>1 DEF Bit
  <2>2. in_flight' = in_flight - Bit(pc[o], InFlightPc) + Bit("done", InFlightPc)
    BY <1>1 DEF Bit
  <2> QED
    BY Zenon, <1>1, <2>1, <2>2, CountedMove
<1>3. TypeOK' /\ KindOK' /\ RunnerOK'
  BY <1>1, <1>2 DEF IInv, TypeOK, KindOK, RunnerOK
<1>4. BlockedMeansQuiet'
  BY <1>1, QuietMove, Zenon DEF IInv
<1>5. OneBeginWork' /\ QueriesAreSerial' /\ CountedReadsSeeMode'
  BY Zenon, <1>1, PlainMove
<1> QED
  BY <1>2, <1>3, <1>4, <1>5 DEF IInv

\* The runner blocks operations when none is counted, and ends the attempt.
LEMMA RunnerStep == ASSUME IInv, WaitAndBlockOps \/ EndAttempt PROVE IInv'
<1>0. /\ UNCHANGED <<pc, onIo, notified, count, in_flight, mode, nodeSet, errors>>
      /\ CountsMatch
  BY DEF WaitAndBlockOps, EndAttempt, IInv
<1>1. TypeOK'
  BY Zenon DEF IInv, TypeOK, WaitAndBlockOps, EndAttempt
<1>4. KindOK'
  BY <1>0 DEF IInv, KindOK
<1>5. RunnerOK'
  <2>1. CASE WaitAndBlockOps
    <3>1. allow_ops /\ allow_ops \in BOOLEAN
      BY <2>1 DEF IInv, TypeOK, RunnerOK, WaitAndBlockOps
    <3>2. CASE count = 0
      BY <1>0, <2>1, <3>2 DEF IInv, RunnerOK, WaitAndBlockOps
    <3>3. CASE count # 0
      BY <1>0, <2>1, <3>1, <3>3 DEF IInv, RunnerOK, WaitAndBlockOps
    <3> QED
      BY <3>2, <3>3
  <2>2. CASE EndAttempt
    BY <1>0, <2>2 DEF IInv, RunnerOK, EndAttempt
  <2> QED
    BY <2>1, <2>2
<1>2. CountsMatch' /\ OneBeginWork' /\ QueriesAreSerial' /\ CountedReadsSeeMode'
  BY <1>0 DEF IInv, CountsMatch, Counted, InFlight, In, OneBeginWork,
              QueriesAreSerial, CountedReadsSeeMode, At
<1>3. BlockedMeansQuiet'
  <2>1. count = 0 => Counted = {}
    BY <1>0, FlightEmpty DEF Counted, In
  <2>2. Counted' = Counted
    BY <1>0 DEF Counted, In
  <2> QED
    BY <2>1, <2>2 DEF IInv, BlockedMeansQuiet, WaitAndBlockOps, EndAttempt
<1> QED
  BY <1>1, <1>2, <1>3, <1>4, <1>5 DEF IInv

\* Every step of Next, and every stuttering step, keeps the invariant.
LEMMA NextIInv == IInv /\ [Next]_vars => IInv'
<1> SUFFICES ASSUME IInv, [Next]_vars PROVE IInv'
  OBVIOUS
<1>1. ASSUME NEW o \in Ops, OpStep(o) PROVE IInv'
  BY <1>1, CallKvStep, AdmitKvStep, CallCountedStep, ReplicaModeStep,
     SetQueryModeStep, WakeStep, SleepAgainStep, BeginWorkStep, CompleteStep,
     CallbackReturnsStep DEF OpStep
<1>2. CASE UNCHANGED vars
  BY <1>2 DEF vars, IInv, TypeOK, KindOK, RunnerOK, CountsMatch, Counted, InFlight,
              In, BlockedMeansQuiet, OneBeginWork, QueriesAreSerial,
              CountedReadsSeeMode, At
<1>3. CASE WaitAndBlockOps \/ EndAttempt
  BY <1>3, RunnerStep
<1> QED
  BY <1>1, <1>2, <1>3 DEF Next, Terminated

\* The invariant holds in every reachable state.
THEOREM Invariance == Spec => []IInv
BY InitIInv, NextIInv, PTL DEF Spec

-----------------------------------------------------------------------------
(* The properties the runs check *)

\* The counters, the mode and the places of operations keep their types.
THEOREM TypeCorrect == Spec => []TypeOK
<1>1. IInv => TypeOK
  BY DEF IInv
<1> QED
  BY <1>1, Invariance, PTL

\* count_ and in_flight_ are the numbers of operations admitted and in flight,
\* whatever change_count, decrement_in_flight and set_query_mode have done.
THEOREM CountersAreExact == Spec => []CountsMatch
<1>1. IInv => CountsMatch
  BY DEF IInv
<1> QED
  BY <1>1, Invariance, PTL

\* wait_and_block_ops returns, and keeps new operations out, only when no
\* operation is under way.
THEOREM RunnerIsAlone == Spec => []BlockedMeansQuiet
<1>1. IInv => BlockedMeansQuiet
  BY DEF IInv
<1> QED
  BY <1>1, Invariance, PTL

\* set_query_mode lets one operation send BEGIN WORK, and it is alone.
THEOREM OneSetter == Spec => []OneBeginWork
<1>1. IInv => OneBeginWork
  BY DEF IInv
<1> QED
  BY <1>1, Invariance, PTL

\* set_query_mode lets one query out at a time.
THEOREM OneQuery == Spec => []QueriesAreSerial
<1>1. IInv => QueriesAreSerial
  BY DEF IInv
<1> QED
  BY <1>1, Invariance, PTL

\* A replica read, which is counted before it reads the mode, is sent to the
\* key-value service only in KV mode.
THEOREM CountedReadsRight == Spec => []CountedReadsSeeMode
<1>1. IInv => CountedReadsSeeMode
  BY DEF IInv
<1> QED
  BY <1>1, Invariance, PTL

\* Once operations are blocked nobody is in BEGIN WORK, so commit() and
\* rollback() do not wait for a node.
THEOREM RunnerNeverWaitsForNode == Spec => []EndNeverWaitsForNode
<1>1. IInv => EndNeverWaitsForNode
  <2> SUFFICES ASSUME IInv, runner = "blocked", mode # "KV", ~nodeSet PROVE FALSE
    BY DEF EndNeverWaitsForNode
  <2>1. PICK o \in Ops : pc[o] = "beginWork"
    BY DEF IInv, TypeOK, OneBeginWork, At
  <2>2. o \in Counted
    BY <2>1 DEF Counted, In, CountedPc, InFlightPc
  <2>3. Counted = {}
    BY DEF IInv, RunnerOK, BlockedMeansQuiet
  <2> QED
    BY <2>2, <2>3
<1> QED
  BY <1>1, Invariance, PTL

\* The node is set once, and blocking operations is final.
THEOREM ModeNeverChangesBack == Spec => ModeIsFinal
<1> DEFINE Final == /\ nodeSet => nodeSet' /\ mode' = mode
                    /\ ~allow_ops => ~allow_ops'
<1>1. IInv /\ [Next]_vars => [Final]_vars
  <2> SUFFICES ASSUME IInv, Next PROVE Final
    BY DEF vars
  <2>1. ASSUME NEW o \in Ops, OpStep(o) PROVE Final
    <3>1. CASE SetQueryMode(o) \/ Wake(o)
      BY <3>1 DEF SetQueryMode, Wake, BecomeSetter, FollowSetter, IInv, TypeOK, RunnerOK
    <3>2. CASE BeginWorkAnswered(o) \/ BeginWorkFailed(o)
      <4>1. ~nodeSet
        BY <2>1, <3>2 DEF IInv, OneBeginWork, BeginWorkAnswered, BeginWorkFailed
      <4> QED
        BY <3>2, <4>1 DEF BeginWorkAnswered, BeginWorkFailed
    <3>3. CASE CallKv(o) \/ AdmitKv(o) \/ CallCounted(o) \/ ReplicaMode(o)
               \/ SleepAgain(o) \/ Complete(o) \/ CallbackReturns(o)
      <4>1. allow_ops' = allow_ops /\ mode' = mode /\ nodeSet' = nodeSet
        BY <3>3, Zenon DEF CallKv, AdmitKv, CallCounted, ReplicaMode, SleepAgain, Complete,
                    CallbackReturns
      <4> QED
        BY <4>1, Zenon
    <3> QED
      BY <2>1, <3>1, <3>2, <3>3 DEF OpStep
  <2>2. CASE WaitAndBlockOps \/ EndAttempt \/ Terminated
    BY <2>2 DEF WaitAndBlockOps, EndAttempt, Terminated, vars
  <2> QED
    BY <2>1, <2>2 DEF Next
<1> QED
  BY <1>1, Invariance, PTL DEF Spec, ModeIsFinal
=============================================================================
