-------------------------- MODULE BridgeRoutesProofs --------------------------
(***************************************************************************)
(* Proofs about BridgeRoutes, for any devices, tokens, operations and      *)
(* faults.                                                                 *)
(***************************************************************************)
EXTENDS BridgeRoutes, FiniteSetTheorems, SequenceTheorems, WellFoundedInduction, TLAPS

-----------------------------------------------------------------------------
(* Facts about the route arrays.                                           *)

\* There is a first place among places.
LEMMA FirstPlace == ASSUME NEW T \in SUBSET Nat, T # {} PROVE \E i \in T : \A j \in T : i <= j
<1> DEFINE R == OpToRel(<, Nat)
<1>1. IsWellFoundedOn(R, Nat) BY NatLessThanWellFounded
<1>2. \A x, y \in Nat : y < x => <<y, x>> \in R BY DEF OpToRel
<1> HIDE DEF R
<1>3. PICK i \in T : \A j \in T : ~(<<j, i>> \in R) BY <1>1, WFMin
<1>4. \A j \in T : ~(j < i) BY <1>2, <1>3, Zenon
<1>5. \A j \in T : i <= j
  <2> SUFFICES ASSUME NEW j \in T PROVE i <= j OBVIOUS
  <2>1. i \in Nat /\ j \in Nat /\ ~(j < i) BY <1>4
  <2> QED BY <2>1
<1> QED BY <1>5

\* The token of a device in an array is one of the tokens.
LEMMA TokenInType ==
  ASSUME NEW r \in Seq(Bridges), NEW d \in Devs
  PROVE  TokenIn(r, d) \in Tokens \cup {None}
<1> DEFINE T == {i \in DOMAIN r : r[i][1] = d}
           First(i) == i \in DOMAIN r /\ r[i][1] = d /\ \A j \in 1..(i - 1) : r[j][1] # d
<1>1. DOMAIN r = 1..Len(r) /\ Len(r) \in Nat /\ \A i \in 1..Len(r) : r[i] \in Bridges
  BY LenProperties
<1>2. CASE d \in DevsOf(ToSet(r))
  <2>1. T \in SUBSET Nat /\ T # {} BY <1>1, <1>2 DEF DevsOf, ToSet
  <2>2. PICK i \in T : \A j \in T : i <= j BY <2>1, FirstPlace
  <2>3. First(i) BY <1>1, <2>1, <2>2
  <2> DEFINE i0 == CHOOSE k \in DOMAIN r : r[k][1] = d /\ \A j \in 1..(k - 1) : r[j][1] # d
  <2>4. i0 \in DOMAIN r BY <2>3
  <2>5. TokenIn(r, d) = r[i0][2] BY <1>2 DEF TokenIn
  <2> HIDE DEF i0
  <2> QED BY <1>1, <2>4, <2>5 DEF Bridges
<1>3. CASE d \notin DevsOf(ToSet(r)) BY <1>3 DEF TokenIn
<1> QED BY <1>2, <1>3

LEMMA HandlesType ==
  ASSUME NEW r \in Seq(Bridges)
  PROVE  HandlesOf(r) \in [Devs -> Tokens \cup {None}]
BY TokenInType DEF HandlesOf

\* Taking a place out of an array.
LEMMA RemoveAtType ==
  ASSUME NEW r \in Seq(Bridges), NEW i \in DOMAIN r
  PROVE  RemoveAt(r, i) \in Seq(Bridges) /\ ToSet(RemoveAt(r, i)) \subseteq ToSet(r)
<1> DEFINE p == SubSeq(r, 1, i - 1)
           q == SubSeq(r, i + 1, Len(r))
<1>1. /\ Len(r) \in Nat /\ DOMAIN r = 1..Len(r) /\ i \in 1..Len(r)
      /\ \A j \in 1..Len(r) : r[j] \in Bridges
  BY LenProperties
<1>2. /\ p \in Seq(Bridges) /\ Len(p) = i - 1 /\ \A j \in 1..(i - 1) : p[j] = r[j]
  <2>1. 1 \in Int /\ i - 1 \in Int /\ \A j \in 1..(i - 1) : r[j] \in Bridges BY <1>1
  <2>2. /\ SubSeq(r, 1, i - 1) \in Seq(Bridges)
        /\ Len(SubSeq(r, 1, i - 1)) = IF 1 <= i - 1 THEN i - 1 - 1 + 1 ELSE 0
        /\ \A j \in 1..(i - 1 - 1 + 1) : SubSeq(r, 1, i - 1)[j] = r[1 + j - 1]
    BY <2>1, SubSeqProperties
  <2>3. 1..(i - 1 - 1 + 1) = 1..(i - 1) /\ i - 1 - 1 + 1 = i - 1 BY <1>1
  <2>4. Len(p) = i - 1 BY <1>1, <2>2, <2>3
  <2>5. ASSUME NEW j \in 1..(i - 1) PROVE p[j] = r[j]
    <3>1. 1 + j - 1 = j BY <1>1
    <3> QED BY <2>2, <2>3, <3>1
  <2> QED BY <2>2, <2>4, <2>5
<1>3. /\ q \in Seq(Bridges) /\ Len(q) = Len(r) - i
      /\ \A j \in 1..(Len(r) - i) : q[j] = r[i + j]
  <2>1. i + 1 \in Int /\ Len(r) \in Int /\ \A j \in (i + 1)..Len(r) : r[j] \in Bridges BY <1>1
  <2>2. /\ SubSeq(r, i + 1, Len(r)) \in Seq(Bridges)
        /\ Len(SubSeq(r, i + 1, Len(r))) = IF i + 1 <= Len(r) THEN Len(r) - (i + 1) + 1 ELSE 0
        /\ \A j \in 1..(Len(r) - (i + 1) + 1) : SubSeq(r, i + 1, Len(r))[j] = r[i + 1 + j - 1]
    BY <2>1, SubSeqProperties
  <2>3. Len(r) - (i + 1) + 1 = Len(r) - i BY <1>1
  <2>4. Len(q) = Len(r) - i BY <1>1, <2>2, <2>3
  <2>5. ASSUME NEW j \in 1..(Len(r) - i) PROVE q[j] = r[i + j]
    <3>1. i + 1 + j - 1 = i + j BY <1>1
    <3> QED BY <2>2, <2>3, <3>1
  <2> QED BY <2>2, <2>4, <2>5
<1> HIDE DEF p, q
<1>4. /\ p \o q \in Seq(Bridges) /\ Len(p \o q) = Len(p) + Len(q)
      /\ \A j \in 1..(Len(p) + Len(q)) : (p \o q)[j] = IF j <= Len(p) THEN p[j] ELSE q[j - Len(p)]
  BY <1>2, <1>3, ConcatProperties
<1>5. RemoveAt(r, i) = p \o q BY DEF RemoveAt, p, q
<1>6. ASSUME NEW x \in ToSet(p \o q) PROVE x \in ToSet(r)
  <2>1. DOMAIN (p \o q) = 1..Len(p \o q) BY <1>4, LenProperties
  <2>2. PICK j \in 1..(Len(p) + Len(q)) : x = (p \o q)[j] BY <1>4, <1>6, <2>1 DEF ToSet
  <2>3. CASE j <= Len(p)
    <3>1. x = r[j] /\ j \in 1..Len(r) BY <1>1, <1>2, <1>4, <2>2, <2>3
    <3> QED BY <1>1, <3>1 DEF ToSet
  <2>4. CASE ~(j <= Len(p))
    <3>1. j - Len(p) \in 1..(Len(r) - i) BY <1>1, <1>2, <1>3, <2>2, <2>4
    <3>2. x = q[j - Len(p)] BY <1>4, <2>2, <2>4
    <3>3. x = r[i + (j - Len(p))] /\ i + (j - Len(p)) \in 1..Len(r) BY <1>1, <1>3, <3>1, <3>2
    <3> QED BY <1>1, <3>3 DEF ToSet
  <2> QED BY <2>3, <2>4
<1> QED BY <1>4, <1>5, <1>6

LEMMA WithoutType ==
  ASSUME NEW r \in Seq(Bridges), NEW s
  PROVE  Without(r, s) \in Seq(Bridges) /\ ToSet(Without(r, s)) \subseteq ToSet(r)
<1> DEFINE T == {i \in DOMAIN r : r[i] = s}
<1>1. DOMAIN r = 1..Len(r) /\ Len(r) \in Nat BY LenProperties
<1>2. CASE s \in ToSet(r)
  <2>1. T \in SUBSET Nat /\ T # {} BY <1>1, <1>2 DEF ToSet
  <2>2. PICK i \in T : \A j \in T : i <= j BY <2>1, FirstPlace
  <2>3. i \in DOMAIN r /\ r[i] = s /\ \A j \in 1..(i - 1) : r[j] # s BY <1>1, <2>1, <2>2
  <2> DEFINE i0 == CHOOSE k \in DOMAIN r : r[k] = s /\ \A j \in 1..(k - 1) : r[j] # s
  <2>4. i0 \in DOMAIN r BY <2>3
  <2>5. Without(r, s) = RemoveAt(r, i0) BY <1>2 DEF Without
  <2> HIDE DEF i0
  <2> QED BY <2>4, <2>5, RemoveAtType
<1>3. CASE s \notin ToSet(r) BY <1>3 DEF Without
<1> QED BY <1>2, <1>3

LEMMA AppendType ==
  ASSUME NEW r \in Seq(Bridges), NEW s \in Bridges
  PROVE  Append(r, s) \in Seq(Bridges) /\ ToSet(Append(r, s)) = ToSet(r) \cup {s}
<1>1. /\ Append(r, s) \in Seq(Bridges) /\ Len(Append(r, s)) = Len(r) + 1
      /\ \A i \in 1..Len(r) : Append(r, s)[i] = r[i]
      /\ Append(r, s)[Len(r) + 1] = s
  BY AppendProperties
<1>2. Len(r) \in Nat /\ DOMAIN r = 1..Len(r) /\ DOMAIN Append(r, s) = 1..(Len(r) + 1)
  BY <1>1, LenProperties
<1> DEFINE q == Append(r, s)
<1> HIDE DEF q
<1>3. ToSet(q) \subseteq ToSet(r) \cup {s}
  <2> SUFFICES ASSUME NEW i \in 1..(Len(r) + 1) PROVE q[i] \in ToSet(r) \cup {s}
    BY <1>2 DEF ToSet, q
  <2>1. CASE i = Len(r) + 1 BY <1>1, <2>1 DEF q
  <2>2. CASE i # Len(r) + 1
    <3>1. i \in 1..Len(r) BY <1>2, <2>2
    <3> QED BY <1>1, <1>2, <3>1 DEF ToSet, q
  <2> QED BY <2>1, <2>2
<1>4. ToSet(r) \subseteq ToSet(q)
  <2> SUFFICES ASSUME NEW i \in 1..Len(r) PROVE r[i] \in ToSet(q) BY <1>2 DEF ToSet
  <2>1. i \in 1..(Len(r) + 1) /\ r[i] = q[i] BY <1>1, <1>2 DEF q
  <2> QED BY <1>2, <2>1 DEF ToSet, q
<1>5. s \in ToSet(q)
  <2>1. Len(r) + 1 \in 1..(Len(r) + 1) BY <1>2
  <2> QED BY <1>1, <1>2, <2>1 DEF ToSet, q
<1> QED BY <1>1, <1>3, <1>4, <1>5 DEF q

\* A finite set of bridges as an array.
LEMMA SetToSeqType ==
  ASSUME NEW S \in SUBSET Bridges, IsFiniteSet(S)
  PROVE  SetToSeq(S) \in Seq(Bridges) /\ ToSet(SetToSeq(S)) = S
<1> DEFINE n == Cardinality(S)
           f == SetToSeq(S)
<1>1. n \in Nat /\ ExistsBijection(1..n, S) BY FS_CardinalityType
<1>2. PICK g \in [1..n -> S] : IsInjective(g)
  BY <1>1 DEF ExistsBijection, Bijection, Injection
<1>3. f = CHOOSE h \in [1..n -> S] : IsInjective(h) BY DEF SetToSeq
<1> HIDE DEF f
<1>4. f \in [1..n -> S] /\ IsInjective(f) BY <1>2, <1>3
<1>5. IsFiniteSet(1..n) /\ Cardinality(1..n) = n
  <2> DEFINE m == n
  <2>1. m \in Int /\ 1 \in Int BY <1>1
  <2> HIDE DEF m
  <2>2. IsFiniteSet(1..m) /\ Cardinality(1..m) = IF 1 > m THEN 0 ELSE m - 1 + 1
    BY <2>1, FS_Interval
  <2>3. m \in Nat BY <1>1 DEF m
  <2>4. Cardinality(1..m) = m BY <2>2, <2>3
  <2> QED BY <2>2, <2>4 DEF m
<1>6. f \in Injection(1..n, S) BY <1>4 DEF Injection
<1>7. f \in Surjection(1..n, S) BY <1>5, <1>6, FS_Injection
<1>8. ToSet(f) = S BY <1>4, <1>7 DEF ToSet, Surjection
<1>9. f \in Seq(Bridges) BY <1>1, <1>4, IsASeq
<1> QED BY <1>8, <1>9 DEF f

-----------------------------------------------------------------------------
(* The inductive invariant of the types.                                   *)

\* What an operation knows: nothing once it has ended, a token for every device
\* it has asked for, and the array it works on.
Formed(R) ==
  /\ R.op = "none" => R = Idle
  /\ \A d \in Devs : R.ask[d] \in {"sent", "up", "ok"} => R.tok[d] # None
  /\ R.op = "join" => R.a \in Arrays /\ R.dev \in Devs
  /\ R.op = "rebuild" => R.a \in Arrays

TasksFormed == \A t \in Tasks : Formed(task[t])
BInv == TypeOK /\ TasksFormed

LEMMA IdleType ==
  /\ Idle \in TaskSt /\ Formed(Idle) /\ Idle.op = "none" /\ Idle.at = "idle" /\ Idle.old = FALSE
  /\ \A d \in Devs : Idle.ask[d] = "no" /\ Idle.tok[d] = None
<1> DEFINE tok == [d \in Devs |-> None]
           ask == [d \in Devs |-> "no"]
<1>1. tok \in [Devs -> Tokens \cup {None}] /\ ask \in [Devs -> AskSt] BY DEF AskSt
<1>2. /\ Idle.op = "none" /\ Idle.at = "idle" /\ Idle.old = FALSE /\ Idle.tok = tok /\ Idle.ask = ask
  BY DEF Idle
<1>3. \A d \in Devs : tok[d] = None /\ ask[d] = "no" OBVIOUS
<1>4. Idle \in TaskSt
  <2>1. FALSE \in BOOLEAN /\ 0 \in Nat OBVIOUS
  <2>2. Idle = [op |-> "none", at |-> "idle", a |-> None, dev |-> None, i |-> 0,
                tok |-> tok, ask |-> ask, old |-> FALSE, res |-> "ok"]
    BY DEF Idle
  <2> HIDE DEF tok, ask
  <2> QED BY <1>1, <2>1, <2>2 DEF TaskSt
<1> HIDE DEF tok, ask
<1>5. Formed(Idle) BY <1>2, <1>3 DEF Formed
<1> QED BY <1>2, <1>3, <1>4, <1>5

\* The task t becomes R.
LEMMA TaskBecomes ==
  ASSUME BInv, NEW t \in Tasks, NEW R \in TaskSt, Formed(R), task' = [task EXCEPT ![t] = R]
  PROVE  task' \in [Tasks -> TaskSt] /\ TasksFormed'
BY DEF BInv, TypeOK, TasksFormed

LEMMA EndType ==
  ASSUME BInv, NEW t \in Tasks, End(t) PROVE task' \in [Tasks -> TaskSt] /\ TasksFormed'
BY IdleType, TaskBecomes DEF End

LEMMA BeginType ==
  ASSUME BInv, NEW t \in Tasks, NEW R \in TaskSt, Formed(R), R.op # "none", Begin(t, R)
  PROVE  task' \in [Tasks -> TaskSt] /\ TasksFormed'
<1> DEFINE b == round.at # "idle"
           Q == [R EXCEPT !.old = b]
<1>1. b \in BOOLEAN OBVIOUS
<1>2. task' = [task EXCEPT ![t] = Q] BY DEF Begin
<1> HIDE DEF b
<1>3. /\ Q \in TaskSt /\ Q.op = R.op /\ Q.ask = R.ask /\ Q.tok = R.tok
      /\ Q.a = R.a /\ Q.dev = R.dev
  BY <1>1 DEF TaskSt
<1> HIDE DEF Q
<1>4. Formed(Q) BY <1>3 DEF Formed
<1> QED BY <1>2, <1>3, <1>4, TaskBecomes

LEMMA SpendType == ASSUME TypeOK, NEW e, Spend(e) PROVE faults' \in 0..MaxFaults
<1>1. faults \in Nat /\ MaxFaults \in Nat /\ faults <= MaxFaults BY BridgeAssumption DEF TypeOK
<1> QED BY <1>1 DEF Spend

LEMMA StopType ==
  ASSUME TypeOK, NEW S, StopDevice(S)
  PROVE  /\ owner' \in [Devs -> Tokens \cup {None}]
         /\ session' = session \ S /\ session' \subseteq session /\ broken' \subseteq session'
BY DEF TypeOK, StopDevice

LEMMA PreparesType ==
  ASSUME TypeOK, NEW S, ChildPrepares(S)
  PROVE  session' \subseteq session /\ broken' \subseteq session'
BY DEF TypeOK, ChildPrepares

LEMMA KeepType ==
  ASSUME NEW r \in [Arrays -> Seq(Bridges)], Keep(r) PROVE arr' \in [Arrays -> Seq(Bridges)]
<1>1. <<>> \in Seq(Bridges) BY EmptySeq
<1> QED BY <1>1 DEF Keep

LEMMA NoHandlesType == NoHandles \in [Devs -> Tokens \cup {None}]
BY DEF NoHandles

LEMMA SyncType ==
  ASSUME TypeOK, NEW r \in Seq(Bridges), NEW res, Sync(r, res)
  PROVE  handle' \in [Devs -> Tokens \cup {None}] /\ faults' \in 0..MaxFaults
BY HandlesType, NoHandlesType, SpendType DEF Sync, TypeOK

LEMMA RouteType ==
  ASSUME TypeOK
  PROVE  /\ Route \in Seq(Bridges) /\ Routed \in SUBSET Bridges
         /\ \A a \in Arrays : arr[a] \in Seq(Bridges)
<1>1. <<>> \in Seq(Bridges) BY EmptySeq
<1>2. \A a \in Arrays : arr[a] \in Seq(Bridges) BY DEF TypeOK
<1>3. Route \in Seq(Bridges) BY <1>1, <1>2 DEF TypeOK, Route
<1>4. \A i \in DOMAIN Route : Route[i] \in Bridges BY <1>3, LenProperties
<1> QED BY <1>2, <1>3, <1>4 DEF Routed, ToSet

LEMMA PreparedType ==
  ASSUME BInv, NEW t \in Tasks
  PROVE  Prepared(t) \in SUBSET Bridges /\ IsFiniteSet(Prepared(t))
<1> DEFINE D == {e \in Devs : task[t].ask[e] = "ok"}
           f == [d \in D |-> <<d, task[t].tok[d]>>]
<1>1. IsFiniteSet(D) BY BridgeAssumption, FS_Subset
<1>2. task[t] \in TaskSt /\ \A d \in D : task[t].tok[d] # None
  BY DEF BInv, TypeOK, TasksFormed, Formed
<1>3. \A d \in D : task[t].tok[d] \in Tokens BY <1>2 DEF TaskSt
<1>4. Prepared(t) \in SUBSET Bridges BY <1>3 DEF Prepared, Bridges
<1>5. f \in Surjection(D, Prepared(t)) BY DEF Prepared, Surjection
<1> QED BY <1>1, <1>4, <1>5, FS_Surjection

\* The questions put to the AirPlay process concern the bridges it is to prepare.
LEMMA AskedType ==
  ASSUME NEW S \in SUBSET Bridges
  PROVE  /\ Asked(S) \in [Devs -> AskSt]
         /\ \A d \in Devs : /\ Asked(S)[d] \in {"no", "sent", "up"}
                            /\ Asked(S)[d] # "no" <=> d \in DevsOf(S)
BY DEF Asked, AskSt

LEMMA FreshType == ASSUME NEW d PROVE Fresh(d) \subseteq Tokens
BY DEF Fresh

-----------------------------------------------------------------------------
(* Playing, resuming and stopping keep the types.                          *)

LEMMA PlayType == ASSUME BInv, NEW t \in Tasks, NEW on \in SUBSET Devs, Play(t, on) PROVE BInv'
<1> DEFINE S == {s \in Routed : s[1] \notin on}
           tok == [d \in Devs |-> IF d \in on THEN TokenIn(Route, d) ELSE None]
           ask == [d \in Devs |-> IF d \in on THEN "failed" ELSE "no"]
           R == [Idle EXCEPT !.op = "play", !.at = "stopping", !.a = active, !.tok = tok, !.ask = ask]
<1>1. /\ "play" \in Ops /\ StopDevice(S) /\ Begin(t, R)
      /\ UNCHANGED <<arr, active, late, handle, aside, faults>>
  BY DEF Play
<1>2. tok \in [Devs -> Tokens \cup {None}] BY RouteType, TokenInType DEF BInv
<1>3. ask \in [Devs -> AskSt] /\ \A d \in Devs : ask[d] \in {"failed", "no"} BY DEF AskSt
<1> HIDE DEF tok, ask, S
<1>4. /\ R \in TaskSt /\ R.op = "play" /\ R.ask = ask
  BY <1>1, <1>2, <1>3, IdleType DEF TaskSt, BInv, TypeOK
<1> HIDE DEF R
<1>5. Formed(R) BY <1>3, <1>4 DEF Formed
<1>6. task' \in [Tasks -> TaskSt] /\ TasksFormed' BY <1>1, <1>4, <1>5, BeginType
<1>7. owner' \in [Devs -> Tokens \cup {None}] /\ session' \subseteq session /\ broken' \subseteq session'
  BY <1>1, StopType DEF BInv
<1>8. \A u \in Tasks : task'[u].op = "none" => task'[u] = Idle BY <1>6 DEF TasksFormed, Formed
<1> QED BY <1>1, <1>6, <1>7, <1>8 DEF BInv, TypeOK, aside

\* The devices of bridges that are given device by device.
LEMMA DevsOfPairs ==
  ASSUME NEW on, NEW tok PROVE DevsOf({<<d, tok[d]>> : d \in on}) = on
<1> DEFINE S == {<<d, tok[d]>> : d \in on}
<1>1. \A d \in on : <<d, tok[d]>> \in S /\ <<d, tok[d]>>[1] = d OBVIOUS
<1>2. \A s \in S : s[1] \in on OBVIOUS
<1> HIDE DEF S
<1>3. \A d \in on : d \in DevsOf(S) BY <1>1 DEF DevsOf
<1>4. \A d \in DevsOf(S) : d \in on BY <1>2 DEF DevsOf
<1>5. DevsOf(S) = on BY <1>3, <1>4
<1> QED BY <1>5 DEF S

\* A new token for each device that has none.
LEMMA TokensType ==
  ASSUME NEW on \in SUBSET Devs, NEW old \in [Devs -> Tokens \cup {None}],
         \A d \in on : old[d] # None \/ Fresh(d) # {}
  PROVE  LET tok == [d \in Devs |-> IF d \in on /\ old[d] = None
                                   THEN CHOOSE k \in Fresh(d) : TRUE ELSE old[d]]
             S   == {<<d, tok[d]>> : d \in on}
         IN  /\ tok \in [Devs -> Tokens \cup {None}] /\ \A d \in on : tok[d] # None
             /\ S \in SUBSET Bridges /\ DevsOf(S) = on
<1> DEFINE new(d) == CHOOSE k \in Fresh(d) : TRUE
           tok == [d \in Devs |-> IF d \in on /\ old[d] = None THEN new(d) ELSE old[d]]
           S == {<<d, tok[d]>> : d \in on}
<1>1. \A d \in on : old[d] = None => new(d) \in Tokens BY FreshType
<1> HIDE DEF new
<1>2. tok \in [Devs -> Tokens \cup {None}] BY <1>1
<1>3. \A d \in on : tok[d] \in Tokens BY <1>1
<1>4. \A d \in on : tok[d] # None BY <1>3, BridgeAssumption
<1> HIDE DEF tok
<1>5. S \in SUBSET Bridges BY <1>3 DEF Bridges
<1>6. DevsOf(S) = on BY DevsOfPairs
<1> QED BY <1>2, <1>4, <1>5, <1>6 DEF tok, new

LEMMA PlayPreparesType == ASSUME BInv, NEW t \in Tasks, PlayPrepares(t) PROVE BInv'
<1> DEFINE on == {d \in Devs : task[t].ask[d] # "no"}
           old == task[t].tok
           tok == [d \in Devs |-> IF d \in on /\ old[d] = None
                                  THEN CHOOSE k \in Fresh(d) : TRUE ELSE old[d]]
           S == {<<d, tok[d]>> : d \in on}
           R == [task[t] EXCEPT !.at = "prepare", !.tok = tok, !.ask = Asked(S)]
<1>1. /\ \A d \in on : old[d] # None \/ Fresh(d) # {}
      /\ task[t].op = "play" /\ ChildPrepares(S)
      /\ task' = [task EXCEPT ![t].at = "prepare", ![t].tok = tok, ![t].ask = Asked(S)]
      /\ UNCHANGED <<server, late, handle, aside, faults>>
  BY DEF PlayPrepares
<1>2. task[t] \in TaskSt /\ old \in [Devs -> Tokens \cup {None}] /\ task \in [Tasks -> TaskSt]
  BY DEF BInv, TypeOK, TaskSt
<1>3. /\ tok \in [Devs -> Tokens \cup {None}] /\ \A d \in on : tok[d] # None
      /\ S \in SUBSET Bridges /\ DevsOf(S) = on
  <2> DEFINE O == on
             z == old
  <2>1. O \in SUBSET Devs /\ z \in [Devs -> Tokens \cup {None}]
        /\ \A d \in O : z[d] # None \/ Fresh(d) # {}
    BY <1>1, <1>2
  <2> HIDE DEF O, z
  <2> DEFINE k == [d \in Devs |-> IF d \in O /\ z[d] = None
                                  THEN CHOOSE x \in Fresh(d) : TRUE ELSE z[d]]
             W == {<<d, k[d]>> : d \in O}
  <2>2. /\ k \in [Devs -> Tokens \cup {None}] /\ \A d \in O : k[d] # None
        /\ W \in SUBSET Bridges /\ DevsOf(W) = O
    BY <2>1, TokensType
  <2> QED BY <2>2 DEF O, z
<1>4. task' = [task EXCEPT ![t] = R] BY <1>1, <1>2
<1> HIDE DEF tok, S
<1>5. /\ Asked(S) \in [Devs -> AskSt]
      /\ \A d \in Devs : Asked(S)[d] # "no" <=> d \in on
  BY <1>3, AskedType
<1>6. R \in TaskSt /\ R.op = "play" /\ R.ask = Asked(S) /\ R.tok = tok
  BY <1>1, <1>2, <1>3, <1>5 DEF TaskSt
<1> HIDE DEF R
<1>7. Formed(R)
  <2>1. \A d \in Devs : R.ask[d] \in {"sent", "up", "ok"} => R.tok[d] # None
    BY <1>3, <1>5, <1>6
  <2> QED BY <1>6, <2>1 DEF Formed
<1>8. task' \in [Tasks -> TaskSt] /\ TasksFormed' BY <1>4, <1>6, <1>7, TaskBecomes
<1>9. session' \subseteq session /\ broken' \subseteq session' BY <1>1, PreparesType DEF BInv
<1>10. \A u \in Tasks : task'[u].op = "none" => task'[u] = Idle BY <1>8 DEF TasksFormed, Formed
<1> QED BY <1>1, <1>8, <1>9, <1>10 DEF BInv, TypeOK, server, aside

\* A resume at its end holds nothing.
LEMMA FanType ==
  ASSUME "resume" \in Ops, NEW b \in BOOLEAN, NEW R,
         R = [Idle EXCEPT !.op = "resume", !.at = "fan", !.old = b]
  PROVE  /\ R \in TaskSt /\ R.op = "resume" /\ R.a = None /\ R.tok = Idle.tok /\ R.ask = Idle.ask
         /\ R.old = b /\ R.at = "fan" /\ Formed(R)
<1>1. Idle \in TaskSt /\ Idle.a = None BY IdleType DEF Idle
<1>2. /\ R \in TaskSt /\ R.op = "resume" /\ R.a = None /\ R.tok = Idle.tok /\ R.ask = Idle.ask
      /\ R.old = b /\ R.at = "fan"
  BY <1>1 DEF TaskSt
<1>3. Formed(R) BY <1>2, IdleType DEF Formed
<1> QED BY <1>2, <1>3

LEMMA ResumeType ==
  ASSUME BInv, NEW t \in Tasks, NEW on \in SUBSET Devs, Resume(t, on) PROVE BInv'
<1> DEFINE tok == [d \in Devs |-> IF d \in on THEN CHOOSE k \in Fresh(d) : TRUE ELSE None]
           S == {<<d, tok[d]>> : d \in on}
           R == [Idle EXCEPT !.op = "resume", !.at = "prepare", !.tok = tok, !.ask = Asked(S)]
           F == [Idle EXCEPT !.op = "resume", !.at = "fan"]
<1>1. /\ "resume" \in Ops /\ UNCHANGED <<server, late, handle, aside, faults>>
      /\ \/ Begin(t, F) /\ UNCHANGED <<session, broken>>
         \/ (\A d \in on : Fresh(d) # {}) /\ ChildPrepares(S) /\ Begin(t, R)
  BY DEF Resume
<1>2. ASSUME task' \in [Tasks -> TaskSt], TasksFormed', session' \subseteq session,
             broken' \subseteq session'
      PROVE  BInv'
  <2>1. \A u \in Tasks : task'[u].op = "none" => task'[u] = Idle BY <1>2 DEF TasksFormed, Formed
  <2> QED BY <1>1, <1>2, <2>1 DEF BInv, TypeOK, server, aside
<1>3. CASE Begin(t, F) /\ UNCHANGED <<session, broken>>
  <2>0. FALSE \in BOOLEAN OBVIOUS
  <2>1. F = [Idle EXCEPT !.op = "resume", !.at = "fan", !.old = FALSE]
    BY IdleType DEF TaskSt
  <2> HIDE DEF F
  <2>2. F \in TaskSt /\ Formed(F) /\ F.op # "none" BY <1>1, <2>0, <2>1, FanType
  <2>3. task' \in [Tasks -> TaskSt] /\ TasksFormed' BY <1>3, <2>2, BeginType
  <2> QED BY <1>2, <1>3, <2>3 DEF BInv, TypeOK
<1>4. CASE (\A d \in on : Fresh(d) # {}) /\ ChildPrepares(S) /\ Begin(t, R)
  <2>1. /\ tok \in [Devs -> Tokens \cup {None}] /\ \A d \in on : tok[d] # None
        /\ S \in SUBSET Bridges /\ DevsOf(S) = on
    <3> DEFINE new(d) == CHOOSE k \in Fresh(d) : TRUE
    <3>1. \A d \in on : new(d) \in Tokens BY <1>4, FreshType
    <3>2. tok = [d \in Devs |-> IF d \in on THEN new(d) ELSE None] OBVIOUS
    <3> HIDE DEF new, tok
    <3>3. tok \in [Devs -> Tokens \cup {None}] /\ \A d \in on : tok[d] \in Tokens BY <3>1, <3>2
    <3>4. \A d \in on : tok[d] # None BY <3>3, BridgeAssumption
    <3>5. S \in SUBSET Bridges BY <3>3 DEF Bridges
    <3>6. DevsOf(S) = on BY DevsOfPairs
    <3> QED BY <3>3, <3>4, <3>5, <3>6
  <2> HIDE DEF tok, S
  <2>2. /\ Asked(S) \in [Devs -> AskSt]
        /\ \A d \in Devs : Asked(S)[d] # "no" <=> d \in on
    BY <2>1, AskedType
  <2>3. R \in TaskSt /\ R.op = "resume" /\ R.ask = Asked(S) /\ R.tok = tok
    BY <1>1, <2>1, <2>2, IdleType DEF TaskSt
  <2> HIDE DEF R
  <2>4. \A d \in Devs : R.ask[d] \in {"sent", "up", "ok"} => R.tok[d] # None
    BY <2>1, <2>2, <2>3
  <2>5. Formed(R) BY <2>3, <2>4 DEF Formed
  <2>6. task' \in [Tasks -> TaskSt] /\ TasksFormed' BY <1>4, <2>3, <2>5, BeginType
  <2>7. session' \subseteq session /\ broken' \subseteq session' BY <1>4, PreparesType DEF BInv
  <2> QED BY <1>2, <2>6, <2>7
<1> QED BY <1>1, <1>3, <1>4

LEMMA ResumeSyncsType == ASSUME BInv, NEW t \in Tasks, ResumeSyncs(t) PROVE BInv'
<1> DEFINE P == SetToSeq(Prepared(t))
           F == [Idle EXCEPT !.op = "resume", !.at = "fan", !.old = task[t].old]
<1>1. /\ task' = [task EXCEPT ![t] = F]
      /\ UNCHANGED <<owner, child, rebuild, playing, seen, round>>
  BY DEF ResumeSyncs
<1>2. task' \in [Tasks -> TaskSt] /\ TasksFormed'
  <2>1. task[t] \in TaskSt /\ task[t].op = "resume" BY DEF BInv, TypeOK, ResumeSyncs
  <2>2. "resume" \in Ops /\ task[t].old \in BOOLEAN BY <2>1 DEF TaskSt
  <2> HIDE DEF F
  <2>3. F \in TaskSt /\ Formed(F) BY <2>2, FanType DEF F
  <2> QED BY <1>1, <2>3, TaskBecomes
<1>3. \A u \in Tasks : task'[u].op = "none" => task'[u] = Idle BY <1>2 DEF TasksFormed, Formed
<1>4. P \in Seq(Bridges) BY PreparedType, SetToSeqType
<1> HIDE DEF P, F
<1>5. CASE UNCHANGED <<arr, active, handle, faults, byPlay>>
  BY <1>1, <1>2, <1>3, <1>5 DEF BInv, TypeOK, child
<1>6. ASSUME NEW a \in FreeArrays, NEW res \in Results,
             active' = a, Keep([arr EXCEPT ![a] = P]), Sync(P, res), byPlay' = FALSE
      PROVE  BInv'
  <2>1. a \in Arrays BY DEF FreeArrays
  <2>2. [arr EXCEPT ![a] = P] \in [Arrays -> Seq(Bridges)] BY <1>4, <2>1 DEF BInv, TypeOK
  <2>3. arr' \in [Arrays -> Seq(Bridges)] BY <1>6, <2>2, KeepType
  <2>4. handle' \in [Devs -> Tokens \cup {None}] /\ faults' \in 0..MaxFaults
    BY <1>4, <1>6, SyncType DEF BInv
  <2> QED BY <1>1, <1>2, <1>3, <1>6, <2>1, <2>3, <2>4 DEF BInv, TypeOK, child
<1> QED BY <1>5, <1>6 DEF ResumeSyncs, P

LEMMA ResumeEndsType == ASSUME BInv, NEW t \in Tasks, ResumeEnds(t) PROVE BInv'
<1>1. /\ End(t) /\ playing' \in {playing, TRUE}
      /\ UNCHANGED <<server, child, handle, rebuild, seen, round, faults, byPlay>>
  BY DEF ResumeEnds
<1>2. task' \in [Tasks -> TaskSt] /\ TasksFormed' BY <1>1, EndType
<1>3. \A u \in Tasks : task'[u].op = "none" => task'[u] = Idle BY <1>2 DEF TasksFormed, Formed
<1> QED BY <1>1, <1>2, <1>3 DEF BInv, TypeOK, server, child

\* A teardown leaves no route, and stops what was in it.
LEMMA TeardownType ==
  ASSUME TypeOK, Teardown
  PROVE  /\ active' \in Arrays \cup {None} /\ owner' \in [Devs -> Tokens \cup {None}]
         /\ session' \subseteq session /\ broken' \subseteq session'
BY StopType DEF Teardown

LEMMA PlayCastsType == ASSUME BInv, NEW t \in Tasks, PlayCasts(t) PROVE BInv'
<1> DEFINE P == SetToSeq(Prepared(t))
<1>1. /\ task[t].op = "play" /\ UNCHANGED <<late, handle, rebuild, playing, seen, round, faults>>
      /\ byPlay' \in BOOLEAN
  BY DEF PlayCasts, BInv, TypeOK
<1>2. task[t] \in TaskSt /\ Formed(task[t]) /\ task \in [Tasks -> TaskSt]
  BY DEF BInv, TypeOK, TasksFormed
<1>3. ASSUME NEW a \in Arrays \cup {None}, task' = [task EXCEPT ![t].at = "cast", ![t].a = a]
      PROVE  task' \in [Tasks -> TaskSt] /\ TasksFormed'
  <2> DEFINE R == [task[t] EXCEPT !.at = "cast", !.a = a]
  <2>1. task' = [task EXCEPT ![t] = R] BY <1>2, <1>3
  <2>2. R \in TaskSt /\ R.op = "play" /\ R.ask = task[t].ask /\ R.tok = task[t].tok
    BY <1>1, <1>2 DEF TaskSt
  <2> HIDE DEF R
  <2>3. Formed(R) BY <1>2, <2>2 DEF Formed
  <2> QED BY <2>1, <2>2, <2>3, TaskBecomes
<1>4. P \in Seq(Bridges) BY PreparedType, SetToSeqType
<1> HIDE DEF P
<1>5. ASSUME NEW a \in FreeArrays, active' = a, Keep([arr EXCEPT ![a] = P]),
             task' = [task EXCEPT ![t].at = "cast", ![t].a = a],
             UNCHANGED <<owner, session, broken>>
      PROVE  BInv'
  <2>1. a \in Arrays BY DEF FreeArrays
  <2>2. [arr EXCEPT ![a] = P] \in [Arrays -> Seq(Bridges)] BY <1>4, <2>1 DEF BInv, TypeOK
  <2>3. arr' \in [Arrays -> Seq(Bridges)] BY <1>5, <2>2, KeepType
  <2>4. task' \in [Tasks -> TaskSt] /\ TasksFormed' BY <1>3, <1>5, <2>1
  <2>5. \A u \in Tasks : task'[u].op = "none" => task'[u] = Idle BY <2>4 DEF TasksFormed, Formed
  <2> QED BY <1>1, <1>5, <2>1, <2>3, <2>4, <2>5 DEF BInv, TypeOK
<1>6. ASSUME task' = [task EXCEPT ![t].at = "cast", ![t].a = None], Keep(arr),
             Teardown \/ UNCHANGED <<active, owner, session, broken>>
      PROVE  BInv'
  <2>1. arr' \in [Arrays -> Seq(Bridges)] BY <1>6, KeepType DEF BInv, TypeOK
  <2>2. task' \in [Tasks -> TaskSt] /\ TasksFormed' BY <1>3, <1>6
  <2>3. \A u \in Tasks : task'[u].op = "none" => task'[u] = Idle BY <2>2 DEF TasksFormed, Formed
  <2>4. /\ active' \in Arrays \cup {None} /\ owner' \in [Devs -> Tokens \cup {None}]
        /\ session' \subseteq session /\ broken' \subseteq session'
    BY <1>6, TeardownType DEF BInv, TypeOK
  <2> QED BY <1>1, <2>1, <2>2, <2>3, <2>4 DEF BInv, TypeOK
<1> QED BY <1>5, <1>6 DEF PlayCasts, P

LEMMA CastEndsType == ASSUME BInv, NEW t \in Tasks, CastEnds(t) PROVE BInv'
<1>1. End(t) /\ Keep(arr) /\ UNCHANGED <<late, rebuild, seen, round, byPlay>> BY DEF CastEnds
<1>2. task' \in [Tasks -> TaskSt] /\ TasksFormed' BY <1>1, EndType
<1>3. \A u \in Tasks : task'[u].op = "none" => task'[u] = Idle BY <1>2 DEF TasksFormed, Formed
<1>4. arr' \in [Arrays -> Seq(Bridges)] BY <1>1, KeepType DEF BInv, TypeOK
<1>5. handle' \in [Devs -> Tokens \cup {None}] /\ faults' \in 0..MaxFaults
  <2>1. task[t].a # None => HandlesOf(arr[task[t].a]) \in [Devs -> Tokens \cup {None}]
    BY RouteType, HandlesType DEF BInv, TypeOK, TaskSt
  <2> QED BY <2>1, NoHandlesType, SpendType DEF CastEnds, BInv, TypeOK
<1>6. /\ active' \in Arrays \cup {None} /\ owner' \in [Devs -> Tokens \cup {None}]
      /\ session' \subseteq session /\ broken' \subseteq session'
  BY TeardownType DEF CastEnds, BInv, TypeOK
<1>7. playing' \in BOOLEAN
  <2>1. playing' = TRUE \/ playing' = FALSE BY DEF CastEnds
  <2> QED BY <2>1
<1> QED BY <1>1, <1>2, <1>3, <1>4, <1>5, <1>6, <1>7 DEF BInv, TypeOK

LEMMA StopsType == ASSUME BInv, NEW t \in Tasks, Stop(t) PROVE BInv'
<1>1. PICK res \in Results :
        /\ IF active = None THEN res = "ok" /\ UNCHANGED <<handle, faults>> ELSE Sync(<<>>, res)
        /\ Begin(t, [Idle EXCEPT !.op = "stop", !.at = "sync", !.res = res])
  BY DEF Stop
<1>2. "stop" \in Ops /\ UNCHANGED <<server, child, aside>> BY DEF Stop
<1> DEFINE R == [Idle EXCEPT !.op = "stop", !.at = "sync", !.res = res]
<1>3. R \in TaskSt /\ R.op = "stop" /\ R.ask = Idle.ask
  BY <1>2, IdleType DEF TaskSt, Results
<1> HIDE DEF R
<1>4. Formed(R) BY <1>3, IdleType DEF Formed
<1>5. task' \in [Tasks -> TaskSt] /\ TasksFormed' BY <1>1, <1>3, <1>4, BeginType DEF R
<1>6. \A u \in Tasks : task'[u].op = "none" => task'[u] = Idle BY <1>5 DEF TasksFormed, Formed
<1>7. handle' \in [Devs -> Tokens \cup {None}] /\ faults' \in 0..MaxFaults
  <2>1. <<>> \in Seq(Bridges) BY EmptySeq
  <2> QED BY <1>1, <2>1, SyncType DEF BInv, TypeOK
<1> QED BY <1>2, <1>5, <1>6, <1>7 DEF BInv, TypeOK, server, child, aside

LEMMA StopTearsType == ASSUME BInv, NEW t \in Tasks, StopTears(t) PROVE BInv'
<1>1. End(t) /\ Keep(arr) /\ UNCHANGED <<late, handle, rebuild, seen, round, faults, byPlay>> BY DEF StopTears
<1>2. task' \in [Tasks -> TaskSt] /\ TasksFormed' BY <1>1, EndType
<1>3. \A u \in Tasks : task'[u].op = "none" => task'[u] = Idle BY <1>2 DEF TasksFormed, Formed
<1>4. arr' \in [Arrays -> Seq(Bridges)] BY <1>1, KeepType DEF BInv, TypeOK
<1>5. /\ active' \in Arrays \cup {None} /\ owner' \in [Devs -> Tokens \cup {None}]
      /\ session' \subseteq session /\ broken' \subseteq session'
  BY TeardownType DEF StopTears, BInv, TypeOK
<1>6. playing' \in BOOLEAN
  <2>1. playing' = playing \/ playing' = FALSE BY DEF StopTears
  <2> QED BY <2>1 DEF BInv, TypeOK
<1> QED BY <1>1, <1>2, <1>3, <1>4, <1>5, <1>6 DEF BInv, TypeOK

-----------------------------------------------------------------------------
(* Joining and leaving keep the types.                                     *)

LEMMA JoinType == ASSUME BInv, NEW t \in Tasks, NEW d \in Devs, Join(t, d) PROVE BInv'
<1> DEFINE k == CHOOSE x \in Fresh(d) : TRUE
           S == {<<d, k>>}
<1>1. k \in Tokens
  <2>1. Fresh(d) # {} BY DEF Join
  <2> QED BY <2>1, FreshType
<1> HIDE DEF k
<1>2. PICK a \in IF active = None THEN FreeArrays ELSE {active} :
        /\ active' = a
        /\ ChildPrepares(S)
        /\ Begin(t, [Idle EXCEPT !.op = "join", !.at = "prepare", !.a = a, !.dev = d,
                                 !.tok[d] = k, !.ask = Asked(S)])
  BY DEF Join, k
<1>3. UNCHANGED <<arr, owner, late, handle, rebuild, playing, seen, round, faults>> BY DEF Join
<1>4. a \in Arrays BY BridgeAssumption DEF FreeArrays, BInv, TypeOK
<1>5. S \in SUBSET Bridges BY <1>1 DEF Bridges
<1>6. DevsOf(S) = {d} BY DEF DevsOf
<1> DEFINE ask == Asked(S)
<1> HIDE DEF S
<1>7. ask \in [Devs -> AskSt] /\ \A e \in Devs : ask[e] # "no" => e = d
  BY <1>5, <1>6, AskedType
<1> DEFINE tok == [Idle.tok EXCEPT ![d] = k]
<1>8. tok \in [Devs -> Tokens \cup {None}] /\ tok[d] # None
  BY <1>1, IdleType, BridgeAssumption DEF TaskSt
<1> DEFINE R == [Idle EXCEPT !.op = "join", !.at = "prepare", !.a = a, !.dev = d,
                             !.tok[d] = k, !.ask = ask]
<1> HIDE DEF ask
<1>9. R = [Idle EXCEPT !.op = "join", !.at = "prepare", !.a = a, !.dev = d, !.tok = tok, !.ask = ask]
  BY IdleType DEF TaskSt
<1>10. Begin(t, R) BY <1>2 DEF ask
<1> HIDE DEF tok, R
<1>11. /\ R \in TaskSt /\ R.op = "join" /\ R.a = a /\ R.dev = d /\ R.tok = tok /\ R.ask = ask
  BY <1>4, <1>7, <1>8, <1>9, IdleType DEF TaskSt
<1>12. Formed(R) BY <1>4, <1>7, <1>8, <1>11 DEF Formed
<1>13. task' \in [Tasks -> TaskSt] /\ TasksFormed' BY <1>10, <1>11, <1>12, BeginType
<1>14. session' \subseteq session /\ broken' \subseteq session' BY <1>2, PreparesType DEF BInv
<1>15. \A u \in Tasks : task'[u].op = "none" => task'[u] = Idle BY <1>13 DEF TasksFormed, Formed
<1>16. byPlay' \in BOOLEAN BY DEF Join, BInv, TypeOK
<1> QED BY <1>16, <1>2, <1>3, <1>4, <1>13, <1>14, <1>15 DEF BInv, TypeOK

LEMMA JoinSyncsType == ASSUME BInv, NEW t \in Tasks, JoinSyncs(t) PROVE BInv'
<1> DEFINE d == task[t].dev
           s == <<d, task[t].tok[d]>>
           r == Append(arr[task[t].a], s)
<1>1. /\ task[t].op = "join" /\ UNCHANGED active /\ UNCHANGED <<child, aside>>
  BY DEF JoinSyncs
<1>2. /\ task[t] \in TaskSt /\ Formed(task[t]) /\ task \in [Tasks -> TaskSt]
      /\ task[t].a \in Arrays /\ d \in Devs
  BY <1>1 DEF BInv, TypeOK, TasksFormed, Formed
<1>3. CASE task[t].ask[d] = "down"
  <2>1. End(t) /\ Keep(arr) /\ UNCHANGED <<owner, handle, faults>> BY <1>3 DEF JoinSyncs
  <2>2. task' \in [Tasks -> TaskSt] /\ TasksFormed' BY <2>1, EndType
  <2>3. \A u \in Tasks : task'[u].op = "none" => task'[u] = Idle BY <2>2 DEF TasksFormed, Formed
  <2>4. arr' \in [Arrays -> Seq(Bridges)] BY <2>1, KeepType DEF BInv, TypeOK
  <2> QED BY <1>1, <2>1, <2>2, <2>3, <2>4 DEF BInv, TypeOK, child, aside
<1>4. CASE task[t].ask[d] = "up"
  <2>1. task[t].tok[d] \in Tokens BY <1>2, <1>4 DEF TaskSt, Formed
  <2>2. s \in Bridges BY <1>2, <2>1 DEF Bridges
  <2>3. arr[task[t].a] \in Seq(Bridges) BY <1>2, RouteType DEF BInv
  <2> HIDE DEF s
  <2>4. r \in Seq(Bridges) BY <2>2, <2>3, AppendType
  <2> HIDE DEF r
  <2>5. /\ owner' = [owner EXCEPT ![d] = task[t].tok[d]]
        /\ arr' = [arr EXCEPT ![task[t].a] = r]
        /\ \E res \in Results :
              /\ Sync(r, res)
              /\ task' = [task EXCEPT ![t].at = "sync", ![t].res = res, ![t].ask[d] = "ok"]
    BY <1>4 DEF JoinSyncs, r, s
  <2>6. PICK res \in Results :
              /\ Sync(r, res)
              /\ task' = [task EXCEPT ![t].at = "sync", ![t].res = res, ![t].ask[d] = "ok"]
    BY <2>5
  <2> DEFINE ask == [task[t].ask EXCEPT ![d] = "ok"]
             R == [task[t] EXCEPT !.at = "sync", !.res = res, !.ask = ask]
  <2>7. ask \in [Devs -> AskSt] /\ \A e \in Devs : ask[e] = IF e = d THEN "ok" ELSE task[t].ask[e]
    BY <1>2 DEF TaskSt, AskSt
  <2>8. task' = [task EXCEPT ![t] = R] BY <1>2, <2>6 DEF TaskSt
  <2> HIDE DEF ask
  <2>9. /\ R \in TaskSt /\ R.op = "join" /\ R.a = task[t].a /\ R.dev = d
        /\ R.tok = task[t].tok /\ R.ask = ask
    BY <1>1, <1>2, <2>7 DEF TaskSt, Results
  <2> HIDE DEF R
  <2>10. \A e \in Devs : R.ask[e] \in {"sent", "up", "ok"} => R.tok[e] # None
    BY <1>2, <1>4, <2>7, <2>9 DEF Formed
  <2>11. Formed(R) BY <1>2, <2>9, <2>10 DEF Formed
  <2>12. task' \in [Tasks -> TaskSt] /\ TasksFormed' BY <2>8, <2>9, <2>11, TaskBecomes
  <2>13. \A u \in Tasks : task'[u].op = "none" => task'[u] = Idle BY <2>12 DEF TasksFormed, Formed
  <2>14. handle' \in [Devs -> Tokens \cup {None}] /\ faults' \in 0..MaxFaults
    BY <2>4, <2>6, SyncType DEF BInv
  <2>15. owner' \in [Devs -> Tokens \cup {None}] /\ arr' \in [Arrays -> Seq(Bridges)]
    BY <2>1, <2>4, <2>5 DEF BInv, TypeOK
  <2> QED BY <1>1, <2>12, <2>13, <2>14, <2>15 DEF BInv, TypeOK, child, aside
<1> QED BY <1>3, <1>4 DEF JoinSyncs

LEMMA JoinEndsType == ASSUME BInv, NEW t \in Tasks, JoinEnds(t) PROVE BInv'
<1> DEFINE s == <<task[t].dev, task[t].tok[task[t].dev]>>
           a == task[t].a
           w == Without(arr[a], s)
<1>1. /\ task[t].op = "join" /\ End(t) /\ UNCHANGED active
      /\ UNCHANGED <<late, handle, aside, faults>>
  BY DEF JoinEnds
<1>2. task' \in [Tasks -> TaskSt] /\ TasksFormed' BY <1>1, EndType
<1>3. \A u \in Tasks : task'[u].op = "none" => task'[u] = Idle BY <1>2 DEF TasksFormed, Formed
<1>4. a \in Arrays BY <1>1 DEF BInv, TasksFormed, Formed
<1>5. w \in Seq(Bridges) BY <1>4, RouteType, WithoutType DEF BInv
<1>6. arr' \in [Arrays -> Seq(Bridges)]
  <2>1. Keep([arr EXCEPT ![a] = w]) \/ Keep(arr) BY DEF JoinEnds
  <2> HIDE DEF w, a
  <2>2. [arr EXCEPT ![a] = w] \in [Arrays -> Seq(Bridges)] BY <1>4, <1>5 DEF BInv, TypeOK
  <2>3. arr \in [Arrays -> Seq(Bridges)] BY DEF BInv, TypeOK
  <2> QED BY <2>1, <2>2, <2>3, KeepType
<1>7. /\ owner' \in [Devs -> Tokens \cup {None}]
      /\ session' \subseteq session /\ broken' \subseteq session'
  BY StopType DEF JoinEnds, BInv, TypeOK
<1> QED BY <1>1, <1>2, <1>3, <1>6, <1>7 DEF BInv, TypeOK, aside

\* The first place of a device that is in an array.
LEMMA FirstOf ==
  ASSUME NEW r \in Seq(Bridges), NEW d \in DevsOf(ToSet(r))
  PROVE  LET i == CHOOSE i \in DOMAIN r : r[i][1] = d /\ \A j \in 1..(i - 1) : r[j][1] # d
         IN  i \in DOMAIN r /\ r[i] \in Bridges /\ r[i][1] = d
<1> DEFINE T == {i \in DOMAIN r : r[i][1] = d}
           i0 == CHOOSE i \in DOMAIN r : r[i][1] = d /\ \A j \in 1..(i - 1) : r[j][1] # d
<1>1. DOMAIN r = 1..Len(r) /\ Len(r) \in Nat /\ \A i \in 1..Len(r) : r[i] \in Bridges
  BY LenProperties
<1>2. T \in SUBSET Nat /\ T # {} BY <1>1 DEF DevsOf, ToSet
<1>3. PICK i \in T : \A j \in T : i <= j BY <1>2, FirstPlace
<1>4. i \in DOMAIN r /\ r[i][1] = d /\ \A j \in 1..(i - 1) : r[j][1] # d BY <1>1, <1>2, <1>3
<1>5. i0 \in DOMAIN r /\ r[i0][1] = d BY <1>4
<1> HIDE DEF i0
<1>6. i0 \in DOMAIN r /\ r[i0] \in Bridges /\ r[i0][1] = d BY <1>1, <1>5
<1> QED BY <1>6 DEF i0

LEMMA LeaveType == ASSUME BInv, NEW t \in Tasks, NEW d \in Devs, Leave(t, d) PROVE BInv'
<1> DEFINE i == CHOOSE i \in DOMAIN Route : Route[i][1] = d /\ \A j \in 1..(i - 1) : Route[j][1] # d
           r == RemoveAt(Route, i)
           k == Route[i][2]
<1>1. /\ "leave" \in Ops /\ d \in RoutedDevs
      /\ arr' = [arr EXCEPT ![active] = RemoveAt(@, i)]
      /\ UNCHANGED <<active, owner, child, aside>>
      /\ \E res \in Results :
           /\ Sync(r, res)
           /\ Begin(t, [Idle EXCEPT !.op = "leave", !.at = "sync", !.dev = d,
                                    !.tok[d] = k, !.res = res])
  BY DEF Leave
<1>2. Route \in Seq(Bridges) BY RouteType DEF BInv
<1>3. i \in DOMAIN Route /\ Route[i] \in Bridges
  <2>1. d \in DevsOf(ToSet(Route)) BY <1>1 DEF RoutedDevs, Routed
  <2> QED BY <1>2, <2>1, FirstOf
<1> HIDE DEF i
<1>4. k \in Tokens BY <1>3 DEF Bridges
<1>5. r \in Seq(Bridges) BY <1>2, <1>3, RemoveAtType
<1>6. active \in Arrays /\ Route = arr[active]
  <2>1. active # None
    <3> SUFFICES ASSUME active = None PROVE FALSE OBVIOUS
    <3>1. Route = <<>> BY DEF Route
    <3> QED BY <1>3, <3>1
  <2> QED BY <2>1 DEF BInv, TypeOK, Route
<1>7. arr' = [arr EXCEPT ![active] = r] BY <1>1, <1>6 DEF BInv, TypeOK
<1> HIDE DEF r, k
<1>8. PICK res \in Results :
           /\ Sync(r, res)
           /\ Begin(t, [Idle EXCEPT !.op = "leave", !.at = "sync", !.dev = d,
                                    !.tok[d] = k, !.res = res])
  BY <1>1
<1> DEFINE R == [Idle EXCEPT !.op = "leave", !.at = "sync", !.dev = d, !.tok[d] = k, !.res = res]
           tok == [Idle.tok EXCEPT ![d] = k]
<1>9. tok \in [Devs -> Tokens \cup {None}] BY <1>4, IdleType DEF TaskSt
<1>10. R = [Idle EXCEPT !.op = "leave", !.at = "sync", !.dev = d, !.tok = tok, !.res = res]
  BY IdleType DEF TaskSt
<1>11. Begin(t, R) BY <1>8
<1> HIDE DEF R, tok
<1>12. R \in TaskSt /\ R.op = "leave" /\ R.ask = Idle.ask
  BY <1>1, <1>9, <1>10, IdleType DEF TaskSt, Results
<1>13. Formed(R) BY <1>12, IdleType DEF Formed
<1>14. task' \in [Tasks -> TaskSt] /\ TasksFormed' BY <1>11, <1>12, <1>13, BeginType
<1>15. \A u \in Tasks : task'[u].op = "none" => task'[u] = Idle BY <1>14 DEF TasksFormed, Formed
<1>16. handle' \in [Devs -> Tokens \cup {None}] /\ faults' \in 0..MaxFaults
  BY <1>5, <1>8, SyncType DEF BInv
<1>17. arr' \in [Arrays -> Seq(Bridges)] BY <1>5, <1>6, <1>7 DEF BInv, TypeOK
<1> QED BY <1>1, <1>14, <1>15, <1>16, <1>17 DEF BInv, TypeOK, child, aside

LEMMA LeaveEndsType == ASSUME BInv, NEW t \in Tasks, LeaveEnds(t) PROVE BInv'
<1>1. End(t) /\ UNCHANGED <<arr, active, late, handle, aside, faults>> BY DEF LeaveEnds
<1>2. task' \in [Tasks -> TaskSt] /\ TasksFormed' BY <1>1, EndType
<1>3. \A u \in Tasks : task'[u].op = "none" => task'[u] = Idle BY <1>2 DEF TasksFormed, Formed
<1>4. /\ owner' \in [Devs -> Tokens \cup {None}]
      /\ session' \subseteq session /\ broken' \subseteq session'
  BY StopType DEF LeaveEnds, BInv, TypeOK
<1> QED BY <1>1, <1>2, <1>3, <1>4 DEF BInv, TypeOK, aside

-----------------------------------------------------------------------------
(* The AirPlay process and the rebuild keep the types.                     *)

\* A question of t gets another answer.
LEMMA AskBecomes ==
  ASSUME BInv, NEW t \in Tasks, NEW d \in Devs, NEW x \in AskSt,
         task[t].ask[d] \in {"sent", "up", "down"}, x # "sent",
         x = "ok" => task[t].ask[d] = "up", x = "up" => task[t].ask[d] = "sent",
         task' = [task EXCEPT ![t].ask[d] = x]
  PROVE  task' \in [Tasks -> TaskSt] /\ TasksFormed'
<1> DEFINE ask == [task[t].ask EXCEPT ![d] = x]
           R == [task[t] EXCEPT !.ask = ask]
<1>1. task[t] \in TaskSt /\ Formed(task[t]) /\ task \in [Tasks -> TaskSt]
  BY DEF BInv, TypeOK, TasksFormed
<1>2. ask \in [Devs -> AskSt] /\ \A e \in Devs : ask[e] = IF e = d THEN x ELSE task[t].ask[e]
  BY <1>1 DEF TaskSt
<1>3. task' = [task EXCEPT ![t] = R] BY <1>1 DEF TaskSt
<1> HIDE DEF ask
<1>4. /\ R \in TaskSt /\ R.op = task[t].op /\ R.a = task[t].a /\ R.dev = task[t].dev
      /\ R.tok = task[t].tok /\ R.ask = ask
  BY <1>1, <1>2 DEF TaskSt
<1> HIDE DEF R
<1>5. task[t].op # "none"
  <2> SUFFICES ASSUME task[t].op = "none" PROVE FALSE OBVIOUS
  <2>1. task[t].ask[d] = "no" BY <1>1, IdleType DEF Formed
  <2> QED BY <2>1
<1>6. \A e \in Devs : R.ask[e] \in {"sent", "up", "ok"} => R.tok[e] # None
  BY <1>1, <1>2, <1>4 DEF Formed
<1>7. Formed(R) BY <1>1, <1>4, <1>5, <1>6 DEF Formed
<1> QED BY <1>3, <1>4, <1>7, TaskBecomes

LEMMA HandshakeType == ASSUME BInv, NEW t \in Tasks, NEW d \in Devs, Handshake(t, d) PROVE BInv'
<1> DEFINE s == <<d, task[t].tok[d]>>
<1>1. task[t].ask[d] = "sent" /\ UNCHANGED <<server, late, handle, aside>> BY DEF Handshake
<1>2. s \in Bridges
  <2>1. task[t] \in TaskSt /\ task[t].tok[d] # None
    BY <1>1 DEF BInv, TypeOK, TasksFormed, Formed
  <2>2. task[t].tok[d] \in Tokens BY <2>1 DEF TaskSt
  <2> QED BY <2>2 DEF Bridges
<1>3. ASSUME task' \in [Tasks -> TaskSt], TasksFormed', session' \subseteq Bridges,
             broken' \subseteq session', faults' \in 0..MaxFaults
      PROVE  BInv'
  <2>1. \A u \in Tasks : task'[u].op = "none" => task'[u] = Idle BY <1>3 DEF TasksFormed, Formed
  <2> QED BY <1>1, <1>3, <2>1 DEF BInv, TypeOK, server, aside
<1>4. CASE /\ session' = session \cup {s} /\ broken' = broken \ {s}
           /\ task' = [task EXCEPT ![t].ask[d] = "up"] /\ UNCHANGED faults
  <2>1. "up" \in AskSt BY DEF AskSt
  <2>2. task' \in [Tasks -> TaskSt] /\ TasksFormed' BY <1>1, <1>4, <2>1, AskBecomes
  <2>3. /\ session' \subseteq Bridges /\ broken' \subseteq session' /\ faults' \in 0..MaxFaults
    BY <1>2, <1>4 DEF BInv, TypeOK
  <2> QED BY <1>3, <2>2, <2>3
<1>5. CASE /\ Spend("refuse") /\ task' = [task EXCEPT ![t].ask[d] = "down"]
           /\ UNCHANGED <<session, broken>>
  <2>1. "down" \in AskSt BY DEF AskSt
  <2>2. task' \in [Tasks -> TaskSt] /\ TasksFormed' BY <1>1, <1>5, <2>1, AskBecomes
  <2>3. /\ session' \subseteq Bridges /\ broken' \subseteq session' /\ faults' \in 0..MaxFaults
    BY <1>5, SpendType DEF BInv, TypeOK
  <2> QED BY <1>3, <2>2, <2>3
<1> QED BY <1>4, <1>5 DEF Handshake

LEMMA AnswerType == ASSUME BInv, NEW t \in Tasks, NEW d \in Devs, Answer(t, d) PROVE BInv'
<1> DEFINE x == IF task[t].ask[d] = "up" THEN "ok" ELSE "failed"
<1>1. /\ task[t].ask[d] \in {"up", "down"} /\ task' = [task EXCEPT ![t].ask[d] = x]
      /\ owner' = IF task[t].ask[d] = "up" THEN [owner EXCEPT ![d] = task[t].tok[d]] ELSE owner
      /\ UNCHANGED <<arr, active, child, handle, aside, faults>>
  BY DEF Answer
<1>2. x \in AskSt /\ x # "sent" /\ x # "up" /\ (x = "ok" => task[t].ask[d] = "up") BY DEF AskSt
<1> HIDE DEF x
<1>3. task' \in [Tasks -> TaskSt] /\ TasksFormed' BY <1>1, <1>2, AskBecomes
<1>4. \A u \in Tasks : task'[u].op = "none" => task'[u] = Idle BY <1>3 DEF TasksFormed, Formed
<1>5. task[t].tok[d] \in Tokens \cup {None} BY DEF BInv, TypeOK, TaskSt
<1>6. owner' \in [Devs -> Tokens \cup {None}] BY <1>1, <1>5 DEF BInv, TypeOK
<1> QED BY <1>1, <1>3, <1>4, <1>6 DEF BInv, TypeOK, child, aside

LEMMA TooSlowType == ASSUME BInv, NEW t \in Tasks, NEW d \in Devs, TooSlow(t, d) PROVE BInv'
<1> DEFINE s == <<d, task[t].tok[d]>>
<1>1. /\ task[t].ask[d] = "sent" /\ Spend("slow") /\ task' = [task EXCEPT ![t].ask[d] = "failed"]
      /\ late' = late \cup {s} /\ StopDevice({s}) /\ UNCHANGED <<arr, active, handle, aside>>
  BY DEF TooSlow
<1>2. s \in Bridges
  <2>1. task[t] \in TaskSt /\ task[t].tok[d] # None
    BY <1>1 DEF BInv, TypeOK, TasksFormed, Formed
  <2>2. task[t].tok[d] \in Tokens BY <2>1 DEF TaskSt
  <2> QED BY <2>2 DEF Bridges
<1> HIDE DEF s
<1>3. "failed" \in AskSt BY DEF AskSt
<1>4. task' \in [Tasks -> TaskSt] /\ TasksFormed' BY <1>1, <1>3, AskBecomes
<1>5. \A u \in Tasks : task'[u].op = "none" => task'[u] = Idle BY <1>4 DEF TasksFormed, Formed
<1>6. /\ owner' \in [Devs -> Tokens \cup {None}]
      /\ session' \subseteq session /\ broken' \subseteq session'
  BY <1>1, StopType DEF BInv
<1>7. faults' \in 0..MaxFaults BY <1>1, SpendType DEF BInv
<1> QED BY <1>1, <1>2, <1>4, <1>5, <1>6, <1>7 DEF BInv, TypeOK, aside

\* What leaves the operations alone keeps their part.
LEMMA SameTasks ==
  ASSUME BInv, UNCHANGED task
  PROVE  /\ task' \in [Tasks -> TaskSt] /\ TasksFormed'
         /\ \A u \in Tasks : task'[u].op = "none" => task'[u] = Idle
BY DEF BInv, TypeOK, TasksFormed, Formed

LEMMA LateEndsType == ASSUME BInv, NEW s \in Bridges, LateEnds(s) PROVE BInv'
<1>1. late' = late \ {s} /\ UNCHANGED <<arr, active, broken, handle, task, aside, faults>>
  BY DEF LateEnds
<1>2. s[1] \in Devs /\ s[2] \in Tokens BY DEF Bridges
<1>3. owner' \in [Devs -> Tokens \cup {None}] BY <1>2 DEF LateEnds, BInv, TypeOK
<1>4. session' \subseteq Bridges /\ broken' \subseteq session' BY <1>1 DEF LateEnds, BInv, TypeOK
<1> QED BY <1>1, <1>3, <1>4, SameTasks DEF BInv, TypeOK, aside

LEMMA LossType == ASSUME BInv, NEW s \in Bridges, Loss(s) PROVE BInv'
<1>1. /\ Spend("loss") /\ s \in session \ broken /\ broken' = broken \cup {s}
      /\ UNCHANGED <<server, session, late, handle, task, aside>>
  BY DEF Loss
<1>2. faults' \in 0..MaxFaults BY <1>1, SpendType DEF BInv
<1> QED BY <1>1, <1>2, SameTasks DEF BInv, TypeOK, server, aside

\* A restart answers what was asked with a failure; what has ended stays as it is.
LEMMA ChildRestartsType == ASSUME BInv, ChildRestarts PROVE BInv'
<1> DEFINE ask(t) == [d \in Devs |-> IF task[t].ask[d] \in {"sent", "up"} THEN "down"
                                     ELSE task[t].ask[d]]
           R(t) == [task[t] EXCEPT !.ask = ask(t)]
<1>1. /\ Spend("crash") /\ session' = {} /\ broken' = {} /\ late' = {} /\ rebuild' = TRUE
      /\ task' = [t \in Tasks |-> [task[t] EXCEPT
                    !.ask = [d \in Devs |-> IF @[d] \in {"sent", "up"} THEN "down" ELSE @[d]]]]
      /\ UNCHANGED <<server, handle, playing, byPlay, seen, round>>
  BY DEF ChildRestarts
<1>2. task' = [t \in Tasks |-> R(t)]
  <2>1. \A t \in Tasks : task[t] \in TaskSt BY DEF BInv, TypeOK
  <2> QED BY <1>1, <2>1 DEF TaskSt
<1>3. ASSUME NEW t \in Tasks PROVE R(t) \in TaskSt /\ Formed(R(t))
  <2>1. task[t] \in TaskSt /\ Formed(task[t]) BY DEF BInv, TypeOK, TasksFormed
  <2>2. ask(t) \in [Devs -> AskSt] BY <2>1 DEF TaskSt, AskSt
  <2>3. \A d \in Devs : ask(t)[d] = task[t].ask[d] \/ ask(t)[d] = "down" OBVIOUS
  <2>4. task[t] = Idle => ask(t) = task[t].ask
    <3> SUFFICES ASSUME task[t] = Idle PROVE ask(t) = task[t].ask OBVIOUS
    <3>1. \A d \in Devs : task[t].ask[d] = "no" BY IdleType
    <3>2. \A d \in Devs : ask(t)[d] = task[t].ask[d] BY <3>1
    <3>3. task[t].ask \in [Devs -> AskSt] BY <2>1 DEF TaskSt
    <3> QED BY <2>2, <3>2, <3>3
  <2> DEFINE k == ask(t)
             Q == [task[t] EXCEPT !.ask = k]
  <2> HIDE DEF ask, k
  <2>5. /\ Q \in TaskSt /\ Q.op = task[t].op /\ Q.a = task[t].a /\ Q.dev = task[t].dev
        /\ Q.tok = task[t].tok /\ Q.ask = k
    BY <2>1, <2>2 DEF TaskSt, k
  <2>6. task[t].op = "none" => Q = Idle
    <3> SUFFICES ASSUME task[t].op = "none" PROVE Q = Idle OBVIOUS
    <3>1. task[t] = Idle /\ k = task[t].ask BY <2>1, <2>4 DEF Formed, k
    <3>2. Q = task[t] BY <2>1, <3>1 DEF TaskSt
    <3> QED BY <3>1, <3>2
  <2>7. \A d \in Devs : Q.ask[d] \in {"sent", "up", "ok"} => Q.tok[d] # None
    BY <2>1, <2>3, <2>5 DEF Formed, k
  <2> HIDE DEF Q
  <2>8. Formed(Q) BY <2>1, <2>5, <2>6, <2>7 DEF Formed
  <2> QED BY <2>5, <2>8 DEF Q, k
<1> HIDE DEF R
<1>4. task' \in [Tasks -> TaskSt] /\ TasksFormed' BY <1>2, <1>3 DEF TasksFormed
<1>5. \A u \in Tasks : task'[u].op = "none" => task'[u] = Idle BY <1>4 DEF TasksFormed, Formed
<1>6. faults' \in 0..MaxFaults BY <1>1, SpendType DEF BInv
<1> QED BY <1>1, <1>4, <1>5, <1>6 DEF BInv, TypeOK, server

LEMMA RebuildType == ASSUME BInv, NEW t \in Tasks, Rebuild(t) PROVE BInv'
<1> DEFINE R == [Idle EXCEPT !.op = "rebuild", !.at = "next", !.a = active]
<1>1. /\ rebuild' = FALSE
      /\ UNCHANGED <<server, child, handle, playing, byPlay, seen, round, faults>>
  BY DEF Rebuild
<1>2. CASE active = None
  <2>1. UNCHANGED task BY <1>2 DEF Rebuild
  <2> QED BY <1>1, <2>1, SameTasks DEF BInv, TypeOK, server, child
<1>3. CASE active # None
  <2>1. Begin(t, R) BY <1>3 DEF Rebuild
  <2>2. active \in Arrays BY <1>3 DEF BInv, TypeOK
  <2>3. R \in TaskSt /\ R.op = "rebuild" /\ R.a = active /\ R.ask = Idle.ask
    BY <2>2, IdleType DEF TaskSt
  <2> HIDE DEF R
  <2>4. Formed(R) BY <2>2, <2>3, IdleType DEF Formed
  <2>5. task' \in [Tasks -> TaskSt] /\ TasksFormed' BY <2>1, <2>3, <2>4, BeginType
  <2>6. \A u \in Tasks : task'[u].op = "none" => task'[u] = Idle BY <2>5 DEF TasksFormed, Formed
  <2> QED BY <1>1, <2>5, <2>6 DEF BInv, TypeOK, server, child
<1> QED BY <1>2, <1>3

LEMMA RebuildNextType == ASSUME BInv, NEW t \in Tasks, RebuildNext(t) PROVE BInv'
<1> DEFINE i == task[t].i + 1
           r == arr[task[t].a]
           s == r[i]
<1>1. task[t].op = "rebuild" /\ UNCHANGED active /\ UNCHANGED <<owner, late, handle, aside, faults>>
  BY DEF RebuildNext
<1>2. /\ task[t] \in TaskSt /\ Formed(task[t]) /\ task \in [Tasks -> TaskSt]
      /\ task[t].a \in Arrays /\ i \in Nat \ {0}
  BY <1>1 DEF BInv, TypeOK, TasksFormed, Formed, TaskSt
<1>3. CASE i > Len(r)
  <2>1. End(t) /\ Keep(arr) /\ UNCHANGED <<session, broken>> BY <1>3 DEF RebuildNext
  <2>2. task' \in [Tasks -> TaskSt] /\ TasksFormed' BY <2>1, EndType
  <2>3. \A u \in Tasks : task'[u].op = "none" => task'[u] = Idle BY <2>2 DEF TasksFormed, Formed
  <2>4. arr' \in [Arrays -> Seq(Bridges)] BY <2>1, KeepType DEF BInv, TypeOK
  <2> QED BY <1>1, <2>1, <2>2, <2>3, <2>4 DEF BInv, TypeOK, aside
<1>4. CASE ~(i > Len(r))
  <2> DEFINE S == {s}
             R == [task[t] EXCEPT !.at = "prepare", !.i = i, !.tok[s[1]] = s[2], !.ask = Asked(S)]
  <2>1. ChildPrepares(S) /\ Begin(t, R) /\ UNCHANGED arr
    BY <1>4 DEF RebuildNext
  <2>2. r \in Seq(Bridges) BY <1>2, RouteType DEF BInv
  <2>3. i \in 1..Len(r) BY <1>2, <1>4, <2>2, LenProperties
  <2>4. s \in Bridges BY <2>2, <2>3, LenProperties
  <2> HIDE DEF s, i
  <2>5. S \in SUBSET Bridges /\ DevsOf(S) = {s[1]} BY <2>4 DEF DevsOf
  <2> DEFINE ask == Asked(S)
             tok == [task[t].tok EXCEPT ![s[1]] = s[2]]
  <2>6. s[1] \in Devs /\ s[2] \in Tokens BY <2>4 DEF Bridges
  <2>7. ask \in [Devs -> AskSt] /\ \A e \in Devs : ask[e] # "no" => e = s[1]
    BY <2>5, AskedType
  <2>8. tok \in [Devs -> Tokens \cup {None}] /\ tok[s[1]] # None
    BY <1>2, <2>6, BridgeAssumption DEF TaskSt
  <2> HIDE DEF ask, S
  <2>9. R = [task[t] EXCEPT !.at = "prepare", !.i = i, !.tok = tok, !.ask = ask]
    BY <1>2 DEF TaskSt, ask
  <2> HIDE DEF R, tok
  <2>10. /\ R \in TaskSt /\ R.op = "rebuild" /\ R.a = task[t].a /\ R.tok = tok /\ R.ask = ask
    BY <1>1, <1>2, <2>7, <2>8, <2>9 DEF TaskSt
  <2>11. Formed(R) BY <1>2, <2>7, <2>8, <2>10 DEF Formed
  <2>12. task' \in [Tasks -> TaskSt] /\ TasksFormed' BY <2>1, <2>10, <2>11, BeginType
  <2>13. \A u \in Tasks : task'[u].op = "none" => task'[u] = Idle BY <2>12 DEF TasksFormed, Formed
  <2>14. session' \subseteq session /\ broken' \subseteq session' BY <2>1, PreparesType DEF BInv
  <2> QED BY <1>1, <2>1, <2>12, <2>13, <2>14 DEF BInv, TypeOK, aside
<1> QED BY <1>3, <1>4

-----------------------------------------------------------------------------
(* The reconciler keeps the types.                                         *)

LEMMA RoundStartsType == ASSUME BInv, RoundStarts PROVE BInv'
<1> DEFINE R(t) == IF task[t] = Idle THEN Idle ELSE [task[t] EXCEPT !.old = TRUE]
<1>1. /\ task' = [t \in Tasks |-> R(t)]
      /\ round' = [NoRound EXCEPT !.at = "handles", !.bridges = Routed]
      /\ UNCHANGED <<server, child, handle, rebuild, playing, byPlay, seen, faults>>
  BY DEF RoundStarts
<1>2. ASSUME NEW t \in Tasks PROVE R(t) \in TaskSt /\ Formed(R(t))
  <2>1. CASE task[t] = Idle BY <2>1, IdleType
  <2>2. CASE task[t] # Idle
    <3> DEFINE Q == [task[t] EXCEPT !.old = TRUE]
    <3>1. task[t] \in TaskSt /\ Formed(task[t]) BY DEF BInv, TypeOK, TasksFormed
    <3>2. /\ Q \in TaskSt /\ Q.op = task[t].op /\ Q.a = task[t].a /\ Q.dev = task[t].dev
          /\ Q.tok = task[t].tok /\ Q.ask = task[t].ask
      BY <3>1 DEF TaskSt
    <3> HIDE DEF Q
    <3>3. Formed(Q) BY <2>2, <3>1, <3>2 DEF Formed
    <3> QED BY <2>2, <3>2, <3>3 DEF Q
  <2> QED BY <2>1, <2>2
<1> HIDE DEF R
<1>3. task' \in [Tasks -> TaskSt] /\ TasksFormed' BY <1>1, <1>2 DEF TasksFormed
<1>4. \A u \in Tasks : task'[u].op = "none" => task'[u] = Idle BY <1>3 DEF TasksFormed, Formed
<1>5. round' \in RoundSt
  <2>1. Routed \in SUBSET Bridges BY RouteType DEF BInv
  <2> QED BY <1>1, <2>1 DEF RoundSt, NoRound
<1> QED BY <1>1, <1>3, <1>4, <1>5 DEF BInv, TypeOK, server, child

LEMMA SeesHandlesType == ASSUME BInv, SeesHandles PROVE BInv'
<1> DEFINE found == {d \in Devs : handle[d] # None /\ d \notin DevsOf(round.bridges)}
<1>1. /\ round' = [round EXCEPT !.at = "sessions", !.handles = Reaps(found, seen.handles)]
      /\ seen' = [seen EXCEPT !.handles = found \ Reaps(found, @)]
      /\ UNCHANGED <<server, child, handle, rebuild, playing, byPlay, task, faults>>
  BY DEF SeesHandles
<1>2. found \in SUBSET Devs OBVIOUS
<1> HIDE DEF found
<1>3. round' \in RoundSt BY <1>1, <1>2 DEF BInv, TypeOK, RoundSt, Reaps
<1>4. seen' \in [handles : SUBSET Devs, sessions : SUBSET Bridges] BY <1>1, <1>2 DEF BInv, TypeOK
<1> QED BY <1>1, <1>3, <1>4, SameTasks DEF BInv, TypeOK, server, child

LEMMA ReapsHandleType == ASSUME BInv, NEW d \in Devs, ReapsHandle(d) PROVE BInv'
<1>1. /\ handle' = [handle EXCEPT ![d] = None] /\ round' = [round EXCEPT !.handles = @ \ {d}]
      /\ UNCHANGED <<server, child, rebuild, playing, byPlay, seen, task, faults>>
  BY DEF ReapsHandle
<1>2. round' \in RoundSt BY <1>1 DEF BInv, TypeOK, RoundSt
<1>3. handle' \in [Devs -> Tokens \cup {None}] BY <1>1 DEF BInv, TypeOK
<1> QED BY <1>1, <1>2, <1>3, SameTasks DEF BInv, TypeOK, server, child

LEMMA NoRoundType == NoRound \in RoundSt
BY DEF NoRound, RoundSt

LEMMA SeesSessionsType == ASSUME BInv, SeesSessions PROVE BInv'
<1> DEFINE found == session \ round.bridges
           reap == Reaps(found, seen.sessions)
<1>1. /\ round' = IF reap = {} THEN NoRound ELSE [NoRound EXCEPT !.at = "reap", !.sessions = reap]
      /\ seen' = [seen EXCEPT !.sessions = found \ reap]
      /\ UNCHANGED <<server, child, handle, rebuild, playing, byPlay, task, faults>>
  BY DEF SeesSessions
<1>2. found \in SUBSET Bridges /\ reap \in SUBSET Bridges BY DEF BInv, TypeOK, Reaps
<1> HIDE DEF found, reap
<1>3. [NoRound EXCEPT !.at = "reap", !.sessions = reap] \in RoundSt BY <1>2 DEF NoRound, RoundSt
<1>4. round' \in RoundSt BY <1>1, <1>3, NoRoundType
<1>5. seen' \in [handles : SUBSET Devs, sessions : SUBSET Bridges] BY <1>1, <1>2 DEF BInv, TypeOK
<1> QED BY <1>1, <1>4, <1>5, SameTasks DEF BInv, TypeOK, server, child

LEMMA ReapsSessionType == ASSUME BInv, NEW s \in Bridges, ReapsSession(s) PROVE BInv'
<1>1. /\ StopDevice({s})
      /\ round' = IF round.sessions = {s} THEN NoRound ELSE [round EXCEPT !.sessions = @ \ {s}]
      /\ UNCHANGED <<arr, active, late, handle, rebuild, playing, byPlay, seen, task, faults>>
  BY DEF ReapsSession
<1>2. [round EXCEPT !.sessions = @ \ {s}] \in RoundSt BY DEF BInv, TypeOK, RoundSt
<1>3. round' \in RoundSt BY <1>1, <1>2, NoRoundType
<1>4. /\ owner' \in [Devs -> Tokens \cup {None}]
      /\ session' \subseteq session /\ broken' \subseteq session'
  BY <1>1, StopType DEF BInv
<1> QED BY <1>1, <1>3, <1>4, SameTasks DEF BInv, TypeOK

-----------------------------------------------------------------------------
(* The theorems.                                                           *)

LEMMA BInvInit == Init => BInv
<1> SUFFICES ASSUME Init PROVE BInv OBVIOUS
<1>1. \A t \in Tasks : task[t] = Idle BY DEF Init
<1>2. task \in [Tasks -> TaskSt] BY IdleType DEF Init
<1>3. TasksFormed BY <1>1, IdleType DEF TasksFormed
<1>4. arr \in [Arrays -> Seq(Bridges)]
  <2>1. <<>> \in Seq(Bridges) BY EmptySeq
  <2> QED BY <2>1 DEF Init
<1>5. faults \in 0..MaxFaults
  <2>1. MaxFaults \in Nat BY BridgeAssumption
  <2> QED BY <2>1 DEF Init
<1> QED BY <1>1, <1>2, <1>3, <1>4, <1>5, NoHandlesType, NoRoundType DEF Init, BInv, TypeOK

LEMMA BInvStep == BInv /\ [Next]_vars => BInv'
<1> SUFFICES ASSUME BInv, [Next]_vars PROVE BInv' OBVIOUS
<1>1. CASE Users
  <2>1. PICK t \in Tasks : \/ Stop(t)
                           \/ \E on \in SUBSET Devs : Play(t, on) \/ Resume(t, on)
                           \/ \E d \in Devs : Join(t, d) \/ Leave(t, d)
    BY <1>1 DEF Users
  <2> QED BY <2>1, StopsType, PlayType, ResumeType, JoinType, LeaveType
<1>2. CASE Mishaps
  BY <1>2, ChildRestartsType, LossType, LateEndsType, TooSlowType DEF Mishaps
<1>3. CASE Reconcile
  BY <1>3, RoundStartsType, SeesHandlesType, SeesSessionsType, ReapsHandleType, ReapsSessionType
  DEF Reconcile
<1>4. ASSUME NEW t \in Tasks, TaskStep(t) PROVE BInv'
  BY <1>4, PlayPreparesType, PlayCastsType, CastEndsType, ResumeSyncsType, ResumeEndsType, StopTearsType,
     JoinSyncsType, JoinEndsType, LeaveEndsType, RebuildNextType, HandshakeType, AnswerType
  DEF TaskStep
<1>5. CASE UNCHANGED vars
  BY <1>5, SameTasks DEF BInv, TypeOK, vars, server, child, aside
<1> QED BY <1>1, <1>2, <1>3, <1>4, <1>5, RebuildType DEF Next

\* Of any group, with any operations under way and any faults: what the server, the
\* AirPlay process and the pump know are bridges and tokens, a session whose link
\* is lost is a session, and an operation that has ended holds nothing.
THEOREM BridgesTypeCorrect == Spec => []TypeOK
<1>1. BInv => TypeOK BY DEF BInv
<1> QED BY <1>1, BInvInit, BInvStep, PTL DEF Spec

-----------------------------------------------------------------------------
(* A play that fails, and a stop, leave no route behind.                    *)

\* Where a route that a play registered comes from: something played last, or a play
\* has its route and waits for its casts.
Casting(u) == task[u].op = "play" /\ task[u].at = "cast"
Accounted == active # None /\ byPlay => playing \/ \E u \in Tasks : Casting(u)

\* What an operation that is not at its casts does to its own record leaves the
\* casts of the others as they are.
LEMMA CastsStay ==
  ASSUME BInv, Accounted, NEW t \in Tasks, ~Casting(t), NEW R, task' = [task EXCEPT ![t] = R],
         active' = active \/ active' = None, playing' = playing, byPlay' = byPlay
  PROVE  Accounted'
<1>1. \A u \in Tasks : u # t => task'[u] = task[u] BY DEF BInv, TypeOK
<1>2. \A u \in Tasks : Casting(u) => Casting(u)' BY <1>1 DEF Casting
<1> QED BY <1>2 DEF Accounted

LEMMA IdleNoCast == ASSUME NEW t \in Tasks, task[t] = Idle PROVE ~Casting(t)
BY IdleType DEF Casting

\* What keeps the names and the places of the operations keeps their casts.
LEMMA PlacesStay ==
  ASSUME Accounted, UNCHANGED <<active, playing, byPlay>>,
         \A u \in Tasks : task'[u].op = task[u].op /\ task'[u].at = task[u].at
  PROVE  Accounted'
BY DEF Accounted, Casting

LEMMA AskKeepsPlaces ==
  ASSUME BInv, NEW t \in Tasks, NEW d, NEW x, task' = [task EXCEPT ![t].ask[d] = x]
  PROVE  \A u \in Tasks : task'[u].op = task[u].op /\ task'[u].at = task[u].at
BY DEF BInv, TypeOK, TaskSt

LEMMA UserAccounted ==
  ASSUME BInv, Accounted, Users PROVE Accounted'
<1>1. PICK t \in Tasks : \/ Stop(t)
                         \/ \E on \in SUBSET Devs : Play(t, on) \/ Resume(t, on)
                         \/ \E d \in Devs : Join(t, d) \/ Leave(t, d)
  BY DEF Users
<1>2. ASSUME task[t] = Idle, NEW R, Begin(t, R), UNCHANGED <<active, playing, byPlay>> PROVE Accounted'
  BY <1>2, IdleNoCast, CastsStay DEF Begin
<1>3. CASE Stop(t) BY <1>2, <1>3 DEF Stop, server, aside
<1>4. ASSUME NEW on \in SUBSET Devs, Play(t, on) PROVE Accounted' BY <1>2, <1>4 DEF Play, aside
<1>5. ASSUME NEW on \in SUBSET Devs, Resume(t, on) PROVE Accounted'
  BY <1>2, <1>5 DEF Resume, server, aside
<1>6. ASSUME NEW d \in Devs, Join(t, d) PROVE Accounted'
  <2>1. CASE active = None
    <3>1. byPlay' = FALSE BY <1>6, <2>1 DEF Join
    <3> QED BY <3>1 DEF Accounted
  <2>2. CASE active # None
    <3>1. task[t] = Idle /\ active' = active /\ playing' = playing BY <1>6, <2>2 DEF Join
    <3>2. byPlay' = byPlay BY <1>6, <2>2 DEF Join, BInv, TypeOK
    <3>3. \E R : task' = [task EXCEPT ![t] = R] BY <1>6 DEF Join, Begin
    <3> QED BY <3>1, <3>2, <3>3, IdleNoCast, CastsStay
  <2> QED BY <2>1, <2>2
<1>7. ASSUME NEW d \in Devs, Leave(t, d) PROVE Accounted'
  BY <1>2, <1>7 DEF Leave, aside
<1> QED BY <1>1, <1>3, <1>4, <1>5, <1>6, <1>7

LEMMA TaskAccounted ==
  ASSUME BInv, Accounted, NEW t \in Tasks, TaskStep(t) PROVE Accounted'
<1>1. CASE PlayPrepares(t)
  <2>1. UNCHANGED <<active, playing, byPlay>> BY <1>1 DEF PlayPrepares, server, aside
  <2>2. \E tok, ask : task' = [task EXCEPT ![t].at = "prepare", ![t].tok = tok, ![t].ask = ask]
    BY <1>1 DEF PlayPrepares
  <2>3. \E R : task' = [task EXCEPT ![t] = R] BY <2>2 DEF BInv, TypeOK
  <2>4. ~Casting(t) BY <1>1 DEF PlayPrepares, Casting
  <2> QED BY <2>1, <2>3, <2>4, CastsStay
<1>2. CASE PlayCasts(t)
  <2>1. task[t].op = "play" /\ task[t].at = "prepare" /\ UNCHANGED playing
    BY <1>2 DEF PlayCasts, aside
  <2>2. PICK a : task' = [task EXCEPT ![t].at = "cast", ![t].a = a] BY <1>2 DEF PlayCasts
  <2>3. Casting(t)' BY <2>1, <2>2 DEF BInv, TypeOK, TaskSt, Casting
  <2> QED BY <2>3 DEF Accounted
<1>3. CASE CastEnds(t)
  <2>1. playing' = TRUE \/ active' = None BY <1>3 DEF CastEnds, Teardown
  <2> QED BY <2>1 DEF Accounted
<1>4. CASE ResumeSyncs(t)
  <2>1. byPlay' = FALSE \/ UNCHANGED <<active, byPlay>> BY <1>4 DEF ResumeSyncs
  <2>2. CASE byPlay' = FALSE BY <2>2 DEF Accounted
  <2>3. CASE UNCHANGED <<active, byPlay>>
    <3>1. ~Casting(t) /\ UNCHANGED playing /\ \E R : task' = [task EXCEPT ![t] = R]
      BY <1>4 DEF ResumeSyncs, Casting
    <3> QED BY <2>3, <3>1, CastsStay
  <2> QED BY <2>1, <2>2, <2>3
<1>5. CASE StopTears(t)
  <2>1. active' = None \/ UNCHANGED <<active, playing, byPlay>> BY <1>5 DEF StopTears, Teardown
  <2>2. ~Casting(t) /\ End(t) BY <1>5 DEF StopTears, Casting
  <2>3. CASE active' = None BY <2>3 DEF Accounted
  <2>4. CASE UNCHANGED <<active, playing, byPlay>> BY <2>2, <2>4, CastsStay DEF End
  <2> QED BY <2>1, <2>3, <2>4
<1>6. CASE JoinSyncs(t)
  <2>1. ~Casting(t) /\ UNCHANGED <<active, playing, byPlay>> BY <1>6 DEF JoinSyncs, Casting, aside
  <2>2. \/ End(t)
        \/ \E res, d : task' = [task EXCEPT ![t].at = "sync", ![t].res = res, ![t].ask[d] = "ok"]
    BY <1>6 DEF JoinSyncs
  <2>3. \E R : task' = [task EXCEPT ![t] = R]
    <3>1. CASE End(t) BY <3>1 DEF End
    <3>2. ASSUME NEW res, NEW d, task' = [task EXCEPT ![t].at = "sync", ![t].res = res, ![t].ask[d] = "ok"]
          PROVE  \E R : task' = [task EXCEPT ![t] = R]
      <4> DEFINE R == [task[t] EXCEPT !.at = "sync", !.res = res, !.ask[d] = "ok"]
      <4>1. task[t] \in TaskSt /\ task \in [Tasks -> TaskSt] BY DEF BInv, TypeOK
      <4>2. task' = [task EXCEPT ![t] = R] BY <3>2, <4>1 DEF TaskSt
      <4> HIDE DEF R
      <4> QED BY <4>2
    <3> QED BY <2>2, <3>1, <3>2
  <2> QED BY <2>1, <2>3, CastsStay
<1>7. CASE JoinEnds(t)
  <2>1. ~Casting(t) /\ UNCHANGED <<active, playing, byPlay>> /\ End(t) BY <1>7 DEF JoinEnds, Casting, aside
  <2> QED BY <2>1, CastsStay DEF End
<1>8. CASE LeaveEnds(t)
  <2>1. ~Casting(t) /\ UNCHANGED <<active, playing, byPlay>> /\ End(t) BY <1>8 DEF LeaveEnds, Casting, aside
  <2> QED BY <2>1, CastsStay DEF End
<1>9. CASE RebuildNext(t)
  <2>1. ~Casting(t) /\ UNCHANGED <<active, playing, byPlay>> BY <1>9 DEF RebuildNext, Casting, aside
  <2>2. End(t) \/ \E R : Begin(t, R) BY <1>9 DEF RebuildNext
  <2>3. \E R : task' = [task EXCEPT ![t] = R] BY <2>2 DEF End, Begin
  <2> QED BY <2>1, <2>3, CastsStay
<1>10. ASSUME NEW d \in Devs, Handshake(t, d) PROVE Accounted'
  <2>1. UNCHANGED <<active, playing, byPlay>> BY <1>10 DEF Handshake, server, aside
  <2>2. \E x : task' = [task EXCEPT ![t].ask[d] = x] BY <1>10 DEF Handshake
  <2> QED BY <2>1, <2>2, AskKeepsPlaces, PlacesStay
<1>11. ASSUME NEW d \in Devs, Answer(t, d) PROVE Accounted'
  <2>1. UNCHANGED <<active, playing, byPlay>> BY <1>11 DEF Answer, aside
  <2>2. \E x : task' = [task EXCEPT ![t].ask[d] = x] BY <1>11 DEF Answer
  <2> QED BY <2>1, <2>2, AskKeepsPlaces, PlacesStay
<1>12. CASE ResumeEnds(t)
  <2>1. End(t) /\ playing' \in {playing, TRUE} /\ UNCHANGED <<active, byPlay>>
    BY <1>12 DEF ResumeEnds, server
  <2>2. ~Casting(t) BY <1>12 DEF ResumeEnds, Casting
  <2>3. CASE playing' = TRUE BY <2>3 DEF Accounted
  <2>4. CASE playing' = playing BY <2>1, <2>2, <2>4, CastsStay DEF End
  <2> QED BY <2>1, <2>3, <2>4
<1> QED BY <1>1, <1>2, <1>3, <1>4, <1>5, <1>6, <1>7, <1>8, <1>9, <1>10, <1>11, <1>12
        DEF TaskStep

LEMMA OtherAccounted ==
  ASSUME BInv, Accounted,
         Mishaps \/ Reconcile \/ (\E t \in Tasks : Rebuild(t)) \/ UNCHANGED vars
  PROVE  Accounted'
<1>1. CASE ChildRestarts
  <2>1. UNCHANGED <<active, playing, byPlay>> BY <1>1 DEF ChildRestarts, server
  <2>2. \E f : task' = [t \in Tasks |-> [task[t] EXCEPT !.ask = f[t]]]
    <3> DEFINE f == [t \in Tasks |-> [d \in Devs |-> IF task[t].ask[d] \in {"sent", "up"} THEN "down"
                                                    ELSE task[t].ask[d]]]
    <3>1. \A t \in Tasks : task[t] \in TaskSt BY DEF BInv, TypeOK
    <3>2. task' = [t \in Tasks |-> [task[t] EXCEPT !.ask = f[t]]]
      BY <1>1, <3>1 DEF ChildRestarts, TaskSt
    <3> HIDE DEF f
    <3> QED BY <3>2
  <2>3. \A u \in Tasks : task'[u].op = task[u].op /\ task'[u].at = task[u].at
    BY <2>2 DEF BInv, TypeOK, TaskSt
  <2> QED BY <2>1, <2>3, PlacesStay
<1>2. ASSUME NEW s \in Bridges, Loss(s) \/ LateEnds(s) PROVE Accounted'
  BY <1>2, PlacesStay DEF Loss, LateEnds, server, aside
<1>3. ASSUME NEW t \in Tasks, NEW d \in Devs, TooSlow(t, d) PROVE Accounted'
  <2>1. UNCHANGED <<active, playing, byPlay>> BY <1>3 DEF TooSlow, aside
  <2>2. \E x : task' = [task EXCEPT ![t].ask[d] = x] BY <1>3 DEF TooSlow
  <2> QED BY <2>1, <2>2, AskKeepsPlaces, PlacesStay
<1>4. CASE RoundStarts
  <2>1. UNCHANGED <<active, playing, byPlay>> BY <1>4 DEF RoundStarts, server
  <2>2. \A t \in Tasks : task[t] \in TaskSt BY DEF BInv, TypeOK
  <2>3. \A u \in Tasks : task'[u].op = task[u].op /\ task'[u].at = task[u].at
    BY <1>4, <2>2 DEF RoundStarts, TaskSt
  <2> QED BY <2>1, <2>3, PlacesStay
<1>5. CASE SeesHandles \/ SeesSessions BY <1>5, PlacesStay DEF SeesHandles, SeesSessions, server
<1>6. ASSUME NEW d \in Devs, ReapsHandle(d) PROVE Accounted'
  BY <1>6, PlacesStay DEF ReapsHandle, server
<1>7. ASSUME NEW s \in Bridges, ReapsSession(s) PROVE Accounted'
  BY <1>7, PlacesStay DEF ReapsSession
<1>8. ASSUME NEW t \in Tasks, Rebuild(t) PROVE Accounted'
  <2>1. task[t] = Idle /\ UNCHANGED <<active, playing, byPlay>> BY <1>8 DEF Rebuild, server
  <2>2. CASE UNCHANGED task BY <2>1, <2>2, PlacesStay
  <2>3. ASSUME NEW R, Begin(t, R) PROVE Accounted' BY <2>1, <2>3, IdleNoCast, CastsStay DEF Begin
  <2> QED BY <1>8, <2>2, <2>3 DEF Rebuild
<1>9. CASE UNCHANGED vars BY <1>9, PlacesStay DEF vars, server, aside
<1>10. CASE Mishaps BY <1>1, <1>2, <1>3, <1>10 DEF Mishaps
<1>11. CASE Reconcile BY <1>4, <1>5, <1>6, <1>7, <1>11 DEF Reconcile
<1> QED BY <1>8, <1>9, <1>10, <1>11

LEMMA AccountedStep == BInv /\ Accounted /\ [Next]_vars => Accounted'
BY UserAccounted, TaskAccounted, OtherAccounted DEF Next

LEMMA AccountedSilent == Accounted => PlaysLeaveNoRoute
<1> SUFFICES ASSUME Accounted, ~playing, byPlay, \A t \in Tasks : task[t] = Idle
             PROVE  Routed = {}
  BY DEF PlaysLeaveNoRoute
<1>1. active = None BY IdleNoCast DEF Accounted
<1>2. Route = <<>> BY <1>1 DEF Route
<1> QED BY <1>2 DEF Routed, ToSet

LEMMA AccountedInit == Init => Accounted
BY DEF Init, Accounted

\* However many operations, faults and rounds of the reconciler interleave, resumes and
\* joins that register a group among them: once nothing is under way, a play that ended
\* without a cast and a stop that was answered have left no route of a play behind.
THEOREM PlaysClearTheirRoutes == Spec => []PlaysLeaveNoRoute
<1> DEFINE I == BInv /\ Accounted
<1>1. Init => I BY BInvInit, AccountedInit
<1>2. I /\ [Next]_vars => I' BY BInvStep, AccountedStep
<1>3. I => PlaysLeaveNoRoute BY AccountedSilent
<1> QED BY <1>1, <1>2, <1>3, PTL DEF Spec

-----------------------------------------------------------------------------
(* The reconciler and one operation at a time.                             *)

\* The bridges an operation holds: those it is about to enter in the route, or has
\* entered, and those a play takes over from the song before.
Holds(R, d) == R.tok[d] # None /\ (R.at = "stopping" \/ R.ask[d] \in {"sent", "up", "ok"})
HeldBy(R) == {<<d, R.tok[d]>> : d \in {e \in Devs : Holds(R, e)}}

\* What the reconciler may go on to reap.
Suspects == IF round.at \in {"handles", "sessions"} THEN seen.sessions \ round.bridges ELSE {}

\* The operation R and the reconciler: what began before the round has ended or is
\* marked; what began after it holds nothing the round has seen outside the route.
Known(R) ==
  /\ R.op \in {"join", "rebuild"} => R.a = active
  /\ R.op \in {"leave", "resume"} => R.a = None
  /\ round.at # "idle" => R = Idle \/ R.old
  /\ round.at = "idle" /\ ~R.old => HeldBy(R) \cap seen.sessions \subseteq Routed
  /\ HeldBy(R) \cap (Suspects \cup round.sessions) = {}

NoLeftovers == \A a \in FreeArrays : arr[a] = <<>>

RInv ==
  /\ \A t \in Tasks : Known(task[t])
  /\ Routed \cap (Suspects \cup round.sessions) = {}
  /\ NoLeftovers

OneAtATime == \A t, u \in Tasks : t = u

LEMMA HeldSame ==
  ASSUME NEW R, NEW Q, R.tok = Q.tok, R.ask = Q.ask, R.at = Q.at PROVE HeldBy(R) = HeldBy(Q)
BY DEF HeldBy, Holds

LEMMA HeldIn ==
  ASSUME NEW R, NEW G, \A d \in Devs : Holds(R, d) => <<d, R.tok[d]>> \in G
  PROVE  HeldBy(R) \subseteq G
BY DEF HeldBy

LEMMA HeldNothing ==
  ASSUME NEW R, R.at # "stopping", \A d \in Devs : R.ask[d] \notin {"sent", "up", "ok"}
  PROVE  HeldBy(R) = {}
BY DEF HeldBy, Holds

LEMMA IdleHeld == HeldBy(Idle) = {}
BY IdleType, HeldNothing

\* A token from the route is one of its bridges.
LEMMA TokenInRoute ==
  ASSUME NEW r \in Seq(Bridges), NEW d, TokenIn(r, d) # None
  PROVE  <<d, TokenIn(r, d)>> \in ToSet(r)
<1> DEFINE i0 == CHOOSE i \in DOMAIN r : r[i][1] = d /\ \A j \in 1..(i - 1) : r[j][1] # d
<1>1. d \in DevsOf(ToSet(r)) BY DEF TokenIn
<1>2. TokenIn(r, d) = r[i0][2] BY <1>1 DEF TokenIn
<1>3. i0 \in DOMAIN r /\ r[i0] \in Bridges /\ r[i0][1] = d BY <1>1, FirstOf
<1> HIDE DEF i0
<1>4. r[i0] = <<d, r[i0][2]>> BY <1>3 DEF Bridges
<1> QED BY <1>2, <1>3, <1>4 DEF ToSet

\* What Begin makes of a task.
LEMMA Begins ==
  ASSUME BInv, NEW t \in Tasks, NEW R \in TaskSt, Begin(t, R)
  PROVE  /\ task'[t].op = R.op /\ task'[t].at = R.at /\ task'[t].a = R.a
         /\ task'[t].tok = R.tok /\ task'[t].ask = R.ask
         /\ task'[t].old = (round.at # "idle") /\ HeldBy(task'[t]) = HeldBy(R)
<1> DEFINE b == round.at # "idle"
<1>1. task'[t] = [R EXCEPT !.old = b] BY DEF Begin, BInv, TypeOK
<1> HIDE DEF b
<1>2. /\ task'[t].op = R.op /\ task'[t].at = R.at /\ task'[t].a = R.a
      /\ task'[t].tok = R.tok /\ task'[t].ask = R.ask /\ task'[t].old = b
  BY <1>1 DEF TaskSt
<1> QED BY <1>2, HeldSame DEF b

LEMMA Ends == ASSUME BInv, NEW t \in Tasks, End(t) PROVE task'[t] = Idle
BY DEF End, BInv, TypeOK

\* Arrays that nobody holds stay empty.
LEMMA KeepsClean == ASSUME NEW r, Keep(r) PROVE NoLeftovers'
BY DEF Keep, NoLeftovers, FreeArrays

LEMMA StaysClean ==
  ASSUME OneAtATime, NoLeftovers, NEW t \in Tasks,
         task'[t].a = task[t].a \/ task[t].a = None, active' = active \/ active = None,
         \A a \in Arrays : arr'[a] = arr[a] \/ a = active' \/ a = task'[t].a
  PROVE  NoLeftovers'
<1> SUFFICES ASSUME NEW a \in FreeArrays' PROVE arr'[a] = <<>> BY DEF NoLeftovers
<1>1. a \in Arrays /\ a # active' /\ task'[t].a # a BY DEF FreeArrays
<1>2. a # None BY <1>1, BridgeAssumption
<1>3. a # active /\ task[t].a # a BY <1>1, <1>2
<1>4. a \in FreeArrays BY <1>1, <1>3 DEF FreeArrays, OneAtATime
<1> QED BY <1>1, <1>4 DEF NoLeftovers

\* A step of an operation leaves the reconciler alone, and takes nothing into the
\* route or into its hands but what is there already and what is fresh.
LEMMA OperationKeeps ==
  ASSUME OneAtATime, RInv, NEW t \in Tasks, UNCHANGED <<seen, round>>, NoLeftovers',
         NEW F, F \cap (seen.sessions \cup round.sessions) = {},
         Routed' \subseteq Routed \cup HeldBy(task[t]),
         HeldBy(task'[t]) \subseteq Routed \cup HeldBy(task[t]) \cup F,
         task'[t].op \in {"join", "rebuild"} => task'[t].a = active',
         task'[t].op \in {"leave", "resume"} => task'[t].a = None,
         round.at # "idle" => task'[t] = Idle \/ task'[t].old,
         round.at = "idle" /\ ~task'[t].old => HeldBy(task'[t]) \cap seen.sessions \subseteq Routed'
  PROVE  RInv'
<1> DEFINE X == Suspects \cup round.sessions
<1>1. X' = X /\ X \subseteq seen.sessions \cup round.sessions BY DEF Suspects
<1>2. Routed \cap X = {} /\ HeldBy(task[t]) \cap X = {} BY DEF RInv, Known
<1> HIDE DEF X
<1>3. Routed' \cap X' = {} BY <1>1, <1>2
<1>4. HeldBy(task'[t]) \cap X' = {} BY <1>1, <1>2
<1>5. Known(task[t])' BY <1>4 DEF Known, X
<1>6. \A u \in Tasks : Known(task[u])' BY <1>5 DEF OneAtATime
<1> QED BY <1>3, <1>6 DEF RInv, X

\* An operation that ends, or that holds nothing, while the route only shrinks.
LEMMA RouteShrinks ==
  ASSUME OneAtATime, RInv, NEW t \in Tasks, UNCHANGED <<seen, round>>, NoLeftovers',
         Routed' \subseteq Routed \cup HeldBy(task[t]), task'[t] = Idle
  PROVE  RInv'
<1>1. HeldBy(task'[t]) = {} BY IdleHeld
<1>2. task'[t].op = "none" BY IdleType
<1> DEFINE F == {}
<1>3. F \cap (seen.sessions \cup round.sessions) = {} OBVIOUS
<1> HIDE DEF F
<1> QED BY <1>1, <1>2, <1>3, OperationKeeps

\* What Keep leaves in the route.
LEMMA KeptRoute ==
  ASSUME NEW r, Keep(r), active' \in Arrays PROVE Route' = r[active'] /\ Routed' = ToSet(r[active'])
<1>1. active' # None BY BridgeAssumption
<1> QED BY <1>1 DEF Keep, Route, Routed

LEMMA SameRoute ==
  ASSUME BInv, Keep(arr), active' = active \/ active' = None PROVE Routed' \subseteq Routed
<1>1. CASE active' = None
  <2>1. Route' = <<>> BY <1>1 DEF Route
  <2> QED BY <2>1 DEF Routed, ToSet
<1>2. CASE active' = active /\ active # None
  <2>1. active' \in Arrays BY <1>2 DEF BInv, TypeOK
  <2> QED BY <1>2, <2>1, KeptRoute DEF Routed, Route
<1> QED BY <1>1, <1>2

LEMMA StillRoute == ASSUME UNCHANGED <<arr, active>> PROVE Route' = Route /\ Routed' = Routed
BY DEF Route, Routed

\* A fresh token is nothing the reconciler has seen.
LEMMA FreshUnseen ==
  ASSUME NEW d, NEW k \in Fresh(d)
  PROVE  <<d, k>> \notin seen.sessions \cup round.sessions
BY DEF Fresh

LEMMA PreparedHeld ==
  ASSUME BInv, NEW t \in Tasks
  PROVE  Prepared(t) \subseteq HeldBy(task[t])
BY DEF Prepared, HeldBy, Holds, BInv, TasksFormed, Formed

-----------------------------------------------------------------------------
(* Every operation knows the reconciler.                                   *)

LEMMA EndKnown ==
  ASSUME BInv, RInv, OneAtATime, NEW t \in Tasks,
         ResumeEnds(t) \/ CastEnds(t) \/ StopTears(t) \/ JoinEnds(t) \/ LeaveEnds(t)
  PROVE  RInv'
<1>1. End(t) BY DEF ResumeEnds, CastEnds, StopTears, JoinEnds, LeaveEnds
<1>2. task'[t] = Idle BY <1>1, Ends
<1>3. UNCHANGED <<seen, round>>
  BY DEF ResumeEnds, CastEnds, StopTears, JoinEnds, LeaveEnds, aside
<1>4. task[t] # Idle /\ Known(task[t]) /\ task[t] \in TaskSt
  BY IdleType DEF ResumeEnds, CastEnds, StopTears, JoinEnds, LeaveEnds, RInv, BInv, TypeOK
<1>5. Idle.a = None BY DEF Idle
<1>6. CASE CastEnds(t) \/ StopTears(t)
  <2>1. Keep(arr) /\ (active' = active \/ active' = None)
    BY <1>6 DEF CastEnds, StopTears, Teardown
  <2> QED BY <1>2, <1>3, <2>1, SameRoute, KeepsClean, RouteShrinks
<1>7. CASE LeaveEnds(t)
  <2>1. UNCHANGED <<arr, active>> /\ task[t].op = "leave" BY <1>7 DEF LeaveEnds
  <2>2. task[t].a = None BY <1>4, <2>1 DEF Known
  <2>3. NoLeftovers' BY <1>2, <1>5, <2>1, <2>2, StaysClean DEF RInv
  <2>4. Routed' \subseteq Routed \cup HeldBy(task[t]) BY <2>1, StillRoute
  <2> QED BY <1>2, <1>3, <2>3, <2>4, RouteShrinks
<1>8. CASE JoinEnds(t)
  <2> DEFINE s == <<task[t].dev, task[t].tok[task[t].dev]>>
             a == task[t].a
             w == Without(arr[a], s)
  <2>1. /\ task[t].op = "join" /\ active' = active
        /\ Keep([arr EXCEPT ![a] = w]) \/ Keep(arr)
    BY <1>8 DEF JoinEnds
  <2>2. a = active BY <1>4, <2>1 DEF Known
  <2>3. a \in Arrays BY <2>1 DEF BInv, TasksFormed, Formed
  <2>4. ToSet(w) \subseteq Routed /\ Routed = ToSet(arr[a])
    <3>1. arr[a] \in Seq(Bridges) BY <2>3, RouteType DEF BInv
    <3>2. a # None BY <2>3, BridgeAssumption
    <3>3. Route = arr[a] BY <2>2, <3>2 DEF Route
    <3> QED BY <3>1, <3>3, WithoutType DEF Routed
  <2> HIDE DEF w, a
  <2>5. CASE Keep(arr) BY <1>2, <1>3, <2>1, <2>5, SameRoute, KeepsClean, RouteShrinks
  <2>6. CASE Keep([arr EXCEPT ![a] = w])
    <3> DEFINE r == [arr EXCEPT ![a] = w]
    <3>1. r[active'] = w BY <2>1, <2>2, <2>3 DEF BInv, TypeOK
    <3> HIDE DEF r
    <3>2. active' \in Arrays /\ Keep(r) BY <2>1, <2>2, <2>3, <2>6 DEF r
    <3>3. Routed' = ToSet(w) BY <3>1, <3>2, KeptRoute
    <3>4. NoLeftovers' BY <3>2, KeepsClean
    <3>5. Routed' \subseteq Routed \cup HeldBy(task[t]) BY <2>4, <3>3
    <3> QED BY <1>2, <1>3, <3>4, <3>5, RouteShrinks
  <2> QED BY <2>1, <2>5, <2>6
<1>9. CASE ResumeEnds(t)
  <2>1. UNCHANGED <<arr, active>> /\ task[t].op = "resume" BY <1>9 DEF ResumeEnds, server
  <2>2. task[t].a = None BY <1>4, <2>1 DEF Known
  <2>3. NoLeftovers' BY <1>2, <1>5, <2>1, <2>2, StaysClean DEF RInv
  <2>4. Routed' \subseteq Routed \cup HeldBy(task[t]) BY <2>1, StillRoute
  <2> QED BY <1>2, <1>3, <2>3, <2>4, RouteShrinks
<1> QED BY <1>6, <1>7, <1>8, <1>9

\* A step that holds no bridge and leaves the route as it is.
LEMMA HoldsNothing ==
  ASSUME OneAtATime, RInv, NEW t \in Tasks, UNCHANGED <<seen, round>>, NoLeftovers',
         Routed' \subseteq Routed, HeldBy(task'[t]) = {},
         task'[t].op \in {"join", "rebuild"} => task'[t].a = active',
         task'[t].op \in {"leave", "resume"} => task'[t].a = None,
         round.at # "idle" => task'[t].old
  PROVE  RInv'
<1> DEFINE F == {}
<1>1. F \cap (seen.sessions \cup round.sessions) = {} OBVIOUS
<1> HIDE DEF F
<1> QED BY <1>1, OperationKeeps

LEMMA PlayKnown ==
  ASSUME BInv, RInv, OneAtATime, NEW t \in Tasks, NEW on \in SUBSET Devs, Play(t, on)
  PROVE  RInv'
<1> DEFINE tok == [d \in Devs |-> IF d \in on THEN TokenIn(Route, d) ELSE None]
           ask == [d \in Devs |-> IF d \in on THEN "failed" ELSE "no"]
           R == [Idle EXCEPT !.op = "play", !.at = "stopping", !.a = active, !.tok = tok, !.ask = ask]
<1>1. /\ "play" \in Ops /\ Begin(t, R) /\ task[t] = Idle
      /\ UNCHANGED <<arr, active, seen, round>>
  BY DEF Play, aside
<1>2. Route \in Seq(Bridges) BY RouteType DEF BInv
<1>3. tok \in [Devs -> Tokens \cup {None}] BY <1>2, TokenInType
<1>4. ask \in [Devs -> AskSt] /\ \A d \in Devs : ask[d] \in {"failed", "no"} BY DEF AskSt
<1>5. \A d \in Devs : tok[d] # None => <<d, tok[d]>> \in Routed
  BY <1>2, TokenInRoute DEF Routed
<1> HIDE DEF tok, ask
<1>6. R \in TaskSt /\ R.op = "play" /\ R.at = "stopping" /\ R.tok = tok
  BY <1>1, <1>3, <1>4, IdleType DEF TaskSt, BInv, TypeOK
<1> HIDE DEF R
<1>7. /\ task'[t].op = "play" /\ HeldBy(task'[t]) = HeldBy(R) /\ task'[t].old = (round.at # "idle")
  BY <1>1, <1>6, Begins
<1>8. HeldBy(R) \subseteq Routed BY <1>5, <1>6, HeldIn DEF Holds
<1>9. Routed' = Routed BY <1>1, StillRoute
<1>10. NoLeftovers'
  <2>1. Idle.a = None BY DEF Idle
  <2> QED BY <1>1, <2>1, StaysClean DEF RInv
<1> DEFINE F == {}
<1>11. F \cap (seen.sessions \cup round.sessions) = {} OBVIOUS
<1> HIDE DEF F
<1> QED BY <1>1, <1>7, <1>8, <1>9, <1>10, <1>11, OperationKeeps

LEMMA PlayPreparesKnown ==
  ASSUME BInv, RInv, OneAtATime, NEW t \in Tasks, PlayPrepares(t) PROVE RInv'
<1> DEFINE on == {d \in Devs : task[t].ask[d] # "no"}
           old == task[t].tok
           new(d) == CHOOSE k \in Fresh(d) : TRUE
           tok == [d \in Devs |-> IF d \in on /\ old[d] = None THEN new(d) ELSE old[d]]
           S == {<<d, tok[d]>> : d \in on}
           F == {<<d, new(d)>> : d \in {e \in on : old[e] = None}}
<1>1. /\ \A d \in on : old[d] # None \/ Fresh(d) # {}
      /\ task[t].op = "play" /\ task[t].at = "stopping"
      /\ task' = [task EXCEPT ![t].at = "prepare", ![t].tok = tok, ![t].ask = Asked(S)]
      /\ UNCHANGED <<arr, active, seen, round>>
  BY DEF PlayPrepares, server, aside
<1>2. task[t] \in TaskSt /\ task \in [Tasks -> TaskSt] /\ Known(task[t])
  BY DEF BInv, TypeOK, RInv
<1>3. \A d \in on : old[d] = None => new(d) \in Fresh(d) BY <1>1
<1>4. F \cap (seen.sessions \cup round.sessions) = {} BY <1>3, FreshUnseen
<1> HIDE DEF new
<1>5. S \in SUBSET Bridges
  <2>1. \A d \in on : tok[d] \in Tokens BY <1>2, <1>3, FreshType DEF TaskSt
  <2> QED BY <2>1 DEF Bridges
<1>6. DevsOf(S) = on BY DevsOfPairs
<1>7. \A d \in Devs : Asked(S)[d] # "no" => d \in on BY <1>5, <1>6, AskedType
<1> DEFINE ask == Asked(S)
<1>8. \A d \in Devs : tok[d] = IF d \in on /\ old[d] = None THEN new(d) ELSE old[d] OBVIOUS
<1> HIDE DEF ask, S, tok
<1>9. /\ task'[t].op = "play" /\ task'[t].at = "prepare" /\ task'[t].tok = tok
      /\ task'[t].ask = ask /\ task'[t].old = task[t].old /\ task'[t].a = task[t].a
  BY <1>1, <1>2 DEF TaskSt, ask
<1>10. HeldBy(task'[t]) \subseteq HeldBy(task[t]) \cup F
  <2> DEFINE G == HeldBy(task[t]) \cup F
             R == task'[t]
  <2> HIDE DEF R
  <2> SUFFICES ASSUME NEW d \in Devs, Holds(R, d) PROVE <<d, R.tok[d]>> \in G
    <3> HIDE DEF G
    <3>1. HeldBy(R) \subseteq G BY HeldIn
    <3> QED BY <3>1 DEF R, G
  <2>0. R.tok = tok /\ R.ask = ask /\ R.at = "prepare" BY <1>9 DEF R
  <2>1. d \in on BY <1>7, <2>0 DEF ask, Holds
  <2>2. CASE old[d] = None
    <3>1. tok[d] = new(d) BY <1>8, <2>1, <2>2
    <3>2. <<d, new(d)>> \in F BY <2>1, <2>2
    <3> QED BY <2>0, <3>1, <3>2
  <2>3. CASE old[d] # None
    <3>1. tok[d] = old[d] BY <1>8, <2>3
    <3>2. <<d, old[d]>> \in HeldBy(task[t]) BY <1>1, <2>3 DEF HeldBy, Holds
    <3> QED BY <2>0, <3>1, <3>2
  <2> QED BY <2>2, <2>3
<1> HIDE DEF F
<1>11. Routed' = Routed BY <1>1, StillRoute
<1>12. NoLeftovers' BY <1>1, <1>9, StaysClean DEF RInv
<1>13. round.at # "idle" => task'[t].old
  BY <1>1, <1>2, <1>9, IdleType DEF Known
<1>14. round.at = "idle" /\ ~task'[t].old => HeldBy(task'[t]) \cap seen.sessions \subseteq Routed'
  BY <1>2, <1>4, <1>9, <1>10, <1>11 DEF Known
<1> QED BY <1>1, <1>4, <1>9, <1>10, <1>11, <1>12, <1>13, <1>14, OperationKeeps

\* A resume that tells the pump to go on holds no bridge any longer.
LEMMA FanHolds ==
  ASSUME NEW R, R.at = "fan", R.ask = Idle.ask PROVE HeldBy(R) = {}
BY IdleType, HeldNothing

LEMMA ResumeKnown ==
  ASSUME BInv, RInv, OneAtATime, NEW t \in Tasks, NEW on \in SUBSET Devs, Resume(t, on)
  PROVE  RInv'
<1> DEFINE new(d) == CHOOSE k \in Fresh(d) : TRUE
           tok == [d \in Devs |-> IF d \in on THEN new(d) ELSE None]
           S == {<<d, tok[d]>> : d \in on}
           R == [Idle EXCEPT !.op = "resume", !.at = "prepare", !.tok = tok, !.ask = Asked(S)]
           H == [Idle EXCEPT !.op = "resume", !.at = "fan"]
           F == {<<d, new(d)>> : d \in on}
<1>1. /\ "resume" \in Ops /\ task[t] = Idle /\ UNCHANGED <<arr, active, seen, round>>
      /\ Begin(t, H) \/ ((\A d \in on : Fresh(d) # {}) /\ Begin(t, R))
  BY DEF Resume, server, aside
<1>2. Routed' = Routed BY <1>1, StillRoute
<1>3. NoLeftovers'
  <2>1. Idle.a = None BY DEF Idle
  <2> QED BY <1>1, <2>1, StaysClean DEF RInv
<1>4. CASE Begin(t, H)
  <2>1. FALSE \in BOOLEAN OBVIOUS
  <2>2. H = [Idle EXCEPT !.op = "resume", !.at = "fan", !.old = FALSE] BY IdleType DEF TaskSt
  <2> HIDE DEF H
  <2>3. /\ H \in TaskSt /\ H.op = "resume" /\ H.a = None /\ H.ask = Idle.ask /\ H.at = "fan"
    BY <1>1, <2>1, <2>2, FanType
  <2>4. /\ task'[t].op = "resume" /\ HeldBy(task'[t]) = HeldBy(H) /\ task'[t].a = None
        /\ task'[t].old = (round.at # "idle")
    BY <1>4, <2>3, Begins
  <2>5. HeldBy(H) = {} BY <2>3, FanHolds
  <2> QED BY <1>1, <1>2, <1>3, <2>4, <2>5, HoldsNothing
<1>5. CASE (\A d \in on : Fresh(d) # {}) /\ Begin(t, R)
  <2>1. \A d \in on : new(d) \in Fresh(d) BY <1>5
  <2>2. F \cap (seen.sessions \cup round.sessions) = {} BY <2>1, FreshUnseen
  <2> HIDE DEF new
  <2>3. tok \in [Devs -> Tokens \cup {None}] /\ \A d \in on : tok[d] \in Tokens
    BY <2>1, FreshType
  <2>4. \A d \in Devs : tok[d] # None => d \in on /\ tok[d] = new(d) OBVIOUS
  <2> HIDE DEF tok
  <2>5. S \in SUBSET Bridges BY <2>3 DEF Bridges
  <2> HIDE DEF S
  <2>6. Asked(S) \in [Devs -> AskSt] BY <2>5, AskedType
  <2>7. R \in TaskSt /\ R.op = "resume" /\ R.at = "prepare" /\ R.tok = tok /\ R.a = None
    BY <1>1, <2>3, <2>6, IdleType DEF TaskSt, Idle
  <2> HIDE DEF R
  <2>8. /\ task'[t].op = "resume" /\ HeldBy(task'[t]) = HeldBy(R) /\ task'[t].a = None
        /\ task'[t].old = (round.at # "idle")
    BY <1>5, <2>7, Begins
  <2>9. HeldBy(R) \subseteq F
    <3>1. \A d \in Devs : tok[d] # None => <<d, tok[d]>> \in F BY <2>4
    <3> HIDE DEF F
    <3> QED BY <2>7, <3>1, HeldIn DEF Holds
  <2> HIDE DEF F
  <2>10. HeldBy(task'[t]) \cap seen.sessions = {} BY <2>2, <2>8, <2>9
  <2> QED BY <1>1, <1>2, <1>3, <2>2, <2>8, <2>9, <2>10, OperationKeeps
<1> QED BY <1>1, <1>4, <1>5

LEMMA ResumeSyncsKnown ==
  ASSUME BInv, RInv, OneAtATime, NEW t \in Tasks, ResumeSyncs(t) PROVE RInv'
<1> DEFINE P == SetToSeq(Prepared(t))
           H == [Idle EXCEPT !.op = "resume", !.at = "fan", !.old = task[t].old]
<1>1. task[t].op = "resume" /\ UNCHANGED <<seen, round>> /\ task' = [task EXCEPT ![t] = H]
  BY DEF ResumeSyncs
<1>2. task[t] \in TaskSt /\ task \in [Tasks -> TaskSt] /\ Known(task[t])
  BY DEF BInv, TypeOK, RInv
<1>3. "resume" \in Ops /\ task[t].old \in BOOLEAN BY <1>1, <1>2 DEF TaskSt
<1>4. task'[t] = H BY <1>1, <1>2
<1> HIDE DEF H
<1>5. /\ H.op = "resume" /\ H.a = None /\ H.ask = Idle.ask /\ H.at = "fan" /\ H.old = task[t].old
  BY <1>3, FanType DEF H
<1>6. HeldBy(task'[t]) = {} BY <1>4, <1>5, FanHolds
<1>7. round.at # "idle" => task'[t].old BY <1>1, <1>2, <1>4, <1>5, IdleType DEF Known
<1>8. task[t].a = None /\ task'[t].op = "resume" /\ task'[t].a = None
  BY <1>1, <1>2, <1>4, <1>5 DEF Known
<1> DEFINE F == {}
<1>9. F \cap (seen.sessions \cup round.sessions) = {} OBVIOUS
<1> HIDE DEF F, P
<1>10. CASE UNCHANGED <<arr, active>>
  <2>1. NoLeftovers' BY <1>8, <1>10, StaysClean DEF RInv
  <2>2. Routed' = Routed BY <1>10, StillRoute
  <2> QED BY <1>1, <1>6, <1>7, <1>8, <2>1, <2>2, HoldsNothing
<1>11. ASSUME NEW a \in FreeArrays, active' = a, Keep([arr EXCEPT ![a] = P]) PROVE RInv'
  <2> DEFINE r == [arr EXCEPT ![a] = P]
  <2>1. a \in Arrays BY DEF FreeArrays
  <2>2. r[active'] = P BY <1>11, <2>1 DEF BInv, TypeOK
  <2> HIDE DEF r
  <2>3. Keep(r) /\ active' \in Arrays BY <1>11, <2>1 DEF r
  <2>4. Routed' = ToSet(P) BY <2>2, <2>3, KeptRoute
  <2>5. ToSet(P) = Prepared(t) BY PreparedType, SetToSeqType DEF P
  <2>6. NoLeftovers' BY <2>3, KeepsClean
  <2>7. Routed' \subseteq Routed \cup HeldBy(task[t]) BY <2>4, <2>5, PreparedHeld
  <2> QED BY <1>1, <1>6, <1>7, <1>8, <1>9, <2>6, <2>7, OperationKeeps
<1> QED BY <1>10, <1>11 DEF ResumeSyncs, P

LEMMA PlayCastsKnown ==
  ASSUME BInv, RInv, OneAtATime, NEW t \in Tasks, PlayCasts(t) PROVE RInv'
<1> DEFINE P == SetToSeq(Prepared(t))
<1>1. /\ task[t].op = "play" /\ task[t].at = "prepare" /\ Settled(t) /\ UNCHANGED <<seen, round>>
  BY DEF PlayCasts, aside
<1>2. task[t] \in TaskSt /\ task \in [Tasks -> TaskSt] /\ Known(task[t])
  BY DEF BInv, TypeOK, RInv
<1>3. ASSUME NEW a, task' = [task EXCEPT ![t].at = "cast", ![t].a = a]
      PROVE  /\ task'[t].op = "play" /\ task'[t].old = task[t].old
             /\ HeldBy(task'[t]) = Prepared(t)
  <2>1. /\ task'[t].op = "play" /\ task'[t].at = "cast" /\ task'[t].old = task[t].old
        /\ task'[t].tok = task[t].tok /\ task'[t].ask = task[t].ask
    BY <1>1, <1>2, <1>3 DEF TaskSt
  <2>2. \A d \in Devs : task[t].ask[d] \in {"sent", "up", "ok"} <=> task[t].ask[d] = "ok"
    BY <1>1 DEF Settled
  <2>3. \A d \in Devs : task[t].ask[d] = "ok" => task[t].tok[d] # None
    BY DEF BInv, TasksFormed, Formed
  <2> QED BY <2>1, <2>2, <2>3 DEF HeldBy, Holds, Prepared
<1>4. round.at # "idle" => task[t].old BY <1>1, <1>2, IdleType DEF Known
<1>5. Prepared(t) \subseteq HeldBy(task[t]) BY PreparedHeld
<1> DEFINE F == {}
<1>6. F \cap (seen.sessions \cup round.sessions) = {} OBVIOUS
<1> HIDE DEF F, P
<1>7. ASSUME NEW a \in FreeArrays, active' = a, Keep([arr EXCEPT ![a] = P]),
             task' = [task EXCEPT ![t].at = "cast", ![t].a = a]
      PROVE  RInv'
  <2> DEFINE r == [arr EXCEPT ![a] = P]
  <2>1. a \in Arrays BY DEF FreeArrays
  <2>2. r[active'] = P BY <1>7, <2>1 DEF BInv, TypeOK
  <2> HIDE DEF r
  <2>3. Keep(r) /\ active' \in Arrays BY <1>7, <2>1 DEF r
  <2>4. Routed' = ToSet(P) BY <2>2, <2>3, KeptRoute
  <2>5. ToSet(P) = Prepared(t) BY PreparedType, SetToSeqType DEF P
  <2>6. NoLeftovers' BY <2>3, KeepsClean
  <2>7. /\ task'[t].op = "play" /\ task'[t].old = task[t].old /\ HeldBy(task'[t]) = Prepared(t)
    BY <1>3, <1>7
  <2>8. Routed' \subseteq Routed \cup HeldBy(task[t]) BY <1>5, <2>4, <2>5
  <2>9. HeldBy(task'[t]) \subseteq Routed \cup HeldBy(task[t]) \cup F BY <1>5, <2>7
  <2>10. HeldBy(task'[t]) \subseteq Routed' BY <2>4, <2>5, <2>7
  <2> QED BY <1>1, <1>4, <1>6, <2>6, <2>7, <2>8, <2>9, <2>10, OperationKeeps
<1>8. ASSUME Prepared(t) = {}, task' = [task EXCEPT ![t].at = "cast", ![t].a = None],
             Keep(arr), active' = active \/ active' = None
      PROVE  RInv'
  <2>1. task'[t].op = "play" /\ task'[t].old = task[t].old /\ HeldBy(task'[t]) = {}
    BY <1>3, <1>8
  <2>2. Routed' \subseteq Routed BY <1>8, SameRoute
  <2>3. NoLeftovers' BY <1>8, KeepsClean
  <2> QED BY <1>1, <1>4, <2>1, <2>2, <2>3, HoldsNothing
<1>9. Prepared(t) = {} => active' = active \/ active' = None BY DEF PlayCasts, Teardown
<1> QED BY <1>7, <1>8, <1>9 DEF PlayCasts, P

LEMMA StopKnown ==
  ASSUME BInv, RInv, OneAtATime, NEW t \in Tasks, Stop(t) PROVE RInv'
<1>1. PICK res \in Results : Begin(t, [Idle EXCEPT !.op = "stop", !.at = "sync", !.res = res])
  BY DEF Stop
<1>2. "stop" \in Ops /\ task[t] = Idle /\ UNCHANGED <<arr, active, seen, round>>
  BY DEF Stop, server, aside
<1> DEFINE R == [Idle EXCEPT !.op = "stop", !.at = "sync", !.res = res]
<1>3. R \in TaskSt /\ R.op = "stop" /\ R.at = "sync" /\ R.ask = Idle.ask
  BY <1>2, IdleType DEF TaskSt, Results
<1> HIDE DEF R
<1>4. HeldBy(R) = {} BY <1>3, IdleType, HeldNothing
<1>5. /\ task'[t].op = "stop" /\ HeldBy(task'[t]) = {} /\ task'[t].old = (round.at # "idle")
  BY <1>1, <1>3, <1>4, Begins DEF R
<1>6. Routed' \subseteq Routed BY <1>2, StillRoute
<1>7. NoLeftovers'
  <2>1. Idle.a = None BY DEF Idle
  <2> QED BY <1>2, <2>1, StaysClean DEF RInv
<1> QED BY <1>2, <1>5, <1>6, <1>7, HoldsNothing

LEMMA JoinKnown ==
  ASSUME BInv, RInv, OneAtATime, NEW t \in Tasks, NEW d \in Devs, Join(t, d) PROVE RInv'
<1> DEFINE k == CHOOSE x \in Fresh(d) : TRUE
           S == {<<d, k>>}
<1>1. k \in Fresh(d)
  <2>1. Fresh(d) # {} BY DEF Join
  <2> QED BY <2>1
<1>2. k \in Tokens BY <1>1, FreshType
<1>3. S \cap (seen.sessions \cup round.sessions) = {} BY <1>1, FreshUnseen
<1>4. PICK a \in IF active = None THEN FreeArrays ELSE {active} :
        /\ active' = a
        /\ Begin(t, [Idle EXCEPT !.op = "join", !.at = "prepare", !.a = a, !.dev = d,
                                 !.tok[d] = k, !.ask = Asked(S)])
  BY DEF Join
<1>5. task[t] = Idle /\ UNCHANGED <<arr, seen, round>> BY DEF Join, aside
<1> HIDE DEF k
<1>6. a \in Arrays BY <1>4, BridgeAssumption DEF FreeArrays, BInv, TypeOK
<1>7. S \in SUBSET Bridges BY <1>2 DEF Bridges
<1> DEFINE ask == Asked(S)
           tok == [Idle.tok EXCEPT ![d] = k]
           R == [Idle EXCEPT !.op = "join", !.at = "prepare", !.a = a, !.dev = d,
                             !.tok[d] = k, !.ask = ask]
<1>8. ask \in [Devs -> AskSt] BY <1>7, AskedType
<1>9. /\ tok \in [Devs -> Tokens \cup {None}] /\ tok[d] = k
      /\ \A e \in Devs : tok[e] # None => e = d
  BY <1>2, IdleType DEF TaskSt
<1> HIDE DEF ask
<1>10. R = [Idle EXCEPT !.op = "join", !.at = "prepare", !.a = a, !.dev = d, !.tok = tok, !.ask = ask]
  BY IdleType DEF TaskSt
<1>11. Begin(t, R) BY <1>4 DEF ask
<1> HIDE DEF tok, R
<1>12. R \in TaskSt /\ R.op = "join" /\ R.at = "prepare" /\ R.a = a /\ R.tok = tok
  BY <1>6, <1>8, <1>9, <1>10, IdleType DEF TaskSt
<1>13. /\ task'[t].op = "join" /\ task'[t].a = a /\ HeldBy(task'[t]) = HeldBy(R)
       /\ task'[t].old = (round.at # "idle")
  BY <1>11, <1>12, Begins
<1>14. HeldBy(R) \subseteq S BY <1>9, <1>12, HeldIn DEF Holds
<1> HIDE DEF S
<1>15. Routed' \subseteq Routed
  <2>1. CASE active # None
    <3>1. UNCHANGED <<arr, active>> BY <1>4, <1>5, <2>1
    <3> QED BY <3>1, StillRoute
  <2>2. CASE active = None
    <3>1. arr[a] = <<>> BY <1>4, <2>2 DEF RInv, NoLeftovers
    <3>2. Route' = <<>> BY <1>4, <1>5, <3>1 DEF Route
    <3> QED BY <3>2 DEF Routed, ToSet
  <2> QED BY <2>1, <2>2
<1>16. NoLeftovers'
  <2>1. Idle.a = None BY DEF Idle
  <2>2. active' = active \/ active = None BY <1>4
  <2> QED BY <1>5, <2>1, <2>2, StaysClean DEF RInv
<1>17. HeldBy(task'[t]) \cap seen.sessions = {} BY <1>3, <1>13, <1>14
<1> QED BY <1>3, <1>4, <1>5, <1>13, <1>14, <1>15, <1>16, <1>17, OperationKeeps

LEMMA JoinSyncsKnown ==
  ASSUME BInv, RInv, OneAtATime, NEW t \in Tasks, JoinSyncs(t) PROVE RInv'
<1> DEFINE d == task[t].dev
           a == task[t].a
           s == <<d, task[t].tok[d]>>
           r == Append(arr[a], s)
<1>1. task[t].op = "join" /\ task[t].at = "prepare" /\ UNCHANGED <<active, seen, round>>
  BY DEF JoinSyncs, aside
<1>2. /\ task[t] \in TaskSt /\ task \in [Tasks -> TaskSt] /\ Known(task[t])
      /\ a \in Arrays /\ d \in Devs /\ (task[t].ask[d] = "up" => task[t].tok[d] # None)
  BY <1>1 DEF BInv, TypeOK, RInv, TasksFormed, Formed
<1>3. a = active BY <1>1, <1>2 DEF Known
<1>4. CASE task[t].ask[d] = "down"
  <2>1. End(t) /\ Keep(arr) BY <1>4 DEF JoinSyncs
  <2>2. Routed' \subseteq Routed BY <1>1, <2>1, SameRoute
  <2> QED BY <1>1, <2>1, <2>2, Ends, KeepsClean, RouteShrinks
<1>5. CASE task[t].ask[d] = "up"
  <2>1. /\ arr' = [arr EXCEPT ![a] = r]
        /\ \E res \in Results :
             task' = [task EXCEPT ![t].at = "sync", ![t].res = res, ![t].ask[d] = "ok"]
    BY <1>5 DEF JoinSyncs
  <2>2. s \in Bridges BY <1>2, <1>5 DEF Bridges, TaskSt
  <2>3. s \in HeldBy(task[t]) BY <1>2, <1>5 DEF HeldBy, Holds
  <2>4. /\ task'[t].op = "join" /\ task'[t].at = "sync" /\ task'[t].a = a
        /\ task'[t].tok = task[t].tok /\ task'[t].ask = [task[t].ask EXCEPT ![d] = "ok"]
        /\ task'[t].old = task[t].old
    BY <1>1, <1>2, <2>1 DEF TaskSt
  <2>5. HeldBy(task'[t]) \subseteq HeldBy(task[t])
    <3> DEFINE R == task'[t]
               Q == task[t]
    <3>1. \A e \in Devs : Holds(R, e) => Holds(Q, e) /\ R.tok[e] = Q.tok[e]
      BY <1>2, <1>5, <2>4 DEF Holds, TaskSt
    <3> HIDE DEF R, Q
    <3>2. HeldBy(R) \subseteq HeldBy(Q) BY <3>1 DEF HeldBy
    <3> QED BY <3>2 DEF R, Q
  <2>6. arr[a] \in Seq(Bridges) BY <1>2, RouteType DEF BInv
  <2> HIDE DEF s
  <2>7. ToSet(r) = ToSet(arr[a]) \cup {s} BY <2>2, <2>6, AppendType
  <2> HIDE DEF r, a
  <2>8. Routed' = Routed \cup {s}
    <3>1. a # None BY <1>2, BridgeAssumption
    <3>2. Route = arr[a] BY <1>3, <3>1 DEF Route
    <3>3. Route' = r BY <1>1, <1>2, <1>3, <2>1, <3>1 DEF Route, BInv, TypeOK
    <3> QED BY <2>7, <3>2, <3>3 DEF Routed
  <2>9. NoLeftovers'
    <3>1. \A b \in Arrays : arr'[b] = arr[b] \/ b = active'
      BY <1>1, <1>3, <2>1 DEF BInv, TypeOK
    <3>2. task'[t].a = task[t].a BY <2>4 DEF a
    <3> QED BY <1>1, <3>1, <3>2, StaysClean DEF RInv
  <2>10. round.at # "idle" => task'[t].old BY <1>1, <1>2, <2>4, IdleType DEF Known
  <2>11. round.at = "idle" /\ ~task'[t].old => HeldBy(task'[t]) \cap seen.sessions \subseteq Routed'
    BY <1>2, <2>4, <2>5, <2>8 DEF Known
  <2> DEFINE F == {}
  <2>12. F \cap (seen.sessions \cup round.sessions) = {} OBVIOUS
  <2> HIDE DEF F
  <2>13. Routed' \subseteq Routed \cup HeldBy(task[t]) BY <2>3, <2>8
  <2>14. HeldBy(task'[t]) \subseteq Routed \cup HeldBy(task[t]) \cup F BY <2>5
  <2> QED BY <1>1, <1>3, <2>4, <2>9, <2>10, <2>11, <2>12, <2>13, <2>14, OperationKeeps
<1> QED BY <1>4, <1>5 DEF JoinSyncs

LEMMA LeaveKnown ==
  ASSUME BInv, RInv, OneAtATime, NEW t \in Tasks, NEW d \in Devs, Leave(t, d) PROVE RInv'
<1> DEFINE i == CHOOSE i \in DOMAIN Route : Route[i][1] = d /\ \A j \in 1..(i - 1) : Route[j][1] # d
           r == RemoveAt(Route, i)
           k == Route[i][2]
<1>1. /\ "leave" \in Ops /\ d \in RoutedDevs /\ task[t] = Idle
      /\ arr' = [arr EXCEPT ![active] = RemoveAt(@, i)]
      /\ UNCHANGED <<active, seen, round>>
      /\ \E res \in Results :
           Begin(t, [Idle EXCEPT !.op = "leave", !.at = "sync", !.dev = d, !.tok[d] = k, !.res = res])
  BY DEF Leave, aside
<1>2. Route \in Seq(Bridges) BY RouteType DEF BInv
<1>3. i \in DOMAIN Route /\ Route[i] \in Bridges
  <2>1. d \in DevsOf(ToSet(Route)) BY <1>1 DEF RoutedDevs, Routed
  <2> QED BY <1>2, <2>1, FirstOf
<1> HIDE DEF i
<1>4. k \in Tokens BY <1>3 DEF Bridges
<1>5. ToSet(r) \subseteq Routed BY <1>2, <1>3, RemoveAtType DEF Routed
<1>6. active \in Arrays /\ Route = arr[active]
  <2>1. active # None
    <3> SUFFICES ASSUME active = None PROVE FALSE OBVIOUS
    <3>1. Route = <<>> BY DEF Route
    <3> QED BY <1>3, <3>1
  <2> QED BY <2>1 DEF BInv, TypeOK, Route
<1>7. arr' = [arr EXCEPT ![active] = r] BY <1>1, <1>6 DEF BInv, TypeOK
<1> HIDE DEF r, k
<1>8. Routed' \subseteq Routed
  <2>1. Route' = r BY <1>1, <1>6, <1>7, BridgeAssumption DEF Route, BInv, TypeOK
  <2> QED BY <1>5, <2>1 DEF Routed
<1>9. PICK res \in Results :
           Begin(t, [Idle EXCEPT !.op = "leave", !.at = "sync", !.dev = d, !.tok[d] = k, !.res = res])
  BY <1>1
<1> DEFINE R == [Idle EXCEPT !.op = "leave", !.at = "sync", !.dev = d, !.tok[d] = k, !.res = res]
           tok == [Idle.tok EXCEPT ![d] = k]
<1>10. tok \in [Devs -> Tokens \cup {None}] BY <1>4, IdleType DEF TaskSt
<1>11. R = [Idle EXCEPT !.op = "leave", !.at = "sync", !.dev = d, !.tok = tok, !.res = res]
  BY IdleType DEF TaskSt
<1>12. Begin(t, R) BY <1>9
<1> HIDE DEF R, tok
<1>13. R \in TaskSt /\ R.op = "leave" /\ R.at = "sync" /\ R.ask = Idle.ask /\ R.a = Idle.a
  BY <1>1, <1>10, <1>11, IdleType DEF TaskSt, Results
<1>14. HeldBy(R) = {} BY <1>13, IdleType, HeldNothing
<1>15. Idle.a = None BY DEF Idle
<1>16. /\ task'[t].op = "leave" /\ HeldBy(task'[t]) = {} /\ task'[t].old = (round.at # "idle")
       /\ task'[t].a = None
  BY <1>12, <1>13, <1>14, <1>15, Begins
<1>17. NoLeftovers'
  <2>1. \A b \in Arrays : arr'[b] = arr[b] \/ b = active' BY <1>1, <1>7 DEF BInv, TypeOK
  <2> QED BY <1>1, <1>15, <2>1, StaysClean DEF RInv
<1> QED BY <1>1, <1>8, <1>16, <1>17, HoldsNothing

LEMMA RebuildNextKnown ==
  ASSUME BInv, RInv, OneAtATime, NEW t \in Tasks, RebuildNext(t) PROVE RInv'
<1> DEFINE i == task[t].i + 1
           a == task[t].a
           r == arr[a]
           s == r[i]
<1>1. task[t].op = "rebuild" /\ UNCHANGED <<active, seen, round>>
  BY DEF RebuildNext, aside
<1>2. /\ task[t] \in TaskSt /\ Known(task[t]) /\ a \in Arrays /\ i \in Nat \ {0}
  BY <1>1 DEF BInv, TypeOK, RInv, TasksFormed, Formed, TaskSt
<1>3. a = active BY <1>1, <1>2 DEF Known
<1>4. CASE i > Len(r)
  <2>1. End(t) /\ Keep(arr) BY <1>4 DEF RebuildNext
  <2>2. Routed' \subseteq Routed BY <1>1, <2>1, SameRoute
  <2> QED BY <1>1, <2>1, <2>2, Ends, KeepsClean, RouteShrinks
<1>5. CASE ~(i > Len(r))
  <2> DEFINE S == {s}
             R == [task[t] EXCEPT !.at = "prepare", !.i = i, !.tok[s[1]] = s[2], !.ask = Asked(S)]
  <2>1. Begin(t, R) /\ UNCHANGED arr BY <1>5 DEF RebuildNext
  <2>2. r \in Seq(Bridges) BY <1>2, RouteType DEF BInv
  <2>3. i \in 1..Len(r) BY <1>2, <1>5, <2>2, LenProperties
  <2>4. s \in Bridges BY <2>2, <2>3, LenProperties
  <2>5. s \in Routed
    <3>1. a # None BY <1>2, BridgeAssumption
    <3>2. Route = r BY <1>3, <3>1 DEF Route
    <3> QED BY <2>2, <2>3, <3>2, LenProperties DEF Routed, ToSet
  <2> HIDE DEF s, i
  <2>6. S \in SUBSET Bridges /\ DevsOf(S) = {s[1]} BY <2>4 DEF DevsOf
  <2> DEFINE ask == Asked(S)
             tok == [task[t].tok EXCEPT ![s[1]] = s[2]]
  <2>7. s[1] \in Devs /\ s[2] \in Tokens /\ s = <<s[1], s[2]>> BY <2>4 DEF Bridges
  <2>8. ask \in [Devs -> AskSt] /\ \A e \in Devs : ask[e] # "no" => e = s[1]
    BY <2>6, AskedType
  <2>9. tok \in [Devs -> Tokens \cup {None}] /\ tok[s[1]] = s[2]
    BY <1>2, <2>7 DEF TaskSt
  <2> HIDE DEF ask, S
  <2>10. R = [task[t] EXCEPT !.at = "prepare", !.i = i, !.tok = tok, !.ask = ask]
    BY <1>2 DEF TaskSt, ask
  <2> HIDE DEF R, tok, a
  <2>11. i \in Nat BY <1>2 DEF i
  <2>12. /\ R \in TaskSt /\ R.op = "rebuild" /\ R.a = task[t].a /\ R.at = "prepare"
         /\ R.tok = tok /\ R.ask = ask
    BY <1>1, <1>2, <2>8, <2>9, <2>10, <2>11 DEF TaskSt
  <2>13. HeldBy(R) \subseteq Routed
    <3>1. \A e \in Devs : Holds(R, e) => R.ask[e] # "no" BY <2>12 DEF Holds
    <3>2. \A e \in Devs : Holds(R, e) => <<e, R.tok[e]>> = s BY <2>7, <2>8, <2>9, <2>12, <3>1
    <3>3. \A e \in Devs : Holds(R, e) => <<e, R.tok[e]>> \in Routed BY <2>5, <3>2
    <3> QED BY <3>3, HeldIn
  <2>14. /\ task'[t].op = "rebuild" /\ task'[t].a = task[t].a /\ HeldBy(task'[t]) = HeldBy(R)
         /\ task'[t].old = (round.at # "idle")
    BY <2>1, <2>12, Begins
  <2>15. Routed' = Routed BY <1>1, <2>1, StillRoute
  <2>16. NoLeftovers' BY <1>1, <2>1, <2>14, StaysClean DEF RInv
  <2> DEFINE F == {}
  <2>17. F \cap (seen.sessions \cup round.sessions) = {} OBVIOUS
  <2> HIDE DEF F
  <2> QED BY <1>1, <1>3, <2>13, <2>14, <2>15, <2>16, <2>17, OperationKeeps DEF a
<1> QED BY <1>4, <1>5

LEMMA RebuildKnown ==
  ASSUME BInv, RInv, OneAtATime, NEW t \in Tasks, Rebuild(t), active # None PROVE RInv'
<1> DEFINE R == [Idle EXCEPT !.op = "rebuild", !.at = "next", !.a = active]
<1>1. task[t] = Idle /\ Begin(t, R) /\ UNCHANGED <<arr, active, seen, round>>
  BY DEF Rebuild, server
<1>2. active \in Arrays BY DEF BInv, TypeOK
<1>3. R \in TaskSt /\ R.op = "rebuild" /\ R.at = "next" /\ R.a = active /\ R.ask = Idle.ask
  BY <1>2, IdleType DEF TaskSt
<1> HIDE DEF R
<1>4. HeldBy(R) = {} BY <1>3, IdleType, HeldNothing
<1>5. /\ task'[t].op = "rebuild" /\ task'[t].a = active /\ HeldBy(task'[t]) = {}
      /\ task'[t].old = (round.at # "idle")
  BY <1>1, <1>3, <1>4, Begins
<1>6. Routed' \subseteq Routed BY <1>1, StillRoute
<1>7. NoLeftovers'
  <2>1. Idle.a = None BY DEF Idle
  <2> QED BY <1>1, <2>1, StaysClean DEF RInv
<1> QED BY <1>1, <1>5, <1>6, <1>7, HoldsNothing

-----------------------------------------------------------------------------
(* So do the answers, the mishaps and the reconciler itself.               *)

\* A step after which every operation holds what it held, or less of it.
LEMMA LessHeld ==
  ASSUME RInv, UNCHANGED <<arr, active, seen, round>>,
         \A u \in Tasks : /\ task'[u].op = task[u].op /\ task'[u].at = task[u].at
                          /\ task'[u].a = task[u].a /\ task'[u].tok = task[u].tok
                          /\ task'[u].old = task[u].old
                          /\ task[u] = Idle => task'[u] = Idle
                          /\ \A d \in Devs : task'[u].ask[d] \in {"sent", "up", "ok"}
                                            => task[u].ask[d] \in {"sent", "up", "ok"}
  PROVE  RInv'
<1>1. Routed' = Routed BY StillRoute
<1>2. NoLeftovers' BY DEF RInv, NoLeftovers, FreeArrays
<1>3. ASSUME NEW u \in Tasks PROVE Known(task[u])'
  <2> DEFINE R == task'[u]
             Q == task[u]
  <2>1. /\ R.op = Q.op /\ R.a = Q.a /\ R.old = Q.old /\ (Q = Idle => R = Idle)
        /\ R.at = Q.at /\ R.tok = Q.tok
        /\ \A d \in Devs : R.ask[d] \in {"sent", "up", "ok"} => Q.ask[d] \in {"sent", "up", "ok"}
    OBVIOUS
  <2>2. Known(Q) BY DEF RInv
  <2> HIDE DEF R, Q
  <2>3. HeldBy(R) \subseteq HeldBy(Q) BY <2>1 DEF HeldBy, Holds
  <2>4. Suspects' = Suspects BY DEF Suspects
  <2>5. Known(task[u])' <=>
          /\ R.op \in {"join", "rebuild"} => R.a = active'
          /\ R.op \in {"leave", "resume"} => R.a = None
          /\ round'.at # "idle" => R = Idle \/ R.old
          /\ round'.at = "idle" /\ ~R.old => HeldBy(R) \cap seen'.sessions \subseteq Routed'
          /\ HeldBy(R) \cap (Suspects' \cup round'.sessions) = {}
    BY DEF Known, R
  <2> QED BY <1>1, <2>1, <2>2, <2>3, <2>4, <2>5 DEF Known
<1>4. Suspects' = Suspects BY DEF Suspects
<1> QED BY <1>1, <1>2, <1>3, <1>4 DEF RInv

LEMMA AskKnown ==
  ASSUME BInv, RInv, NEW t \in Tasks, NEW d \in Devs, NEW x \in {"up", "down", "ok", "failed"},
         task[t].ask[d] \in {"sent", "up", "down"},
         task[t].ask[d] = "down" => x = "failed",
         task' = [task EXCEPT ![t].ask[d] = x], UNCHANGED <<arr, active, seen, round>>
  PROVE  RInv'
<1>1. task \in [Tasks -> TaskSt] /\ task[t] # Idle
  <2>1. \A e \in Devs : Idle.ask[e] = "no" BY IdleType
  <2> QED BY <2>1 DEF BInv, TypeOK
<1>2. /\ task'[t].op = task[t].op /\ task'[t].at = task[t].at /\ task'[t].a = task[t].a
      /\ task'[t].tok = task[t].tok /\ task'[t].old = task[t].old
      /\ task'[t].ask = [task[t].ask EXCEPT ![d] = x]
  BY <1>1 DEF TaskSt
<1>3. \A e \in Devs : task'[t].ask[e] \in {"sent", "up", "ok"} => task[t].ask[e] \in {"sent", "up", "ok"}
  BY <1>1, <1>2 DEF TaskSt
<1>4. \A u \in Tasks : u # t => task'[u] = task[u] BY <1>1
<1> QED BY <1>1, <1>2, <1>3, <1>4, LessHeld

LEMMA SameKnown ==
  ASSUME RInv, UNCHANGED <<arr, active, seen, round, task>> PROVE RInv'
BY LessHeld

LEMMA ChildRestartsKnown == ASSUME BInv, RInv, ChildRestarts PROVE RInv'
<1> DEFINE ask(t) == [d \in Devs |-> IF task[t].ask[d] \in {"sent", "up"} THEN "down"
                                     ELSE task[t].ask[d]]
<1>1. /\ task' = [t \in Tasks |-> [task[t] EXCEPT
                    !.ask = [d \in Devs |-> IF @[d] \in {"sent", "up"} THEN "down" ELSE @[d]]]]
      /\ UNCHANGED <<arr, active, seen, round>>
  BY DEF ChildRestarts, server
<1>2. task \in [Tasks -> TaskSt] BY DEF BInv, TypeOK
<1>3. \A t \in Tasks : task'[t] = [task[t] EXCEPT !.ask = ask(t)] BY <1>1, <1>2 DEF TaskSt
<1>4. ASSUME NEW t \in Tasks, task[t] = Idle PROVE task'[t] = Idle
  <2>1. ask(t) \in [Devs -> AskSt] BY <1>2 DEF TaskSt, AskSt
  <2>2. \A d \in Devs : task[t].ask[d] = "no" BY <1>4, IdleType
  <2>3. \A d \in Devs : ask(t)[d] = task[t].ask[d] BY <2>2
  <2>4. task[t].ask \in [Devs -> AskSt] BY <1>2 DEF TaskSt
  <2>5. ask(t) = task[t].ask BY <2>1, <2>3, <2>4
  <2> HIDE DEF ask
  <2>6. task'[t] = task[t] BY <1>2, <1>3, <2>5 DEF TaskSt
  <2> QED BY <1>4, <2>6
<1>5. \A t \in Tasks, d \in Devs : ask(t)[d] \in {"sent", "up", "ok"}
                                  => task[t].ask[d] \in {"sent", "up", "ok"}
  OBVIOUS
<1> HIDE DEF ask
<1>6. \A u \in Tasks : /\ task'[u].op = task[u].op /\ task'[u].at = task[u].at
                       /\ task'[u].a = task[u].a /\ task'[u].tok = task[u].tok
                       /\ task'[u].old = task[u].old /\ task'[u].ask = ask(u)
  <2> SUFFICES ASSUME NEW u \in Tasks
               PROVE  /\ task'[u].op = task[u].op /\ task'[u].at = task[u].at
                      /\ task'[u].a = task[u].a /\ task'[u].tok = task[u].tok
                      /\ task'[u].old = task[u].old /\ task'[u].ask = ask(u)
    OBVIOUS
  <2> DEFINE x == ask(u)
  <2> HIDE DEF x
  <2>1. task[u] \in TaskSt /\ task'[u] = [task[u] EXCEPT !.ask = x] BY <1>2, <1>3 DEF x
  <2>2. /\ task'[u].op = task[u].op /\ task'[u].at = task[u].at
        /\ task'[u].a = task[u].a /\ task'[u].tok = task[u].tok
        /\ task'[u].old = task[u].old /\ task'[u].ask = x
    BY <2>1 DEF TaskSt
  <2> QED BY <2>2 DEF x
<1> QED BY <1>1, <1>4, <1>5, <1>6, LessHeld

LEMMA MishapsKnown == ASSUME BInv, RInv, Mishaps PROVE RInv'
<1>1. ASSUME NEW s \in Bridges, Loss(s) \/ LateEnds(s) PROVE RInv'
  BY <1>1, SameKnown DEF Loss, LateEnds, server, aside
<1>2. ASSUME NEW t \in Tasks, NEW d \in Devs, TooSlow(t, d) PROVE RInv'
  BY <1>2, AskKnown DEF TooSlow, aside
<1> QED BY <1>1, <1>2, ChildRestartsKnown DEF Mishaps

\* A step of the round removes suspects, or names some of them.
LEMMA ReconcilerKeeps ==
  ASSUME RInv, UNCHANGED <<arr, active, task>>,
         round.at # "idle" \/ UNCHANGED seen, round'.at # "idle" => round.at # "idle",
         Suspects' \cup round'.sessions \subseteq Suspects \cup round.sessions
  PROVE  RInv'
<1>1. Routed' = Routed BY StillRoute
<1>2. NoLeftovers' BY DEF RInv, NoLeftovers, FreeArrays
<1>3. ASSUME NEW u \in Tasks PROVE Known(task[u])'
  <2>1. Known(task[u]) BY DEF RInv
  <2>2. task[u] = Idle => HeldBy(task[u]) = {} BY IdleHeld
  <2> QED BY <1>1, <2>1, <2>2 DEF Known
<1> QED BY <1>1, <1>2, <1>3 DEF RInv

LEMMA RoundStartsKnown == ASSUME BInv, RInv, RoundStarts PROVE RInv'
<1>1. /\ round.at = "idle" /\ (\A t \in Tasks : ~task[t].old)
      /\ task' = [t \in Tasks |-> IF task[t] = Idle THEN Idle ELSE [task[t] EXCEPT !.old = TRUE]]
      /\ round' = [NoRound EXCEPT !.at = "handles", !.bridges = Routed]
      /\ UNCHANGED <<arr, active, seen>>
  BY DEF RoundStarts, server
<1>2. round'.at = "handles" /\ round'.bridges = Routed /\ round'.sessions = {}
  BY <1>1 DEF NoRound
<1>3. Suspects' = seen.sessions \ Routed BY <1>1, <1>2 DEF Suspects
<1>4. Routed' = Routed BY <1>1, StillRoute
<1>5. ASSUME NEW u \in Tasks
      PROVE  /\ task'[u].op = task[u].op /\ task'[u].a = task[u].a
             /\ HeldBy(task'[u]) = HeldBy(task[u]) /\ (task'[u] = Idle \/ task'[u].old)
  <2>1. CASE task[u] = Idle BY <1>1, <2>1
  <2>2. CASE task[u] # Idle
    <3>1. task[u] \in TaskSt /\ task'[u] = [task[u] EXCEPT !.old = TRUE]
      BY <1>1, <2>2 DEF BInv, TypeOK
    <3>2. /\ task'[u].op = task[u].op /\ task'[u].a = task[u].a /\ task'[u].old
          /\ task'[u].tok = task[u].tok /\ task'[u].ask = task[u].ask /\ task'[u].at = task[u].at
      BY <3>1 DEF TaskSt
    <3> QED BY <3>2, HeldSame
  <2> QED BY <2>1, <2>2
<1>6. ASSUME NEW u \in Tasks PROVE Known(task[u])'
  <2>1. Known(task[u]) /\ ~task[u].old BY <1>1 DEF RInv
  <2>2. HeldBy(task[u]) \cap seen.sessions \subseteq Routed BY <1>1, <2>1 DEF Known
  <2>3. HeldBy(task'[u]) \cap (Suspects' \cup round'.sessions) = {} BY <1>2, <1>3, <1>5, <2>2
  <2> QED BY <1>1, <1>2, <1>5, <2>1, <2>3 DEF Known
<1>7. NoLeftovers' BY <1>1, <1>5 DEF RInv, NoLeftovers, FreeArrays
<1> QED BY <1>2, <1>3, <1>4, <1>6, <1>7 DEF RInv

LEMMA RoundGoesOnKnown ==
  ASSUME BInv, RInv,
         SeesHandles \/ SeesSessions \/ (\E d \in Devs : ReapsHandle(d)) \/ (\E s \in Bridges : ReapsSession(s))
  PROVE  RInv'
<1>1. round \in RoundSt /\ seen \in [handles : SUBSET Devs, sessions : SUBSET Bridges]
  BY DEF BInv, TypeOK
<1>2. NoRound.at = "idle" /\ NoRound.sessions = {} BY DEF NoRound
<1>3. CASE SeesHandles
  <2> DEFINE found == {d \in Devs : handle[d] # None /\ d \notin DevsOf(round.bridges)}
  <2>1. /\ round.at = "handles" /\ UNCHANGED <<arr, active, task>>
        /\ round' = [round EXCEPT !.at = "sessions", !.handles = Reaps(found, seen.handles)]
        /\ seen' = [seen EXCEPT !.handles = found \ Reaps(found, @)]
    BY <1>3 DEF SeesHandles, server
  <2> HIDE DEF found
  <2>2. /\ round'.at = "sessions" /\ round'.bridges = round.bridges
        /\ round'.sessions = round.sessions /\ seen'.sessions = seen.sessions
    BY <1>1, <2>1 DEF RoundSt
  <2>3. Suspects' = Suspects BY <2>1, <2>2 DEF Suspects
  <2> QED BY <2>1, <2>2, <2>3, ReconcilerKeeps
<1>4. CASE SeesSessions
  <2> DEFINE reap == Reaps(session \ round.bridges, seen.sessions)
  <2>1. /\ round.at = "sessions" /\ UNCHANGED <<arr, active, task>>
        /\ round' = IF reap = {} THEN NoRound ELSE [NoRound EXCEPT !.at = "reap", !.sessions = reap]
    BY <1>4 DEF SeesSessions, server
  <2>2. reap \subseteq Suspects BY <2>1 DEF Suspects, Reaps
  <2> HIDE DEF reap
  <2>3. round'.at \in {"idle", "reap"} /\ round'.sessions \subseteq reap
    BY <1>2, <2>1 DEF NoRound
  <2>4. Suspects' = {} BY <2>3 DEF Suspects
  <2> QED BY <2>1, <2>2, <2>3, <2>4, ReconcilerKeeps
<1>5. ASSUME NEW d \in Devs, ReapsHandle(d) PROVE RInv'
  <2>1. /\ round' = [round EXCEPT !.handles = @ \ {d}] /\ UNCHANGED <<arr, active, task, seen>>
    BY <1>5 DEF ReapsHandle, server
  <2>2. /\ round'.at = round.at /\ round'.bridges = round.bridges
        /\ round'.sessions = round.sessions
    BY <1>1, <2>1 DEF RoundSt
  <2>3. Suspects' = Suspects BY <2>1, <2>2 DEF Suspects
  <2> QED BY <2>1, <2>2, <2>3, ReconcilerKeeps
<1>6. ASSUME NEW s \in Bridges, ReapsSession(s) PROVE RInv'
  <2>1. /\ UNCHANGED <<arr, active, task, seen>>
        /\ round' = IF round.sessions = {s} THEN NoRound ELSE [round EXCEPT !.sessions = @ \ {s}]
    BY <1>6 DEF ReapsSession
  <2>2. CASE round' = NoRound
    <3>1. Suspects' = {} BY <1>2, <2>2 DEF Suspects
    <3> QED BY <1>2, <2>1, <2>2, <3>1, ReconcilerKeeps
  <2>3. CASE round' = [round EXCEPT !.sessions = @ \ {s}]
    <3>1. /\ round'.at = round.at /\ round'.bridges = round.bridges
          /\ round'.sessions = round.sessions \ {s}
      BY <1>1, <2>3 DEF RoundSt
    <3>2. Suspects' = Suspects BY <2>1, <3>1 DEF Suspects
    <3> QED BY <2>1, <3>1, <3>2, ReconcilerKeeps
  <2> QED BY <2>1, <2>2, <2>3
<1> QED BY <1>3, <1>4, <1>5, <1>6

LEMMA TaskKnown ==
  ASSUME BInv, RInv, OneAtATime, NEW t \in Tasks, TaskStep(t) PROVE RInv'
<1>1. ASSUME NEW d \in Devs, Handshake(t, d) PROVE RInv'
  BY <1>1, AskKnown DEF Handshake, server, aside
<1>2. ASSUME NEW d \in Devs, Answer(t, d) PROVE RInv'
  <2>1. PICK x \in {"ok", "failed"} : /\ task[t].ask[d] = "down" => x = "failed"
                                      /\ task' = [task EXCEPT ![t].ask[d] = x]
    BY <1>2 DEF Answer
  <2>2. task[t].ask[d] \in {"up", "down"} /\ UNCHANGED <<arr, active, seen, round>>
    BY <1>2 DEF Answer, aside
  <2> QED BY <2>1, <2>2, AskKnown
<1> QED BY <1>1, <1>2, EndKnown, ResumeSyncsKnown, PlayPreparesKnown, PlayCastsKnown,
           JoinSyncsKnown, RebuildNextKnown
        DEF TaskStep

LEMMA RInvInit == Init => RInv
<1> SUFFICES ASSUME Init PROVE RInv OBVIOUS
<1>1. seen.sessions = {} /\ round.sessions = {} /\ round.at = "idle" /\ (\A a \in Arrays : arr[a] = <<>>)
  BY DEF Init, NoRound
<1>2. \A t \in Tasks : task[t] = Idle BY DEF Init
<1>3. Suspects = {} BY <1>1 DEF Suspects
<1>4. NoLeftovers BY <1>1 DEF NoLeftovers, FreeArrays
<1>5. \A t \in Tasks : Known(task[t]) BY <1>1, <1>2, <1>3, IdleType, IdleHeld DEF Known
<1> QED BY <1>1, <1>3, <1>4, <1>5 DEF RInv

LEMMA RInvStep == ASSUME OneAtATime, BInv, RInv, [Next]_vars PROVE RInv'
<1>1. CASE Users
  <2>1. PICK t \in Tasks : \/ Stop(t)
                           \/ \E on \in SUBSET Devs : Play(t, on) \/ Resume(t, on)
                           \/ \E d \in Devs : Join(t, d) \/ Leave(t, d)
    BY <1>1 DEF Users
  <2> QED BY <2>1, StopKnown, PlayKnown, ResumeKnown, JoinKnown, LeaveKnown
<1>2. CASE Reconcile BY <1>2, RoundStartsKnown, RoundGoesOnKnown DEF Reconcile
<1>3. ASSUME NEW t \in Tasks, Rebuild(t) PROVE RInv'
  <2>1. CASE active # None BY <1>3, <2>1, RebuildKnown
  <2>2. CASE active = None
    <3>1. UNCHANGED <<arr, active, seen, round, task>> BY <1>3, <2>2 DEF Rebuild, server
    <3> QED BY <3>1, SameKnown
  <2> QED BY <2>1, <2>2
<1>4. CASE UNCHANGED vars BY <1>4, SameKnown DEF vars, server, aside
<1> QED BY <1>1, <1>2, <1>3, <1>4, MishapsKnown, TaskKnown DEF Next

\* Only the round of the reconciler changes the round.
LEMMA RoundsByReconciler ==
  ASSUME [Next]_vars, round' # round PROVE Reconcile
<1>1. ASSUME NEW t \in Tasks, TaskStep(t) PROVE round' = round
  BY <1>1 DEF TaskStep, PlayPrepares, PlayCasts, CastEnds, ResumeSyncs, ResumeEnds,
              StopTears, JoinSyncs, JoinEnds, LeaveEnds, RebuildNext, Handshake, Answer, aside
<1>2. CASE Users BY <1>2 DEF Users, Stop, Play, Resume, Join, Leave, aside
<1>3. CASE Mishaps BY <1>3 DEF Mishaps, ChildRestarts, Loss, LateEnds, TooSlow, aside
<1>4. ASSUME NEW t \in Tasks, Rebuild(t) PROVE round' = round BY <1>4 DEF Rebuild
<1> QED BY <1>1, <1>2, <1>3, <1>4 DEF Next, vars, aside

LEMMA MakingHeld ==
  ASSUME BInv, NEW t \in Tasks PROVE InTheMaking(t) \subseteq HeldBy(task[t])
BY DEF InTheMaking, HeldBy, Holds, BInv, TasksFormed, Formed

LEMMA ReapsSuspectsOnly ==
  ASSUME BInv, RInv, [Next]_vars, round' # round
  PROVE  (session \ session') \cap (Routed \cup UNION {InTheMaking(t) : t \in Tasks}) = {}
<1>1. Reconcile BY RoundsByReconciler
<1>2. session' = session \/ \E s \in Bridges : ReapsSession(s)
  BY <1>1 DEF Reconcile, RoundStarts, SeesHandles, SeesSessions, ReapsHandle, child
<1>3. ASSUME NEW s \in Bridges, ReapsSession(s)
      PROVE  (session \ session') \cap (Routed \cup UNION {InTheMaking(t) : t \in Tasks}) = {}
  <2>1. s \in round.sessions /\ session' = session \ {s} BY <1>3 DEF ReapsSession, StopDevice
  <2>2. s \notin Routed BY <2>1 DEF RInv
  <2>3. \A t \in Tasks : s \notin HeldBy(task[t]) BY <2>1 DEF RInv, Known
  <2>4. \A t \in Tasks : s \notin InTheMaking(t) BY <2>3, MakingHeld
  <2> QED BY <2>1, <2>2, <2>4
<1> QED BY <1>2, <1>3

\* With one operation at a time, whatever the faults and however its steps fall
\* between those of a round, the reconciler removes no session of a bridge that is
\* in the route or that the operation is about to enter there.
THEOREM ReconcilerSparesTheLiving ==
  ASSUME OneAtATime PROVE Spec => ReapsNoneInTheMaking
<1>1. BInv /\ RInv /\ [Next]_vars =>
        [round' # round =>
           (session \ session') \cap (Routed \cup UNION {InTheMaking(t) : t \in Tasks}) = {}]_vars
  BY ReapsSuspectsOnly
<1>2. BInv /\ RInv /\ [Next]_vars => RInv' BY RInvStep
<1> QED BY <1>1, <1>2, BInvInit, BInvStep, RInvInit, PTL DEF Spec, ReapsNoneInTheMaking

=============================================================================
