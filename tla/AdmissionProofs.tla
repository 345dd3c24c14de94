---------------------------- MODULE AdmissionProofs -----------------------------
(*************************************************************************)
(* Theorems about Admission: how many requests pass the limiter, when two *)
(* runs are open on a ticket, and by how much a daily budget is passed.  *)
(*                                                                       *)
(* All three come of a look at one moment and an act at a later one.  What *)
(* makes them inductive is what is known in between: a request that found *)
(* nothing open still has nothing open among the runs it saw (LookedUp); *)
(* the hits that still count cover every admission of the window (Counted); *)
(* and a budget has room for the answers its callers wait for, one for each *)
(* worker (Headroom).                                                    *)
(*                                                                       *)
(* The first part is about sums: what a sum over a set gains, loses or   *)
(* leaves out, whatever the order in which the library's fold takes the  *)
(* members.  The second says what each action keeps (AInv), the others take *)
(* one promise each.                                                     *)
(*************************************************************************)
EXTENDS EventStream, TLAPS, SequenceTheorems, FiniteSetTheorems, WellFoundedInduction

-----------------------------------------------------------------------------
(* Sums. *)

(* A set of numbers that is not empty has a least member.                    *)
LEMMA LeastMember ==
  ASSUME NEW Ns, Ns \in SUBSET Nat, Ns # {}
  PROVE  \E n \in Ns : \A m \in Ns : n <= m
  <1>1. PICK n \in Ns : \A m \in Ns : ~(<<m, n>> \in OpToRel(<, Nat))
    BY NatLessThanWellFounded, WFMin
  <1>2. ASSUME NEW m \in Ns, m < n PROVE <<m, n>> \in OpToRel(<, Nat)
    BY <1>2 DEF OpToRel
  <1>3. \A m \in Ns : m \in Nat /\ ~(m < n)
    BY <1>1, <1>2
  <1> QED BY <1>3

(* What holds of a set whenever it holds of its proper subsets holds of every *)
(* finite set.                                                               *)
LEMMA FiniteInduction ==
  ASSUME NEW U, IsFiniteSet(U), NEW Good,
         \A t \in SUBSET U : (\A u \in SUBSET t : u # t => u \in Good) => t \in Good
  PROVE  U \in Good
  <1> DEFINE Bad == (SUBSET U) \ Good
             Sizes == {Cardinality(t) : t \in Bad}
  <1>1. Sizes \subseteq Nat
    BY FS_Subset, FS_CardinalityType
  <1>2. SUFFICES ASSUME U \notin Good PROVE FALSE
    OBVIOUS
  <1>3. Sizes # {}
    BY <1>2
  <1>4. PICK n \in Sizes : \A m \in Sizes : n <= m
    <2> HIDE DEF Sizes, Bad
    <2> QED BY <1>1, <1>3, LeastMember
  <1>5. PICK t \in Bad : n = Cardinality(t)
    OBVIOUS
  <1>6. ASSUME NEW u \in SUBSET t, u # t PROVE u \in Good
    <2>1. IsFiniteSet(t) /\ u \in SUBSET U
      BY <1>5, FS_Subset
    <2>2. Cardinality(u) \in Nat /\ Cardinality(t) \in Nat /\ Cardinality(u) < Cardinality(t)
      <3>1. IsFiniteSet(u) /\ Cardinality(u) <= Cardinality(t) /\ Cardinality(u) # Cardinality(t)
        BY <1>6, <2>1, FS_Subset
      <3> QED BY <2>1, <3>1, FS_CardinalityType
    <2>3. u \in Bad => Cardinality(u) \in Sizes
      OBVIOUS
    <2>4. u \notin Bad
      BY <1>4, <1>5, <2>2, <2>3
    <2> QED BY <2>1, <2>4
  <1> QED BY <1>5, <1>6

Any(s) == CHOOSE x \in s : TRUE
Totals(w, S, f) ==
  f = [s \in SUBSET S |-> IF s = {} THEN 0 ELSE w[Any(s)] + f[s \ {Any(s)}]]

(* Two tables of partial totals agree where both have an entry.              *)
LEMMA TotalsAgree ==
  ASSUME NEW w, NEW s, NEW t, NEW f, NEW g, Totals(w, s, f), Totals(w, t, g),
         NEW u \in (SUBSET s) \cap (SUBSET t), IsFiniteSet(u)
  PROVE  f[u] = g[u]
  <1> DEFINE Good == {v \in SUBSET u : f[v] = g[v]}
  <1>1. ASSUME NEW v \in SUBSET u, \A x \in SUBSET v : x # v => x \in Good PROVE v \in Good
    <2>1. CASE v = {}
      BY <2>1 DEF Totals
    <2>2. CASE v # {}
      <3>1. Any(v) \in v
        BY <2>2 DEF Any
      <3>2. v \ {Any(v)} \in Good
        BY <1>1, <3>1
      <3>3. f[v] = w[Any(v)] + f[v \ {Any(v)}] /\ g[v] = w[Any(v)] + g[v \ {Any(v)}]
        BY <2>2 DEF Totals
      <3> QED BY <3>2, <3>3
    <2> QED BY <2>1, <2>2
  <1>2. u \in Good
    <2> HIDE DEF Good
    <2> QED BY <1>1, FiniteInduction
  <1> QED BY <1>2

(* Every finite set has such a table: the entry of a set is made from the    *)
(* tables of what is left of it.                                             *)
LEMMA TotalsExist ==
  ASSUME NEW w, NEW s, IsFiniteSet(s)
  PROVE  \E f : Totals(w, s, f)
  <1> DEFINE Good == {t \in SUBSET s : \E f : Totals(w, t, f)}
  <1>1. ASSUME NEW t \in SUBSET s, \A x \in SUBSET t : x # t => x \in Good PROVE t \in Good
    <2> DEFINE G(x) == CHOOSE f : Totals(w, x, f)
               F == [x \in SUBSET t |-> IF x = {} THEN 0 ELSE w[Any(x)] + G(x \ {Any(x)})[x \ {Any(x)}]]
    <2>1. ASSUME NEW x \in SUBSET t, x # t PROVE Totals(w, x, G(x))
      BY <1>1, <2>1
    <2>2. ASSUME NEW x \in SUBSET t, x # t PROVE G(x)[x] = F[x]
      <3>1. CASE x = {}
        <4>1. G(x)[x] = 0
          <5>1. Totals(w, x, G(x))
            BY <2>1, <2>2
          <5> HIDE DEF G
          <5> QED BY <3>1, <5>1 DEF Totals
        <4> QED BY <3>1, <4>1
      <3>2. CASE x # {}
        <4>1. Any(x) \in x
          BY <3>2 DEF Any
        <4> DEFINE y == x \ {Any(x)}
        <4>2. y \in SUBSET t /\ y # t /\ y \in (SUBSET x) \cap (SUBSET y) /\ IsFiniteSet(y)
          BY <2>2, <4>1, FS_Subset
        <4>3. G(x)[x] = w[Any(x)] + G(x)[y]
          <5>1. Totals(w, x, G(x))
            BY <2>1, <2>2
          <5> HIDE DEF G
          <5> QED BY <3>2, <5>1 DEF Totals
        <4>4. G(x)[y] = G(y)[y]
          <5>1. Totals(w, x, G(x)) /\ Totals(w, y, G(y))
            BY <2>1, <2>2, <4>2
          <5> HIDE DEF G, y
          <5> QED BY <4>2, <5>1, TotalsAgree
        <4>5. F[x] = w[Any(x)] + G(y)[y]
          BY <3>2
        <4> QED BY <4>3, <4>4, <4>5
      <3> QED BY <3>1, <3>2
    <2>3. F = [x \in SUBSET t |-> IF x = {} THEN 0 ELSE w[Any(x)] + F[x \ {Any(x)}]]
      <3>1. ASSUME NEW x \in SUBSET t, x # {} PROVE G(x \ {Any(x)})[x \ {Any(x)}] = F[x \ {Any(x)}]
        <4>1. Any(x) \in x
          BY <3>1 DEF Any
        <4>2. x \ {Any(x)} \in SUBSET t /\ x \ {Any(x)} # t
          BY <4>1
        <4> HIDE DEF F, G
        <4> QED BY <2>2, <4>2
      <3> DEFINE H == [x \in SUBSET t |-> IF x = {} THEN 0 ELSE w[Any(x)] + F[x \ {Any(x)}]]
      <3>2. ASSUME NEW x \in SUBSET t PROVE F[x] = H[x]
        <4>1. CASE x = {}
          BY <4>1
        <4>2. CASE x # {}
          <5>1. F[x] = w[Any(x)] + G(x \ {Any(x)})[x \ {Any(x)}]
            BY <4>2
          <5>2. H[x] = w[Any(x)] + F[x \ {Any(x)}]
            BY <4>2
          <5> HIDE DEF F, G, H
          <5> QED BY <3>1, <4>2, <5>1, <5>2
        <4> QED BY <4>1, <4>2
      <3> QED BY <3>2
    <2>4. Totals(w, t, F)
      <3> HIDE DEF F
      <3> QED BY <2>3 DEF Totals
    <2> QED BY <2>4
  <1>2. s \in Good
    <2> HIDE DEF Good
    <2> QED BY <1>1, FiniteInduction
  <1> QED BY <1>2

(* The library's fold is the total at S.                                     *)
LEMMA SumIsATotal ==
  ASSUME NEW w, NEW S
  PROVE  SumFunctionOnSet(w, S) = (CHOOSE f : Totals(w, S, f))[S]
  BY Zenon DEF SumFunctionOnSet, FoldFunctionOnSet, MapThenFoldSet, Totals, Any

(* The sum over a set that is not empty is one entry and the sum of the rest. *)
LEMMA SumTakesOne ==
  ASSUME NEW w, NEW s, IsFiniteSet(s)
  PROVE  SumFunctionOnSet(w, s) =
           IF s = {} THEN 0 ELSE w[Any(s)] + SumFunctionOnSet(w, s \ {Any(s)})
  <1> DEFINE F(t) == CHOOSE f : Totals(w, t, f)
  <1>1. Totals(w, s, F(s))
    BY TotalsExist
  <1>2. CASE s = {}
    <2>1. F(s)[s] = 0
      <3> HIDE DEF F
      <3> QED BY <1>1, <1>2 DEF Totals
    <2> QED BY <1>2, <2>1, SumIsATotal
  <1>3. CASE s # {}
    <2> DEFINE t == s \ {Any(s)}
    <2>1. Any(s) \in s
      BY <1>3 DEF Any
    <2>2. t \in (SUBSET s) \cap (SUBSET t) /\ IsFiniteSet(t)
      BY <2>1, FS_Subset
    <2>3. Totals(w, t, F(t))
      BY <2>2, TotalsExist
    <2>4. F(s)[s] = w[Any(s)] + F(s)[t]
      <3> HIDE DEF F
      <3> QED BY <1>1, <1>3 DEF Totals
    <2>5. F(s)[t] = F(t)[t]
      <3> HIDE DEF F, t
      <3> QED BY <1>1, <2>2, <2>3, TotalsAgree
    <2>6. SumFunctionOnSet(w, s) = F(s)[s] /\ SumFunctionOnSet(w, t) = F(t)[t]
      BY SumIsATotal
    <2> HIDE DEF F
    <2> QED BY <1>3, <2>4, <2>5, <2>6
  <1> QED BY <1>2, <1>3

(* A sum of naturals is one.                                                 *)
LEMMA SumIsNat ==
  ASSUME NEW w, NEW s, IsFiniteSet(s), \A x \in s : w[x] \in Nat
  PROVE  SumFunctionOnSet(w, s) \in Nat
  <1> DEFINE Good == {t \in SUBSET s : SumFunctionOnSet(w, t) \in Nat}
  <1>1. ASSUME NEW t \in SUBSET s, \A u \in SUBSET t : u # t => u \in Good PROVE t \in Good
    <2>1. IsFiniteSet(t)
      BY FS_Subset
    <2>2. CASE t = {}
      <3>1. SumFunctionOnSet(w, t) = 0
        BY <2>1, <2>2, SumTakesOne
      <3> QED BY <3>1
    <2>3. CASE t # {}
      <3>1. Any(t) \in t /\ w[Any(t)] \in Nat
        BY <2>3 DEF Any
      <3>2. SumFunctionOnSet(w, t \ {Any(t)}) \in Nat
        BY <1>1, <3>1
      <3>3. SumFunctionOnSet(w, t) = w[Any(t)] + SumFunctionOnSet(w, t \ {Any(t)})
        BY <2>1, <2>3, SumTakesOne
      <3> QED BY <3>1, <3>2, <3>3
    <2> QED BY <2>2, <2>3
  <1>2. s \in Good
    <2> HIDE DEF Good
    <2> QED BY <1>1, FiniteInduction
  <1> QED BY <1>2

(* Any member may be taken out first.                                        *)
LEMMA SumTakesAny ==
  ASSUME NEW w, NEW s, IsFiniteSet(s), \A x \in s : w[x] \in Nat, NEW e \in s
  PROVE  SumFunctionOnSet(w, s) = w[e] + SumFunctionOnSet(w, s \ {e})
  <1> DEFINE Out(t, x) == SumFunctionOnSet(w, t) = w[x] + SumFunctionOnSet(w, t \ {x})
             Good == {t \in SUBSET s : \A x \in t : Out(t, x)}
  <1>1. ASSUME NEW t \in SUBSET s, \A u \in SUBSET t : u # t => u \in Good PROVE t \in Good
    <2>1. IsFiniteSet(t)
      BY FS_Subset
    <2>2. ASSUME NEW x \in t PROVE Out(t, x)
      <3> DEFINE y == Any(t)
      <3>1. y \in t
        BY DEF Any
      <3>2. Out(t, y)
        BY <2>1, SumTakesOne
      <3>3. CASE x = y
        BY <3>2, <3>3
      <3>4. CASE x # y
        <4>1. x \in t \ {y} /\ t \ {y} \in Good
          BY <1>1, <3>1, <3>4
        <4>2. Out(t \ {y}, x)
          BY <4>1
        <4>3. y \in t \ {x} /\ t \ {x} \in Good
          BY <1>1, <3>1, <3>4
        <4>4. Out(t \ {x}, y)
          BY <4>3
        <4>5. (t \ {y}) \ {x} = (t \ {x}) \ {y}
          OBVIOUS
        <4>6. SumFunctionOnSet(w, (t \ {x}) \ {y}) \in Nat
          <5>1. IsFiniteSet((t \ {x}) \ {y}) /\ \A z \in (t \ {x}) \ {y} : w[z] \in Nat
            BY <2>1, FS_Subset
          <5> QED BY <5>1, SumIsNat
        <4>7. w[x] \in Nat /\ w[y] \in Nat
          BY <3>1
        <4> HIDE DEF y, Good
        <4> QED BY <3>2, <4>2, <4>4, <4>5, <4>6, <4>7
      <3> QED BY <3>3, <3>4
    <2> QED BY <2>2
  <1>2. s \in Good
    <2> HIDE DEF Good
    <2> QED BY <1>1, FiniteInduction
  <1> QED BY <1>2

(* Sums over the same set compare as their entries do.                       *)
LEMMA SumIsMonotone ==
  ASSUME NEW w, NEW v, NEW s, IsFiniteSet(s), \A x \in s : w[x] \in Nat /\ v[x] \in Nat /\ w[x] <= v[x]
  PROVE  SumFunctionOnSet(w, s) <= SumFunctionOnSet(v, s)
  <1> DEFINE Good == {t \in SUBSET s : SumFunctionOnSet(w, t) <= SumFunctionOnSet(v, t)}
  <1>1. ASSUME NEW t \in SUBSET s, \A u \in SUBSET t : u # t => u \in Good PROVE t \in Good
    <2>1. IsFiniteSet(t)
      BY FS_Subset
    <2>2. CASE t = {}
      <3>1. SumFunctionOnSet(w, t) = 0 /\ SumFunctionOnSet(v, t) = 0
        BY <2>1, <2>2, SumTakesOne
      <3> QED BY <3>1
    <2>3. CASE t # {}
      <3> DEFINE u == t \ {Any(t)}
      <3>1. Any(t) \in t
        BY <2>3 DEF Any
      <3>2. u \in Good /\ IsFiniteSet(u)
        BY <1>1, <2>1, <3>1, FS_Subset
      <3>3. SumFunctionOnSet(w, t) = w[Any(t)] + SumFunctionOnSet(w, u)
        BY <2>1, <2>3, SumTakesOne
      <3>4. SumFunctionOnSet(v, t) = v[Any(t)] + SumFunctionOnSet(v, u)
        BY <2>1, <2>3, SumTakesOne
      <3>5. SumFunctionOnSet(w, u) \in Nat /\ SumFunctionOnSet(v, u) \in Nat
        <4>1. \A x \in u : w[x] \in Nat /\ v[x] \in Nat
          OBVIOUS
        <4> QED BY <3>2, <4>1, SumIsNat
      <3>6. SumFunctionOnSet(w, u) <= SumFunctionOnSet(v, u)
        BY <3>2
      <3>7. w[Any(t)] \in Nat /\ v[Any(t)] \in Nat /\ w[Any(t)] <= v[Any(t)]
        BY <3>1
      <3> HIDE DEF u
      <3>8. SumFunctionOnSet(w, t) <= SumFunctionOnSet(v, t)
        BY <3>3, <3>4, <3>5, <3>6, <3>7
      <3> QED BY <3>8
    <2> QED BY <2>2, <2>3
  <1>2. s \in Good
    <2> HIDE DEF Good
    <2> QED BY <1>1, FiniteInduction
  <1> QED BY <1>2

(* Equal entries have equal sums.                                            *)
LEMMA SumOfEquals ==
  ASSUME NEW w, NEW v, NEW s, IsFiniteSet(s), \A x \in s : w[x] = v[x] /\ w[x] \in Nat
  PROVE  SumFunctionOnSet(w, s) = SumFunctionOnSet(v, s)
  <1>1. SumFunctionOnSet(w, s) <= SumFunctionOnSet(v, s)
    BY SumIsMonotone
  <1>2. SumFunctionOnSet(v, s) <= SumFunctionOnSet(w, s)
    BY SumIsMonotone
  <1>3. SumFunctionOnSet(w, s) \in Nat /\ SumFunctionOnSet(v, s) \in Nat
    BY SumIsNat
  <1> QED BY <1>1, <1>2, <1>3

(* What is outside a part and counts for nothing may be left out, and what   *)
(* counts for something can only add to the sum of a part.                   *)
LEMMA SumOfPart ==
  ASSUME NEW w, NEW s, IsFiniteSet(s), \A x \in s : w[x] \in Nat, NEW p \in SUBSET s
  PROVE  /\ SumFunctionOnSet(w, p) <= SumFunctionOnSet(w, s)
         /\ (\A x \in s \ p : w[x] = 0) => SumFunctionOnSet(w, p) = SumFunctionOnSet(w, s)
  <1> DEFINE Part(t) == /\ SumFunctionOnSet(w, p) <= SumFunctionOnSet(w, p \cup t)
                        /\ (\A x \in t : w[x] = 0) => SumFunctionOnSet(w, p) = SumFunctionOnSet(w, p \cup t)
             Good == {t \in SUBSET (s \ p) : Part(t)}
  <1>1. ASSUME NEW t \in SUBSET (s \ p), \A u \in SUBSET t : u # t => u \in Good PROVE t \in Good
    <2>1. IsFiniteSet(t) /\ IsFiniteSet(p) /\ IsFiniteSet(p \cup t)
      <3>1. p \cup t \in SUBSET s /\ t \in SUBSET s
        OBVIOUS
      <3> QED BY <3>1, FS_Subset
    <2>2. SumFunctionOnSet(w, p) \in Nat
      BY <2>1, SumIsNat
    <2>3. CASE t = {}
      <3>1. p \cup t = p
        BY <2>3
      <3>2. Part(t)
        BY <2>2, <3>1
      <3> QED BY <3>2
    <2>4. CASE t # {}
      <3> DEFINE y == Any(t)
                 u == t \ {y}
      <3>1. y \in t
        BY <2>4 DEF Any
      <3>2. u \in Good /\ (p \cup t) \ {y} = p \cup u /\ y \in p \cup t /\ IsFiniteSet(p \cup u)
        <4>1. (p \cup t) \ {y} = p \cup u
          BY <3>1
        <4>2. IsFiniteSet((p \cup t) \ {y})
          BY <2>1, FS_Subset
        <4> QED BY <1>1, <3>1, <4>1, <4>2
      <3>3. SumFunctionOnSet(w, p \cup t) = w[y] + SumFunctionOnSet(w, p \cup u)
        <4>1. \A x \in p \cup t : w[x] \in Nat
          OBVIOUS
        <4> HIDE DEF y, u
        <4> QED BY <2>1, <3>2, <4>1, SumTakesAny
      <3>4. SumFunctionOnSet(w, p \cup u) \in Nat /\ w[y] \in Nat
        BY <3>1, <3>2, SumIsNat
      <3>5. Part(u)
        BY <3>2
      <3>6. (\A x \in t : w[x] = 0) => (\A x \in u : w[x] = 0) /\ w[y] = 0
        BY <3>1
      <3>7. Part(t)
        <4> HIDE DEF y, u
        <4> QED BY <2>2, <3>3, <3>4, <3>5, <3>6
      <3> QED BY <3>7
    <2> QED BY <2>3, <2>4
  <1>2. (s \ p) \in Good
    <2>1. IsFiniteSet(s \ p)
      BY FS_Subset
    <2> HIDE DEF Good
    <2> QED BY <1>1, <2>1, FiniteInduction
  <1>3. p \cup (s \ p) = s
    OBVIOUS
  <1> QED BY <1>2, <1>3

-----------------------------------------------------------------------------
(* Types, and who drives a run. *)

Places == {"away", "clocked", "admitted", "clear", "answered"}
Within == {"clocked", "admitted", "clear"}
Table == [0..scene.time -> Nat]
AnsweredRequests == {q \in Requests : req[q].at = "answered"}
Request == [at : Places, ticket : Tickets \cup {NoTicket}, now : 0..clock, saw : 0..Len(runs)]
Hand == [run : {0} \cup DOMAIN runs, calling : BOOLEAN]

(* The door: the limiter's tables and the requests on their way through it.  *)
DoorTyped ==
  /\ scene \in Scenarios /\ clock \in 0..scene.time /\ today \in 1..scene.days
  /\ hits \in [Orgs -> Table] /\ admitted \in [Orgs -> Table]
  /\ req \in [Requests -> Request]
  /\ \A q \in Requests : req[q].ticket \in Tickets <=> req[q].at \in Within
(* The runs, no more than requests let in, and the workers.                  *)
RunsTyped ==
  /\ runs \in Seq(RunRecord) /\ Len(runs) <= Cardinality(AnsweredRequests)
  /\ busy \in [Workers -> Hand]
(* A worker has a run of its own, which is running or was cancelled, and     *)
(* waits for the model only below the caps.                                  *)
Driven ==
  /\ \A w \in Workers : busy[w].run # 0 => runs[busy[w].run].status \in {"running"} \cup Ended
  /\ \A v, w \in Workers : busy[v].run = busy[w].run => v = w \/ busy[v].run = 0
  /\ \A w \in Workers : busy[w].calling =>
       busy[w].run # 0 /\ runs[busy[w].run].steps < scene.steps /\ runs[busy[w].run].cost < RunCap
  /\ \A r \in DOMAIN runs : runs[r].owes => runs[r].steps <= scene.steps
AInv == DoorTyped /\ RunsTyped /\ Driven

(* What no step undoes in a run.                                             *)
Kept(a, b) ==
  /\ b.ticket = a.ticket /\ b.day = a.day /\ b.saw = a.saw /\ a.steps <= b.steps
  /\ a.status \in Ended => b.status \in Ended /\ b.steps = a.steps
Written(r, x) ==
  /\ r \in DOMAIN runs /\ x \in RunRecord /\ Kept(runs[r], x)
  /\ runs' = [runs EXCEPT ![r] = x]

(* What the constants are.                                                   *)
LEMMA SceneTypes ==
  ASSUME scene \in Scenarios
  PROVE  scene.tickets \subseteq Tickets /\ scene.steps \in Nat /\ scene.time \in Nat /\ scene.days \in Nat \ {0}
  BY ScenesAssumption

(* The limits are positive numbers.                                          *)
LEMMA LimitTypes ==
  /\ Limit \in Nat /\ Limit > 0 /\ Window \in Nat /\ Window > 0 /\ RunCap \in Nat /\ RunCap > 0
  /\ OrgBudget \in Nat /\ OrgBudget > 0 /\ PlatformBudget \in Nat /\ PlatformBudget > 0
  BY LimitsAssumption

(* At the start nothing is there.                                            *)
LEMMA AdmissionInit == AInit => AInv
  <1> SUFFICES ASSUME AInit PROVE AInv
    OBVIOUS
  <1> USE DEF AInit
  <1>1. scene.time \in Nat /\ scene.days \in Nat \ {0}
    BY SceneTypes
  <1>2. hits \in [Orgs -> Table] /\ admitted \in [Orgs -> Table]
    <2>1. [t \in 0..scene.time |-> 0] \in Table
      BY DEF Table
    <2> QED BY <2>1
  <1>3. runs = <<>> /\ Len(runs) = 0 /\ DOMAIN runs = {} /\ runs \in Seq(RunRecord)
    OBVIOUS
  <1>4. Nobody \in Request /\ Nobody.at = "away" /\ Nobody.ticket = NoTicket
    BY <1>1, <1>3 DEF Nobody, Request, Places
  <1>5. DoorTyped
    <2>1. \A q \in Requests : req[q] = Nobody
      OBVIOUS
    <2>2. \A q \in Requests : req[q].ticket \in Tickets <=> req[q].at \in Within
      BY <1>4, <2>1, TicketsAssumption DEF Within
    <2>3. req \in [Requests -> Request]
      BY <1>4
    <2>4. clock \in 0..scene.time /\ today \in 1..scene.days /\ scene \in Scenarios
      BY <1>1
    <2> QED BY <1>2, <2>2, <2>3, <2>4 DEF DoorTyped
  <1>6. Cardinality(AnsweredRequests) = 0
    <2>1. AnsweredRequests = {}
      BY <1>4 DEF AnsweredRequests
    <2> QED BY <2>1, FS_EmptySet
  <1>7. Idle \in Hand /\ Idle.run = 0 /\ Idle.calling = FALSE
    BY DEF Idle, Hand
  <1>8. RunsTyped
    BY <1>3, <1>6, <1>7 DEF RunsTyped
  <1>9. Driven
    BY <1>3, <1>7 DEF Driven
  <1> QED BY <1>5, <1>8, <1>9 DEF AInv

(* More runs, a later clock: requests keep their type.                       *)
LEMMA RequestGrows ==
  ASSUME DoorTyped, runs \in Seq(RunRecord), scene' = scene, clock \in Nat, clock' \in Nat, clock <= clock',
         Len(runs') \in Nat, Len(runs) <= Len(runs')
  PROVE  Request \subseteq Request'
  <1>1. 0..clock \subseteq 0..clock' /\ 0..Len(runs) \subseteq 0..Len(runs')
    OBVIOUS
  <1> QED BY <1>1 DEF Request

(* A request in its place, with its ticket.                                  *)
LEMMA RequestMoves ==
  ASSUME DoorTyped, NEW q \in Requests, NEW x, x \in Request', Request \subseteq Request',
         req' = [req EXCEPT ![q] = x], x.ticket \in Tickets <=> x.at \in Within
  PROVE  /\ req' \in [Requests -> Request']
         /\ \A p \in Requests : req'[p].ticket \in Tickets <=> req'[p].at \in Within
  <1>1. req \in [Requests -> Request']
    BY DEF DoorTyped
  <1>2. req' \in [Requests -> Request']
    BY <1>1
  <1>3. \A p \in Requests : req'[p].ticket \in Tickets <=> req'[p].at \in Within
    BY DEF DoorTyped
  <1> QED BY <1>2, <1>3

(* A request that answers, or that was not answered, does not lower their    *)
(* number.                                                                   *)
LEMMA AnswersCount ==
  ASSUME AInv, NEW q \in Requests, req[q].at # "answered", NEW x, req' = [req EXCEPT ![q] = x]
  PROVE  /\ Cardinality(AnsweredRequests) \in Nat /\ Cardinality(AnsweredRequests) <= Cardinality(Requests)
         /\ Cardinality(Requests) \in Nat
         /\ Cardinality(AnsweredRequests)' \in Nat
         /\ Cardinality(AnsweredRequests)' =
              IF x.at = "answered" THEN Cardinality(AnsweredRequests) + 1 ELSE Cardinality(AnsweredRequests)
  <1>1. IsFiniteSet(Requests) /\ IsFiniteSet(AnsweredRequests)
    <2>1. AnsweredRequests \in SUBSET Requests
      BY DEF AnsweredRequests
    <2> QED BY <2>1, ScenesAssumption, FS_Subset
  <1>2. AnsweredRequests \in SUBSET Requests /\ q \notin AnsweredRequests
    BY DEF AnsweredRequests
  <1>3. AnsweredRequests' = IF x.at = "answered" THEN AnsweredRequests \cup {q} ELSE AnsweredRequests
    BY DEF AnsweredRequests, AInv, DoorTyped
  <1>4. Cardinality(AnsweredRequests) \in Nat /\ Cardinality(Requests) \in Nat
        /\ Cardinality(AnsweredRequests) <= Cardinality(Requests)
    BY <1>1, <1>2, FS_CardinalityType, FS_Subset
  <1>5. Cardinality(AnsweredRequests \cup {q}) = Cardinality(AnsweredRequests) + 1
    BY <1>1, <1>2, FS_AddElement
  <1> QED BY <1>3, <1>4, <1>5

(* Arriving, being let in or not, and looking for an open run, move only the *)
(* request and the limiter's table.                                          *)
LEMMA ArriveTypes ==
  ASSUME AInv, NEW q \in Requests, Arrive(q)
  PROVE  DoorTyped' /\ Cardinality(AnsweredRequests)' = Cardinality(AnsweredRequests)
  <1> USE DEF AInv
  <1>1. PICK t \in scene.tickets :
          req' = [req EXCEPT ![q] = [at |-> "clocked", ticket |-> t, now |-> clock, saw |-> 0]]
    BY DEF Arrive
  <1>2. /\ scene' = scene /\ clock' = clock /\ today' = today /\ hits' = hits /\ admitted' = admitted /\ runs' = runs
        /\ req[q].at = "away"
    BY DEF Arrive
  <1>3. t \in Tickets
    BY SceneTypes DEF DoorTyped
  <1>4. clock \in Nat /\ Len(runs) \in Nat
    BY SceneTypes DEF DoorTyped, RunsTyped
  <1> DEFINE x == [at |-> "clocked", ticket |-> t, now |-> clock, saw |-> 0]
  <1>5. x \in Request' /\ x.ticket = t /\ x.at = "clocked"
    BY <1>2, <1>3, <1>4 DEF Request, Places
  <1>6. Request \subseteq Request'
    BY <1>2, <1>4, RequestGrows DEF RunsTyped
  <1> HIDE DEF x
  <1>7. /\ req' \in [Requests -> Request']
        /\ \A p \in Requests : req'[p].ticket \in Tickets <=> req'[p].at \in Within
    BY <1>1, <1>3, <1>5, <1>6, RequestMoves DEF x, Within
  <1>8. Table' = Table
    BY <1>2 DEF Table
  <1>9. DoorTyped'
    BY <1>2, <1>7, <1>8 DEF DoorTyped
  <1>10. Cardinality(AnsweredRequests)' = Cardinality(AnsweredRequests)
    BY <1>1, <1>2, <1>5, AnswersCount DEF x
  <1> QED BY <1>9, <1>10

(* Answering a request keeps the requests typed, and it gives its ticket up. *)
LEMMA AnsweredTypes ==
  ASSUME AInv, NEW q \in Requests, Answered(q), Request \subseteq Request',
         Len(runs') \in Nat, clock' \in Nat
  PROVE  /\ req' \in [Requests -> Request']
         /\ \A p \in Requests : req'[p].ticket \in Tickets <=> req'[p].at \in Within
  <1> DEFINE x == [Nobody EXCEPT !.at = "answered"]
  <1>1. x \in Request' /\ x.ticket = NoTicket /\ x.at = "answered"
    BY DEF Nobody, Request, Places
  <1>2. req' = [req EXCEPT ![q] = x]
    BY DEF Answered
  <1> HIDE DEF x
  <1>3. x.ticket \in Tickets <=> x.at \in Within
    BY <1>1, TicketsAssumption DEF Within
  <1> QED BY <1>1, <1>2, <1>3, RequestMoves DEF AInv

(* One answer more, and never more answers than requests.                    *)
LEMMA AnsweredCounts ==
  ASSUME AInv, NEW q \in Requests, Answered(q), req[q].at # "answered"
  PROVE  /\ Cardinality(AnsweredRequests)' = Cardinality(AnsweredRequests) + 1
         /\ Cardinality(AnsweredRequests) \in Nat /\ Cardinality(Requests) \in Nat
         /\ Cardinality(AnsweredRequests) <= Cardinality(Requests)
  <1> DEFINE x == [Nobody EXCEPT !.at = "answered"]
  <1>1. x.at = "answered"
    BY DEF Nobody
  <1>2. req' = [req EXCEPT ![q] = x]
    BY DEF Answered
  <1> HIDE DEF x
  <1>3. /\ Cardinality(AnsweredRequests)' =
             IF x.at = "answered" THEN Cardinality(AnsweredRequests) + 1 ELSE Cardinality(AnsweredRequests)
        /\ Cardinality(AnsweredRequests) \in Nat /\ Cardinality(Requests) \in Nat
        /\ Cardinality(AnsweredRequests) <= Cardinality(Requests)
    BY <1>2, AnswersCount
  <1> QED BY <1>1, <1>3

(* One more in a table of counts.                                            *)
LEMMA TableCounts ==
  ASSUME NEW f \in Table, NEW t \in 0..scene.time
  PROVE  [f EXCEPT ![t] = @ + 1] \in Table
  <1>1. f[t] + 1 \in Nat
    BY DEF Table
  <1> QED BY <1>1 DEF Table

(* What the window leaves of a table.                                        *)
LEMMA RecentTypes ==
  ASSUME DoorTyped, NEW o \in Orgs, NEW now \in 0..scene.time
  PROVE  Recent(o, now) \in Table /\ [Recent(o, now) EXCEPT ![now] = @ + 1] \in Table
  <1>1. \A t \in 0..scene.time : hits[o][t] \in Nat
    BY DEF DoorTyped, Table
  <1>2. Recent(o, now) \in Table
    BY <1>1 DEF Recent, Table
  <1> QED BY <1>2, TableCounts

(* What the limiter writes keeps the types of the requests, hits and clock.  *)
LEMMA AllowTypes ==
  ASSUME AInv, NEW q \in Requests, Allow(q)
  PROVE  /\ DoorTyped' /\ Cardinality(AnsweredRequests)' >= Cardinality(AnsweredRequests)
         /\ Cardinality(AnsweredRequests) \in Nat /\ Cardinality(AnsweredRequests)' \in Nat
  <1> USE DEF AInv
  <1> DEFINE now == req[q].now
             o == OrgOf[req[q].ticket]
  <1>1. /\ scene' = scene /\ clock' = clock /\ today' = today /\ runs' = runs
        /\ req[q].at = "clocked"
    BY DEF Allow
  <1>2. clock \in Nat /\ Len(runs) \in Nat /\ clock \in 0..scene.time
    BY SceneTypes DEF DoorTyped, RunsTyped
  <1>3. Request \subseteq Request' /\ Table' = Table
    BY <1>1, <1>2, RequestGrows DEF RunsTyped, Table
  <1>4. req[q] \in Request /\ now \in 0..clock /\ req[q].ticket \in Tickets
    BY <1>1 DEF DoorTyped, Request, Within
  <1>5. o \in Orgs /\ now \in 0..scene.time
    <2>1. o \in Orgs
      BY <1>4 DEF Orgs
    <2>2. scene.time \in Nat
      BY SceneTypes DEF DoorTyped
    <2> QED BY <1>2, <1>4, <2>1, <2>2
  <1>6. Recent(o, now) \in Table /\ [Recent(o, now) EXCEPT ![now] = @ + 1] \in Table
    BY <1>5, RecentTypes
  <1>7. CASE Answered(q) /\ hits' = [hits EXCEPT ![o] = Recent(o, now)] /\ admitted' = admitted
    <2>1. /\ req' \in [Requests -> Request']
          /\ \A p \in Requests : req'[p].ticket \in Tickets <=> req'[p].at \in Within
      BY <1>1, <1>2, <1>3, <1>7, AnsweredTypes
    <2>2. hits' \in [Orgs -> Table] /\ admitted' \in [Orgs -> Table]
      BY <1>6, <1>7 DEF DoorTyped
    <2>3. DoorTyped'
      BY <1>1, <1>3, <2>1, <2>2 DEF DoorTyped
    <2> QED BY <1>1, <1>7, <2>3, AnsweredCounts
  <1>8. CASE /\ hits' = [hits EXCEPT ![o] = [Recent(o, now) EXCEPT ![now] = @ + 1]]
             /\ req' = [req EXCEPT ![q].at = "admitted", ![q].now = 0]
             /\ admitted' = IF now = clock THEN [admitted EXCEPT ![o][now] = @ + 1] ELSE admitted
    <2>1. PICK x : x = [[req[q] EXCEPT !.at = "admitted"] EXCEPT !.now = 0]
      OBVIOUS
    <2>2. x \in Request /\ x.ticket = req[q].ticket /\ x.at = "admitted"
      <3>1. PICK y : y = [req[q] EXCEPT !.at = "admitted"]
        OBVIOUS
      <3>2. y \in Request /\ y.ticket = req[q].ticket /\ y.at = "admitted"
        BY <1>4, <3>1 DEF Request, Places
      <3>3. x = [y EXCEPT !.now = 0] /\ 0 \in 0..clock
        BY <1>2, <2>1, <3>1
      <3> QED BY <3>2, <3>3 DEF Request
    <2>3. req' = [req EXCEPT ![q] = x]
      BY <1>8, <2>1 DEF DoorTyped
    <2>4. x.ticket \in Tickets <=> x.at \in Within
      BY <1>4, <2>2 DEF Within
    <2>5. /\ req' \in [Requests -> Request']
          /\ \A p \in Requests : req'[p].ticket \in Tickets <=> req'[p].at \in Within
      BY <1>3, <2>2, <2>3, <2>4, RequestMoves
    <2>6. hits' \in [Orgs -> Table]
      BY <1>6, <1>8 DEF DoorTyped
    <2>7. admitted' \in [Orgs -> Table]
      <3>1. [admitted[o] EXCEPT ![now] = @ + 1] \in Table
        <4>1. admitted[o] \in Table
          BY <1>5 DEF DoorTyped
        <4> HIDE DEF o, now
        <4> QED BY <1>5, <4>1, TableCounts
      <3>2. CASE now = clock
        <4>1. admitted' = [admitted EXCEPT ![o] = [admitted[o] EXCEPT ![now] = @ + 1]]
          BY <1>8, <3>2
        <4> HIDE DEF now, o
        <4> QED BY <3>1, <4>1 DEF DoorTyped
      <3>3. CASE now # clock
        BY <1>8, <3>3 DEF DoorTyped
      <3> QED BY <3>2, <3>3
    <2>8. DoorTyped'
      BY <1>1, <1>3, <2>5, <2>6, <2>7 DEF DoorTyped
    <2>9. /\ Cardinality(AnsweredRequests)' = Cardinality(AnsweredRequests)
          /\ Cardinality(AnsweredRequests) \in Nat
      BY <1>1, <2>2, <2>3, AnswersCount
    <2> QED BY <2>8, <2>9
  <1> QED BY <1>7, <1>8 DEF Allow

(* A look for an open run keeps the types of the requests, hits and clock.   *)
LEMMA LookUpTypes ==
  ASSUME AInv, NEW q \in Requests, LookUp(q)
  PROVE  /\ DoorTyped' /\ Cardinality(AnsweredRequests)' >= Cardinality(AnsweredRequests)
         /\ Cardinality(AnsweredRequests) \in Nat /\ Cardinality(AnsweredRequests)' \in Nat
  <1> USE DEF AInv
  <1>1. /\ scene' = scene /\ clock' = clock /\ today' = today /\ runs' = runs
        /\ hits' = hits /\ admitted' = admitted /\ req[q].at = "admitted"
    BY DEF LookUp
  <1>2. clock \in Nat /\ Len(runs) \in Nat
    BY SceneTypes DEF DoorTyped, RunsTyped
  <1>3. Request \subseteq Request' /\ Table' = Table
    BY <1>1, <1>2, RequestGrows DEF RunsTyped, Table
  <1>4. req[q] \in Request /\ req[q].ticket \in Tickets
    BY <1>1 DEF DoorTyped, Within
  <1>5. CASE Answered(q)
    <2>1. /\ req' \in [Requests -> Request']
          /\ \A p \in Requests : req'[p].ticket \in Tickets <=> req'[p].at \in Within
      BY <1>1, <1>2, <1>3, <1>5, AnsweredTypes
    <2>2. DoorTyped'
      BY <1>1, <1>3, <2>1 DEF DoorTyped
    <2> QED BY <1>1, <1>5, <2>2, AnsweredCounts
  <1>6. CASE req' = [req EXCEPT ![q].at = "clear", ![q].saw = Len(runs)]
    <2>1. PICK x : x = [[req[q] EXCEPT !.at = "clear"] EXCEPT !.saw = Len(runs)]
      OBVIOUS
    <2>2. x \in Request /\ x.ticket = req[q].ticket /\ x.at = "clear"
      <3>1. PICK y : y = [req[q] EXCEPT !.at = "clear"]
        OBVIOUS
      <3>2. y \in Request /\ y.ticket = req[q].ticket /\ y.at = "clear"
        BY <1>4, <3>1 DEF Request, Places
      <3>3. x = [y EXCEPT !.saw = Len(runs)] /\ Len(runs) \in 0..Len(runs)
        BY <1>2, <2>1, <3>1
      <3> QED BY <3>2, <3>3 DEF Request
    <2>3. req' = [req EXCEPT ![q] = x]
      BY <1>6, <2>1 DEF DoorTyped
    <2>4. x.ticket \in Tickets <=> x.at \in Within
      BY <1>4, <2>2 DEF Within
    <2>5. /\ req' \in [Requests -> Request']
          /\ \A p \in Requests : req'[p].ticket \in Tickets <=> req'[p].at \in Within
      BY <1>3, <2>2, <2>3, <2>4, RequestMoves
    <2>6. DoorTyped'
      BY <1>1, <1>3, <2>5 DEF DoorTyped
    <2>7. /\ Cardinality(AnsweredRequests)' = Cardinality(AnsweredRequests)
          /\ Cardinality(AnsweredRequests) \in Nat
      BY <1>1, <2>2, <2>3, AnswersCount
    <2> QED BY <2>6, <2>7
  <1> QED BY <1>5, <1>6 DEF LookUp

(* A run is inserted as it was asked for, by a request that is answered then. *)
LEMMA InsertTypes ==
  ASSUME AInv, NEW q \in Requests, Insert(q)
  PROVE  /\ DoorTyped' /\ RunsTyped' /\ Fresh(q) \in RunRecord
         /\ Len(runs') = Len(runs) + 1 /\ \A r \in DOMAIN runs : runs'[r] = runs[r]
         /\ DOMAIN runs' = DOMAIN runs \cup {Len(runs) + 1} /\ runs'[Len(runs) + 1] = Fresh(q)
  <1> USE DEF AInv
  <1>1. /\ scene' = scene /\ clock' = clock /\ today' = today /\ busy' = busy
        /\ hits' = hits /\ admitted' = admitted /\ req[q].at = "clear"
        /\ Answered(q) /\ runs' = Append(runs, Fresh(q))
    BY DEF Insert
  <1>2. clock \in Nat /\ Len(runs) \in Nat
    BY SceneTypes DEF DoorTyped, RunsTyped
  <1>3. req[q] \in Request /\ req[q].ticket \in Tickets /\ req[q].saw \in 0..Len(runs)
    BY <1>1 DEF DoorTyped, Request, Within
  <1>4. /\ Cardinality(AnsweredRequests)' = Cardinality(AnsweredRequests) + 1
        /\ Cardinality(AnsweredRequests) \in Nat /\ Cardinality(Requests) \in Nat
        /\ Cardinality(AnsweredRequests) <= Cardinality(Requests)
    BY <1>1, AnsweredCounts
  <1>5. Fresh(q) \in RunRecord
    <2>1. req[q].saw \in 0..Cardinality(Requests)
      BY <1>2, <1>3, <1>4 DEF RunsTyped
    <2>2. scene.steps \in Nat /\ today \in 1..scene.days
      BY SceneTypes DEF DoorTyped
    <2> QED BY <1>3, <2>1, <2>2 DEF Fresh, RunRecord, Statuses
  <1>6. /\ Len(runs') = Len(runs) + 1 /\ \A r \in DOMAIN runs : runs'[r] = runs[r]
        /\ DOMAIN runs' = DOMAIN runs \cup {Len(runs) + 1} /\ runs'[Len(runs) + 1] = Fresh(q)
        /\ runs' \in Seq(RunRecord)
    <2> HIDE DEF Fresh, RunRecord
    <2> QED BY <1>1, <1>2, <1>5 DEF RunsTyped
  <1>7. Request \subseteq Request' /\ Table' = Table
    BY <1>1, <1>2, <1>6, RequestGrows DEF RunsTyped, Table
  <1>8. /\ req' \in [Requests -> Request']
        /\ \A p \in Requests : req'[p].ticket \in Tickets <=> req'[p].at \in Within
    BY <1>1, <1>2, <1>6, <1>7, AnsweredTypes
  <1>9. DoorTyped'
    BY <1>1, <1>7, <1>8 DEF DoorTyped
  <1>10. RunsTyped'
    <2>1. RunRecord' = RunRecord
      BY <1>1 DEF RunRecord
    <2>2. Hand \subseteq Hand'
      BY <1>6 DEF Hand
    <2>3. Len(runs') <= Cardinality(AnsweredRequests)'
      BY <1>2, <1>4, <1>6 DEF RunsTyped
    <2> QED BY <1>1, <1>6, <2>1, <2>2, <2>3 DEF RunsTyped
  <1> QED BY <1>5, <1>6, <1>9, <1>10

(* Time passes within the scene, and no request is answered by it.           *)
LEMMA ClockTypes ==
  ASSUME AInv, Tick \/ Midnight
  PROVE  DoorTyped' /\ AnsweredRequests' = AnsweredRequests
  <1> USE DEF AInv
  <1>1. scene' = scene /\ runs' = runs /\ req' = req /\ hits' = hits /\ admitted' = admitted
    BY DEF Tick, Midnight, door
  <1>2. scene.time \in Nat /\ scene.days \in Nat /\ clock \in Nat /\ today \in Nat
    BY SceneTypes DEF DoorTyped
  <1>3. clock' \in 0..scene.time /\ clock <= clock' /\ today' \in 1..scene.days
    BY <1>2 DEF Tick, Midnight, door, DoorTyped
  <1>4. Len(runs) \in Nat
    BY DEF RunsTyped
  <1>5. Request \subseteq Request' /\ Table' = Table
    BY <1>1, <1>2, <1>3, <1>4, RequestGrows DEF RunsTyped, Table
  <1>6. DoorTyped'
    BY <1>1, <1>3, <1>5 DEF DoorTyped
  <1> QED BY <1>1, <1>6 DEF AnsweredRequests

(* A written run is one of the runs still.                                   *)
LEMMA WriteTypes ==
  ASSUME AInv, UNCHANGED <<scene, door, today>>, NEW r, NEW x, Written(r, x), busy' \in [Workers -> Hand]
  PROVE  /\ DoorTyped' /\ RunsTyped' /\ Len(runs') = Len(runs) /\ DOMAIN runs' = DOMAIN runs
         /\ runs'[r] = x /\ \A s \in DOMAIN runs : s # r => runs'[s] = runs[s]
  <1> USE DEF AInv
  <1>1. /\ scene' = scene /\ today' = today /\ clock' = clock /\ hits' = hits /\ admitted' = admitted /\ req' = req
    BY DEF door
  <1>2. /\ Len(runs') = Len(runs) /\ DOMAIN runs' = DOMAIN runs /\ runs' \in Seq(RunRecord)
        /\ runs'[r] = x /\ \A s \in DOMAIN runs : s # r => runs'[s] = runs[s]
    <2> HIDE DEF RunRecord
    <2> QED BY DEF Written, RunsTyped
  <1>3. RunRecord' = RunRecord /\ Table' = Table /\ Request' = Request /\ Hand' = Hand
        /\ AnsweredRequests' = AnsweredRequests
    BY <1>1, <1>2 DEF RunRecord, Table, Request, Hand, AnsweredRequests
  <1>4. DoorTyped'
    BY <1>1, <1>3 DEF DoorTyped
  <1>5. RunsTyped'
    BY <1>2, <1>3 DEF RunsTyped
  <1> QED BY <1>2, <1>4, <1>5

(* Nothing but the worker's hands changes.                                   *)
LEMMA HandTypes ==
  ASSUME AInv, UNCHANGED <<scene, door, today, runs>>, busy' \in [Workers -> Hand]
  PROVE  DoorTyped' /\ RunsTyped'
  <1> USE DEF AInv
  <1>1. /\ scene' = scene /\ today' = today /\ clock' = clock /\ hits' = hits /\ admitted' = admitted /\ req' = req
        /\ runs' = runs
    BY DEF door
  <1>2. RunRecord' = RunRecord /\ Table' = Table /\ Request' = Request /\ Hand' = Hand
        /\ AnsweredRequests' = AnsweredRequests
    BY <1>1 DEF RunRecord, Table, Request, Hand, AnsweredRequests
  <1> QED BY <1>1, <1>2 DEF DoorTyped, RunsTyped

(* A run has the fields of a run, and each may be written for itself.        *)
LEMMA RunFields ==
  ASSUME NEW a \in RunRecord
  PROVE  /\ a.ticket \in Tickets /\ a.status \in Statuses /\ a.day \in 1..scene.days /\ a.cost \in Nat
         /\ a.early \in Nat /\ a.steps \in 0..(scene.steps + 1) /\ a.owes \in BOOLEAN
         /\ a.cancelling \in BOOLEAN /\ a.saw \in 0..Cardinality(Requests)
  BY DEF RunRecord

(* A run whose status is written keeps the rest and, once ended, has ended.  *)
LEMMA StatusWritten ==
  ASSUME NEW a \in RunRecord, NEW s \in Statuses, NEW x, x = [a EXCEPT !.status = s],
         a.status \in Ended => s \in Ended, a.steps \in Int
  PROVE  /\ x \in RunRecord /\ Kept(a, x) /\ x.status = s
         /\ x.steps = a.steps /\ x.owes = a.owes /\ x.cost = a.cost /\ x.early = a.early /\ x.cancelling = a.cancelling
  <1>1. x \in RunRecord
    BY DEF RunRecord
  <1>2. /\ x.status = s /\ x.steps = a.steps /\ x.owes = a.owes /\ x.cost = a.cost /\ x.early = a.early
        /\ x.ticket = a.ticket /\ x.day = a.day /\ x.saw = a.saw /\ x.cancelling = a.cancelling
    BY DEF RunRecord
  <1> QED BY <1>1, <1>2 DEF Kept

(* A run whose cancel flag is written keeps everything else.                 *)
LEMMA CancellingWritten ==
  ASSUME NEW a \in RunRecord, NEW b \in BOOLEAN, NEW x, x = [a EXCEPT !.cancelling = b], a.steps \in Int
  PROVE  /\ x \in RunRecord /\ Kept(a, x) /\ x.status = a.status
         /\ x.steps = a.steps /\ x.owes = a.owes /\ x.cost = a.cost /\ x.early = a.early
  <1>1. x \in RunRecord
    BY DEF RunRecord
  <1>2. /\ x.status = a.status /\ x.steps = a.steps /\ x.owes = a.owes /\ x.cost = a.cost /\ x.early = a.early
        /\ x.ticket = a.ticket /\ x.day = a.day /\ x.saw = a.saw
    BY DEF RunRecord
  <1> QED BY <1>1, <1>2 DEF Kept

(* A reply is charged to its run.                                            *)
LEMMA ChargedWritten ==
  ASSUME NEW a \in RunRecord, NEW c \in Nat, NEW s \in Statuses, NEW n \in Nat, a.steps + n <= scene.steps + 1,
         scene.steps \in Nat, a.status = "running"
  PROVE  LET x == Charged(a, c, s, n) IN
         /\ x \in RunRecord /\ Kept(a, x) /\ x.status = s /\ x.steps = a.steps + n /\ x.owes = (s = "running")
         /\ x.cost = a.cost + c /\ x.early = IF a.day = today THEN a.early + c ELSE a.early
  <1>1. PICK y1 : y1 = [a EXCEPT !.cost = a.cost + c]
    OBVIOUS
  <1>2. PICK y2 : y2 = [y1 EXCEPT !.early = IF a.day = today THEN a.early + c ELSE a.early]
    OBVIOUS
  <1>3. PICK y3 : y3 = [y2 EXCEPT !.status = s]
    OBVIOUS
  <1>4. PICK y4 : y4 = [y3 EXCEPT !.steps = a.steps + n]
    OBVIOUS
  <1>5. PICK y5 : y5 = [y4 EXCEPT !.owes = (s = "running")]
    OBVIOUS
  <1>6. y5 = Charged(a, c, s, n)
    BY <1>1, <1>2, <1>3, <1>4, <1>5 DEF Charged, RunRecord
  <1>7. /\ y1 \in RunRecord /\ y1.cost = a.cost + c /\ y1.early = a.early /\ y1.steps = a.steps
        /\ y1.ticket = a.ticket /\ y1.day = a.day /\ y1.saw = a.saw
    BY <1>1 DEF RunRecord
  <1>8. /\ y2 \in RunRecord /\ y2.cost = a.cost + c /\ y2.early = IF a.day = today THEN a.early + c ELSE a.early
        /\ y2.steps = a.steps /\ y2.ticket = a.ticket /\ y2.day = a.day /\ y2.saw = a.saw
    BY <1>2, <1>7 DEF RunRecord
  <1>9. /\ y3 \in RunRecord /\ y3.cost = y2.cost /\ y3.early = y2.early /\ y3.status = s
        /\ y3.steps = a.steps /\ y3.ticket = a.ticket /\ y3.day = a.day /\ y3.saw = a.saw
    BY <1>3, <1>8 DEF RunRecord
  <1>10. /\ y4 \in RunRecord /\ y4.cost = y2.cost /\ y4.early = y2.early /\ y4.status = s
         /\ y4.steps = a.steps + n /\ y4.ticket = a.ticket /\ y4.day = a.day /\ y4.saw = a.saw
    <2>1. a.steps + n \in 0..(scene.steps + 1)
      BY DEF RunRecord
    <2> QED BY <1>4, <1>9, <2>1 DEF RunRecord
  <1>11. /\ y5 \in RunRecord /\ y5.cost = y2.cost /\ y5.early = y2.early /\ y5.status = s
         /\ y5.steps = a.steps + n /\ y5.ticket = a.ticket /\ y5.day = a.day /\ y5.saw = a.saw
         /\ y5.owes = (s = "running")
    BY <1>5, <1>10 DEF RunRecord
  <1>12. a.steps <= a.steps + n /\ a.status \notin Ended
    BY RunFields DEF Ended
  <1>13. Kept(a, y5)
    BY <1>11, <1>12 DEF Kept
  <1> QED BY <1>6, <1>8, <1>11, <1>13

(* What becomes of the runs in a step.                                       *)
RunsMove ==
  \/ runs' = runs
  \/ \E q \in Requests : Insert(q)
  \/ \E r \in DOMAIN runs : \E x \in RunRecord : Written(r, x)

(* A run in hand is a run.                                                   *)
LEMMA HandTyped ==
  ASSUME AInv, NEW w \in Workers
  PROVE  /\ busy[w] \in Hand /\ busy[w].calling \in BOOLEAN
         /\ busy[w].run # 0 => busy[w].run \in DOMAIN runs /\ runs[busy[w].run] \in RunRecord
         /\ scene.steps \in Nat /\ 0 \notin DOMAIN runs
         /\ \A r \in DOMAIN runs : runs[r] \in RunRecord /\ runs[r].steps \in Int
  <1>1. runs \in Seq(RunRecord) /\ busy[w] \in Hand
    BY DEF AInv, RunsTyped
  <1>2. \A r \in DOMAIN runs : runs[r] \in RunRecord
    <2> HIDE DEF RunRecord
    <2> QED BY <1>1
  <1>3. 0 \notin DOMAIN runs
    BY <1>1
  <1>4. scene.steps \in Nat
    BY SceneTypes DEF AInv, DoorTyped
  <1>5. \A r \in DOMAIN runs : runs[r].steps \in Int
    BY <1>2, <1>4, RunFields
  <1> QED BY <1>1, <1>2, <1>3, <1>4, <1>5 DEF Hand

(* Each worker keeps what it has in hand, puts it down, or has the written   *)
(* run in hand, as it may.                                                   *)
LEMMA DrivenAfter ==
  ASSUME AInv, scene' = scene, NEW r \in DOMAIN runs, NEW x,
         DOMAIN runs' = DOMAIN runs, runs'[r] = x, \A s \in DOMAIN runs : s # r => runs'[s] = runs[s],
         busy' \in [Workers -> Hand],
         x.owes => x.steps <= scene.steps,
         \A v \in Workers : busy'[v] = busy[v] \/ busy'[v] = Idle \/ busy'[v].run = r,
         \A v \in Workers : busy'[v].run = r =>
            /\ x.status \in {"running"} \cup Ended
            /\ busy'[v].calling => x.steps < scene.steps /\ x.cost < RunCap,
         \A u, v \in Workers : busy'[u].run = busy'[v].run => u = v \/ busy'[u].run = 0
  PROVE  Driven'
  <1>1. Idle.run = 0 /\ Idle.calling = FALSE
    BY DEF Idle
  <1>2. r # 0
    BY DEF AInv, RunsTyped
  <1>3. \A v \in Workers : busy'[v].run # 0 => busy'[v].run \in DOMAIN runs
    BY DEF Hand
  <1>4. Driven
    BY DEF AInv
  <1>5. \A v \in Workers : busy'[v].run # 0 => runs'[busy'[v].run].status \in {"running"} \cup Ended
    BY <1>1, <1>3, <1>4 DEF Driven
  <1>6. \A v \in Workers : busy'[v].calling =>
          busy'[v].run # 0 /\ runs'[busy'[v].run].steps < scene.steps /\ runs'[busy'[v].run].cost < RunCap
    BY <1>1, <1>2, <1>3, <1>4 DEF Driven
  <1>7. \A s \in DOMAIN runs' : runs'[s].owes => runs'[s].steps <= scene.steps
    BY <1>4 DEF Driven
  <1> QED BY <1>5, <1>6, <1>7 DEF Driven

(* Workers that take no new run still drive runs of their own.               *)
LEMMA StillApart ==
  ASSUME AInv, \A v \in Workers : busy'[v].run \in {0, busy[v].run}
  PROVE  \A u, v \in Workers : busy'[u].run = busy'[v].run => u = v \/ busy'[u].run = 0
  BY DEF AInv, Driven

(* Each action of a worker, and of the people.                               *)
LEMMA ClaimStep ==
  ASSUME AInv, NEW w \in Workers, Claim(w)
  PROVE  AInv' /\ RunsMove
  <1>1. PICK r \in DOMAIN runs :
          /\ runs[r].status = "queued"
          /\ runs' = [runs EXCEPT ![r].status = "running"]
          /\ busy' = [busy EXCEPT ![w] = [run |-> r, calling |-> FALSE]]
    BY DEF Claim
  <1>2. UNCHANGED <<scene, door, today>> /\ busy[w] = Idle
    BY DEF Claim
  <1>3. PICK x : x = [runs[r] EXCEPT !.status = "running"]
    OBVIOUS
  <1>4. runs[r] \in RunRecord /\ runs[r].steps \in Int
    BY HandTyped
  <1>5. /\ x \in RunRecord /\ Kept(runs[r], x) /\ x.status = "running"
        /\ x.steps = runs[r].steps /\ x.owes = runs[r].owes
    BY <1>1, <1>3, <1>4, StatusWritten DEF Ended, Statuses
  <1>6. Written(r, x)
    BY <1>1, <1>3, <1>5 DEF Written
  <1>7. busy' \in [Workers -> Hand]
    <2>1. [run |-> r, calling |-> FALSE] \in Hand
      BY DEF Hand
    <2> QED BY <1>1, <2>1 DEF AInv, RunsTyped
  <1>8. /\ DoorTyped' /\ RunsTyped' /\ DOMAIN runs' = DOMAIN runs /\ runs'[r] = x
        /\ \A s \in DOMAIN runs : s # r => runs'[s] = runs[s]
    BY <1>2, <1>6, <1>7, WriteTypes
  <1>9. \A v \in Workers : v # w => busy'[v] = busy[v] /\ busy[v].run # r
    BY <1>1 DEF AInv, RunsTyped, Driven, Ended
  <1>10. busy'[w] = [run |-> r, calling |-> FALSE]
    BY <1>1 DEF AInv, RunsTyped
  <1>11. Driven'
    <2>1. \A v \in Workers : busy'[v] = busy[v] \/ busy'[v] = Idle \/ busy'[v].run = r
      BY <1>9, <1>10
    <2>2. \A v \in Workers : busy'[v].run = r =>
            /\ x.status \in {"running"} \cup Ended
            /\ busy'[v].calling => x.steps < scene.steps /\ x.cost < RunCap
      BY <1>5, <1>9, <1>10
    <2>3. \A u, v \in Workers : busy'[u].run = busy'[v].run => u = v \/ busy'[u].run = 0
      BY <1>9, <1>10 DEF AInv, Driven
    <2>4. x.owes => x.steps <= scene.steps
      BY <1>5 DEF AInv, Driven
    <2>5. scene' = scene
      BY <1>2
    <2> QED BY <1>7, <1>8, <2>1, <2>2, <2>3, <2>4, <2>5, DrivenAfter
  <1> QED BY <1>5, <1>6, <1>8, <1>11 DEF AInv, RunsMove

(* A worker that writes its run goes on with it, or puts it down.            *)
LEMMA OwnRunStep ==
  ASSUME AInv, NEW w \in Workers, NEW r \in DOMAIN runs, busy[w].run = r, NEW x \in RunRecord,
         Kept(runs[r], x), UNCHANGED <<scene, door, today>>, runs' = [runs EXCEPT ![r] = x],
         x.owes => x.steps <= scene.steps,
         \/ PutDown(w)
         \/ x.status = "running" /\ busy' = [busy EXCEPT ![w] = [run |-> r, calling |-> FALSE]]
  PROVE  AInv' /\ RunsMove
  <1>1. Written(r, x)
    BY DEF Written
  <1>2. busy' \in [Workers -> Hand]
    <2>1. [run |-> r, calling |-> FALSE] \in Hand /\ Idle \in Hand
      BY DEF Hand, Idle
    <2> QED BY <2>1 DEF AInv, RunsTyped, PutDown
  <1>3. /\ DoorTyped' /\ RunsTyped' /\ DOMAIN runs' = DOMAIN runs /\ runs'[r] = x
        /\ \A s \in DOMAIN runs : s # r => runs'[s] = runs[s]
    BY <1>1, <1>2, WriteTypes
  <1>4. r # 0
    BY HandTyped
  <1>5. \A v \in Workers : v # w => busy'[v] = busy[v] /\ busy[v].run # r
    BY <1>4 DEF AInv, RunsTyped, Driven, PutDown
  <1>6. busy'[w] = Idle \/ (x.status = "running" /\ busy'[w] = [run |-> r, calling |-> FALSE])
    BY DEF AInv, RunsTyped, PutDown
  <1>7. \A v \in Workers : busy'[v] = busy[v] \/ busy'[v] = Idle \/ busy'[v].run = r
    BY <1>5, <1>6
  <1>8. \A v \in Workers : busy'[v].run = r =>
          /\ x.status \in {"running"} \cup Ended
          /\ busy'[v].calling => x.steps < scene.steps /\ x.cost < RunCap
    BY <1>4, <1>5, <1>6 DEF Idle
  <1>9. \A v \in Workers : busy'[v].run \in {0, busy[v].run}
    BY <1>5, <1>6 DEF Idle
  <1>10. Driven'
    BY <1>2, <1>3, <1>7, <1>8, <1>9, DrivenAfter, StillApart
  <1> QED BY <1>1, <1>3, <1>10 DEF AInv, RunsMove

(* A worker that finds the budget spent keeps AInv and only ends its run.    *)
LEMMA ExhaustStep ==
  ASSUME AInv, NEW w \in Workers, Exhaust(w)
  PROVE  AInv' /\ RunsMove
  <1> DEFINE r == busy[w].run
  <1>1. /\ r # 0 /\ runs' = [runs EXCEPT ![r].status = "exhausted"] /\ PutDown(w)
        /\ UNCHANGED <<scene, door, today>>
    BY DEF Exhaust, Turn
  <1>2. r \in DOMAIN runs /\ runs[r] \in RunRecord /\ runs[r].steps \in Int
    BY <1>1, HandTyped
  <1> HIDE DEF r
  <1>3. PICK x : x = [runs[r] EXCEPT !.status = "exhausted"]
    OBVIOUS
  <1>4. x \in RunRecord /\ Kept(runs[r], x) /\ x.steps = runs[r].steps /\ x.owes = runs[r].owes
    BY <1>2, <1>3, StatusWritten DEF Ended, Statuses
  <1>5. x.owes => x.steps <= scene.steps
    BY <1>2, <1>4 DEF AInv, Driven
  <1>6. runs' = [runs EXCEPT ![r] = x]
    BY <1>1, <1>2, <1>3
  <1>7. busy[w].run = r
    BY DEF r
  <1> QED BY <1>1, <1>2, <1>4, <1>5, <1>6, <1>7, OwnRunStep

(* A recorded reply keeps AInv: it adds a step and a cost to a run on.       *)
LEMMA RecordReplyStep ==
  ASSUME AInv, NEW w \in Workers, RecordReply(w)
  PROVE  AInv' /\ RunsMove
  <1> DEFINE r == busy[w].run
  <1>1. /\ r # 0 /\ busy[w].calling /\ runs[r].status = "running"
        /\ UNCHANGED <<scene, door, today>>
    BY DEF RecordReply
  <1>2. r \in DOMAIN runs /\ runs[r] \in RunRecord /\ runs[r].steps \in Int /\ scene.steps \in Nat
    BY <1>1, HandTyped
  <1>3. runs[r].steps < scene.steps
    BY <1>1 DEF AInv, Driven
  <1>4. PICK c \in Costs :
          \/ runs' = [runs EXCEPT ![r] = Charged(runs[r], c, "running", 1)] /\ busy' = [busy EXCEPT ![w].calling = FALSE]
          \/ runs' = [runs EXCEPT ![r] = Charged(runs[r], c, "succeeded", 2)] /\ PutDown(w)
          \/ runs' = [runs EXCEPT ![r] = Charged(runs[r], c, "failed", 1)] /\ PutDown(w)
    BY <1>1, <1>2 DEF RecordReply
  <1>5. c \in Nat
    BY LimitsAssumption
  <1> HIDE DEF r
  <1>6. ASSUME NEW s \in {"running", "succeeded", "failed"}, NEW n \in {1, 2}
        PROVE  LET x == Charged(runs[r], c, s, n) IN
               /\ x \in RunRecord /\ Kept(runs[r], x) /\ x.status = s /\ x.steps = runs[r].steps + n
               /\ x.owes = (s = "running")
    <2>1. runs[r].steps + n <= scene.steps + 1 /\ s \in Statuses /\ n \in Nat
      BY <1>2, <1>3 DEF Statuses
    <2> QED BY <1>1, <1>2, <1>5, <2>1, ChargedWritten
  <1>7. busy[w].run = r
    BY DEF r
  <1>8. CASE runs' = [runs EXCEPT ![r] = Charged(runs[r], c, "running", 1)] /\ busy' = [busy EXCEPT ![w].calling = FALSE]
    <2>1. PICK x : x = Charged(runs[r], c, "running", 1)
      OBVIOUS
    <2>2. x \in RunRecord /\ Kept(runs[r], x) /\ x.status = "running" /\ x.steps = runs[r].steps + 1
      BY <1>6, <2>1
    <2>3. x.owes => x.steps <= scene.steps
      BY <1>2, <1>3, <2>2
    <2>4. [busy[w] EXCEPT !.calling = FALSE] = [run |-> r, calling |-> FALSE]
      <3>1. PICK h \in Hand : h = busy[w]
        BY HandTyped
      <3>2. PICK k : k = [h EXCEPT !.calling = FALSE]
        OBVIOUS
      <3>3. k \in Hand /\ k.run = h.run /\ k.calling = FALSE
        BY <3>2 DEF Hand
      <3>4. k = [run |-> k.run, calling |-> k.calling]
        BY <3>3 DEF Hand
      <3> QED BY <1>7, <3>1, <3>2, <3>3, <3>4
    <2>5. busy' = [busy EXCEPT ![w] = [run |-> r, calling |-> FALSE]]
      BY <1>8, <2>4 DEF AInv, RunsTyped
    <2> QED BY <1>1, <1>2, <1>7, <1>8, <2>1, <2>2, <2>3, <2>5, OwnRunStep
  <1>9. CASE runs' = [runs EXCEPT ![r] = Charged(runs[r], c, "succeeded", 2)] /\ PutDown(w)
    <2>1. PICK x : x = Charged(runs[r], c, "succeeded", 2)
      OBVIOUS
    <2>2. x \in RunRecord /\ Kept(runs[r], x) /\ ~x.owes
      BY <1>6, <2>1
    <2> QED BY <1>1, <1>2, <1>7, <1>9, <2>1, <2>2, OwnRunStep
  <1>10. CASE runs' = [runs EXCEPT ![r] = Charged(runs[r], c, "failed", 1)] /\ PutDown(w)
    <2>1. PICK x : x = Charged(runs[r], c, "failed", 1)
      OBVIOUS
    <2>2. x \in RunRecord /\ Kept(runs[r], x) /\ ~x.owes
      BY <1>6, <2>1
    <2> QED BY <1>1, <1>2, <1>7, <1>10, <2>1, <2>2, OwnRunStep
  <1> QED BY <1>4, <1>8, <1>9, <1>10

(* A worker that ends or parks its run keeps AInv.                           *)
LEMMA SettleStep ==
  ASSUME AInv, NEW w \in Workers, Settle(w)
  PROVE  AInv' /\ RunsMove
  <1> DEFINE r == busy[w].run
  <1>1. /\ r # 0 /\ ~busy[w].calling /\ runs[r].status = "running" /\ runs[r].owes
        /\ UNCHANGED <<scene, door, today>>
    BY DEF Settle, Turn
  <1>2. r \in DOMAIN runs /\ runs[r] \in RunRecord /\ runs[r].steps \in Int /\ scene.steps \in Nat
    BY <1>1, HandTyped
  <1>3. runs[r].steps <= scene.steps
    BY <1>1, <1>2 DEF AInv, Driven
  <1>4. \/ runs' = [runs EXCEPT ![r].steps = @ + 1, ![r].owes = FALSE] /\ busy' = busy
        \/ runs' = [runs EXCEPT ![r].status = "awaiting_approval"] /\ PutDown(w)
    BY DEF Settle
  <1> HIDE DEF r
  <1>5. busy[w].run = r
    BY DEF r
  <1>6. CASE runs' = [runs EXCEPT ![r].steps = @ + 1, ![r].owes = FALSE] /\ busy' = busy
    <2>1. PICK y : y = [runs[r] EXCEPT !.steps = runs[r].steps + 1]
      OBVIOUS
    <2>2. PICK x : x = [y EXCEPT !.owes = FALSE]
      OBVIOUS
    <2>3. runs[r].steps + 1 \in 0..(scene.steps + 1)
      BY <1>2, <1>3, RunFields
    <2>4. /\ y \in RunRecord /\ y.steps = runs[r].steps + 1 /\ y.status = "running"
          /\ y.ticket = runs[r].ticket /\ y.day = runs[r].day /\ y.saw = runs[r].saw
      BY <1>1, <1>2, <2>1, <2>3 DEF RunRecord
    <2>5. /\ x \in RunRecord /\ x.steps = runs[r].steps + 1 /\ x.status = "running" /\ x.owes = FALSE
          /\ x.ticket = runs[r].ticket /\ x.day = runs[r].day /\ x.saw = runs[r].saw
      BY <2>2, <2>4 DEF RunRecord
    <2>6. Kept(runs[r], x)
      BY <1>1, <1>2, <2>5 DEF Kept, Ended
    <2>7. runs' = [runs EXCEPT ![r] = x]
      <3>1. runs' = [[runs EXCEPT ![r] = [runs[r] EXCEPT !.steps = runs[r].steps + 1]]
                        EXCEPT ![r] = [[runs[r] EXCEPT !.steps = runs[r].steps + 1] EXCEPT !.owes = FALSE]]
        BY <1>2, <1>6
      <3> QED BY <2>1, <2>2, <3>1
    <2>8. busy' = [busy EXCEPT ![w] = [run |-> r, calling |-> FALSE]]
      <3>1. busy[w] = [run |-> r, calling |-> FALSE]
        BY <1>1, <1>5, HandTyped DEF Hand, r
      <3> QED BY <1>6, <3>1 DEF AInv, RunsTyped
    <2> QED BY <1>1, <1>2, <1>5, <2>5, <2>6, <2>7, <2>8, OwnRunStep
  <1>7. CASE runs' = [runs EXCEPT ![r].status = "awaiting_approval"] /\ PutDown(w)
    <2>1. PICK x : x = [runs[r] EXCEPT !.status = "awaiting_approval"]
      OBVIOUS
    <2>2. x \in RunRecord /\ Kept(runs[r], x) /\ x.steps = runs[r].steps
      BY <1>1, <1>2, <2>1, StatusWritten DEF Ended, Statuses
    <2>3. runs' = [runs EXCEPT ![r] = x]
      BY <1>2, <1>7, <2>1
    <2> QED BY <1>1, <1>2, <1>3, <1>5, <1>7, <2>2, <2>3, OwnRunStep
  <1> QED BY <1>4, <1>6, <1>7

(* Asking the model and putting a lost run down leave the runs alone.        *)
LEMMA HandStep ==
  ASSUME AInv, NEW w \in Workers, AskModel(w) \/ LeaseLost(w)
  PROVE  AInv' /\ RunsMove
  <1> DEFINE r == busy[w].run
  <1>1. UNCHANGED <<scene, door, today, runs>> /\ r # 0
    BY DEF AskModel, LeaseLost, Turn
  <1>2. r \in DOMAIN runs /\ runs[r] \in RunRecord /\ runs[r].steps \in Int /\ scene.steps \in Nat
    BY <1>1, HandTyped
  <1>3. PICK h \in Hand :
          /\ busy' = [busy EXCEPT ![w] = h]
          /\ h.run \in {0, r} /\ (h.calling => AskModel(w) /\ h.run = r)
    <2>1. CASE AskModel(w)
      <3>1. [busy[w] EXCEPT !.calling = TRUE] \in Hand /\ [busy[w] EXCEPT !.calling = TRUE].run = r
        BY HandTyped DEF Hand
      <3>2. busy' = [busy EXCEPT ![w] = [busy[w] EXCEPT !.calling = TRUE]]
        BY <2>1 DEF AskModel
      <3> QED BY <2>1, <3>1, <3>2
    <2>2. CASE LeaseLost(w)
      <3>1. Idle \in Hand /\ Idle.run = 0 /\ Idle.calling = FALSE
        BY DEF Hand, Idle
      <3> QED BY <2>2, <3>1 DEF LeaseLost, PutDown
    <2> QED BY <2>1, <2>2
  <1>4. busy' \in [Workers -> Hand] /\ busy'[w] = h /\ \A v \in Workers : v # w => busy'[v] = busy[v]
    BY <1>3 DEF AInv, RunsTyped
  <1>5. AskModel(w) => runs[r].steps < scene.steps /\ runs[r].cost < RunCap
    <2>1. runs[r].cost \in Nat
      BY <1>2, RunFields
    <2> QED BY <1>2, <2>1, LimitTypes DEF AskModel, Breach
  <1>6. DoorTyped' /\ RunsTyped'
    BY <1>1, <1>4, HandTypes
  <1>7. Driven'
    <2>1. scene' = scene /\ runs' = runs
      BY <1>1
    <2>2. \A v \in Workers : busy'[v].run \in {0, busy[v].run}
      BY <1>3, <1>4
    <2>3. \A v \in Workers : busy'[v].run # 0 => busy'[v].run = busy[v].run
      BY <2>2
    <2>4. \A v \in Workers : busy'[v].calling =>
            busy'[v].run # 0 /\ runs[busy'[v].run].steps < scene.steps /\ runs[busy'[v].run].cost < RunCap
      <3>1. CASE h.calling
        BY <1>1, <1>3, <1>4, <1>5, <3>1 DEF AInv, Driven
      <3>2. CASE ~h.calling
        BY <1>4, <3>2 DEF AInv, Driven
      <3> QED BY <3>1, <3>2
    <2>5. \A u, v \in Workers : busy'[u].run = busy'[v].run => u = v \/ busy'[u].run = 0
      BY <2>2, StillApart
    <2>6. \A v \in Workers : busy'[v].run # 0 => runs[busy'[v].run].status \in {"running"} \cup Ended
      BY <2>3 DEF AInv, Driven
    <2>7. \A s \in DOMAIN runs : runs[s].owes => runs[s].steps <= scene.steps
      BY DEF AInv, Driven
    <2> QED BY <2>1, <2>4, <2>5, <2>6, <2>7 DEF Driven
  <1> QED BY <1>1, <1>6, <1>7 DEF AInv, RunsMove

(* People touch a status, never what a worker that waits has been promised.  *)
LEMMA PeopleStep ==
  ASSUME AInv, NEW r \in DOMAIN runs, Decide(r) \/ CancelRead(r) \/ CancelWrite(r)
  PROVE  AInv' /\ RunsMove
  <1>1. UNCHANGED <<scene, door, today>> /\ busy' = busy
    BY DEF Decide, CancelRead, CancelWrite
  <1>2. /\ runs[r] \in RunRecord /\ runs[r].steps \in Int
        /\ runs[r].status \in Statuses /\ runs[r].cancelling \in BOOLEAN
    <2>1. runs \in Seq(RunRecord)
      BY DEF AInv, RunsTyped
    <2>2. runs[r] \in RunRecord
      <3> HIDE DEF RunRecord
      <3> QED BY <2>1
    <2>3. scene.steps \in Nat
      BY SceneTypes DEF AInv, DoorTyped
    <2> QED BY <2>2, <2>3, RunFields
  <1>3. PICK x \in RunRecord :
          /\ runs' = [runs EXCEPT ![r] = x] /\ Kept(runs[r], x)
          /\ x.steps = runs[r].steps /\ x.owes = runs[r].owes /\ x.cost = runs[r].cost
          /\ x.status = runs[r].status \/ x.status \in Ended \/ runs[r].status = "awaiting_approval"
    <2>1. CASE Decide(r)
      <3>1. PICK x : x = [runs[r] EXCEPT !.status = "queued"]
        OBVIOUS
      <3>2. runs' = [runs EXCEPT ![r] = x] /\ runs[r].status = "awaiting_approval"
        BY <2>1, <3>1 DEF Decide
      <3>3. /\ x \in RunRecord /\ Kept(runs[r], x)
            /\ x.steps = runs[r].steps /\ x.owes = runs[r].owes /\ x.cost = runs[r].cost
        BY <1>2, <3>1, <3>2, StatusWritten DEF Ended, Statuses
      <3> QED BY <3>2, <3>3
    <2>2. CASE CancelRead(r)
      <3>1. PICK x : x = [runs[r] EXCEPT !.cancelling = TRUE]
        OBVIOUS
      <3>2. runs' = [runs EXCEPT ![r] = x]
        BY <2>2, <3>1 DEF CancelRead
      <3>3. /\ x \in RunRecord /\ Kept(runs[r], x) /\ x.status = runs[r].status
            /\ x.steps = runs[r].steps /\ x.owes = runs[r].owes /\ x.cost = runs[r].cost
        BY <1>2, <3>1, CancellingWritten
      <3> QED BY <3>2, <3>3
    <2>3. CASE CancelWrite(r)
      <3>1. PICK y : y = [runs[r] EXCEPT !.status = "cancelled"]
        OBVIOUS
      <3>2. PICK x : x = [y EXCEPT !.cancelling = FALSE]
        OBVIOUS
      <3>3. /\ y \in RunRecord /\ Kept(runs[r], y) /\ y.status = "cancelled" /\ y.steps \in Int
            /\ y.steps = runs[r].steps /\ y.owes = runs[r].owes /\ y.cost = runs[r].cost
        BY <1>2, <3>1, StatusWritten DEF Ended, Statuses
      <3>4. /\ x \in RunRecord /\ Kept(y, x) /\ x.status = "cancelled"
            /\ x.steps = y.steps /\ x.owes = y.owes /\ x.cost = y.cost
        BY <3>2, <3>3, CancellingWritten
      <3>5. Kept(runs[r], x) /\ x.status \in Ended
        BY <3>3, <3>4 DEF Kept, Ended
      <3>6. runs' = [runs EXCEPT ![r] = x]
        <4>1. runs' = [[runs EXCEPT ![r] = [runs[r] EXCEPT !.status = "cancelled"]]
                          EXCEPT ![r] = [[runs[r] EXCEPT !.status = "cancelled"] EXCEPT !.cancelling = FALSE]]
          BY <2>3 DEF CancelWrite
        <4> QED BY <3>1, <3>2, <4>1
      <3> QED BY <3>3, <3>4, <3>5, <3>6
    <2> QED BY <2>1, <2>2, <2>3
  <1>4. Written(r, x)
    BY <1>3 DEF Written
  <1>5. /\ DoorTyped' /\ RunsTyped' /\ DOMAIN runs' = DOMAIN runs /\ runs'[r] = x
        /\ \A s \in DOMAIN runs : s # r => runs'[s] = runs[s]
    <2>1. busy' \in [Workers -> Hand]
      BY <1>1 DEF AInv, RunsTyped
    <2> QED BY <1>1, <1>4, <2>1, WriteTypes
  <1>6. Driven'
    <2>1. scene' = scene /\ busy' \in [Workers -> Hand]
      BY <1>1 DEF AInv, RunsTyped
    <2>2. x.owes => x.steps <= scene.steps
      BY <1>3 DEF AInv, Driven
    <2>3. r # 0
      BY DEF AInv, RunsTyped
    <2>4. \A v \in Workers : busy'[v].run = r =>
            /\ x.status \in {"running"} \cup Ended
            /\ busy'[v].calling => x.steps < scene.steps /\ x.cost < RunCap
      BY <1>1, <1>3, <2>3 DEF AInv, Driven, Ended
    <2>5. \A u, v \in Workers : busy'[u].run = busy'[v].run => u = v \/ busy'[u].run = 0
      BY <1>1 DEF AInv, Driven
    <2> QED BY <1>1, <1>5, <2>1, <2>2, <2>4, <2>5, DrivenAfter
  <1> QED BY <1>4, <1>5, <1>6 DEF AInv, RunsMove

(* A step at the door.                                                       *)
LEMMA DoorStep ==
  ASSUME AInv, NEW q \in Requests, Arrive(q) \/ Allow(q) \/ LookUp(q) \/ Insert(q)
  PROVE  AInv' /\ RunsMove
  <1>1. CASE Arrive(q) \/ Allow(q) \/ LookUp(q)
    <2>1. scene' = scene /\ runs' = runs /\ busy' = busy /\ today' = today
      BY <1>1 DEF Arrive, Allow, LookUp
    <2>2. DoorTyped' /\ Cardinality(AnsweredRequests)' >= Cardinality(AnsweredRequests)
          /\ Cardinality(AnsweredRequests) \in Nat /\ Cardinality(AnsweredRequests)' \in Nat
      <3>1. CASE Arrive(q)
        <4>1. IsFiniteSet(AnsweredRequests)
          <5>1. AnsweredRequests \in SUBSET Requests
            BY DEF AnsweredRequests
          <5> QED BY <5>1, ScenesAssumption, FS_Subset
        <4>2. Cardinality(AnsweredRequests) \in Nat
          BY <4>1, FS_CardinalityType
        <4> QED BY <3>1, <4>2, ArriveTypes
      <3>2. CASE Allow(q)
        BY <3>2, AllowTypes
      <3>3. CASE LookUp(q)
        BY <3>3, LookUpTypes
      <3> QED BY <1>1, <3>1, <3>2, <3>3
    <2>3. RunRecord' = RunRecord /\ Hand' = Hand
      BY <2>1 DEF RunRecord, Hand
    <2>4. Len(runs) \in Nat
      BY DEF AInv, RunsTyped
    <2>5. RunsTyped'
      BY <2>1, <2>2, <2>3, <2>4 DEF AInv, RunsTyped
    <2>6. Driven'
      BY <2>1 DEF AInv, Driven
    <2> QED BY <2>1, <2>2, <2>5, <2>6 DEF AInv, RunsMove
  <1>2. CASE Insert(q)
    <2>1. /\ DoorTyped' /\ RunsTyped' /\ Fresh(q) \in RunRecord
          /\ Len(runs') = Len(runs) + 1 /\ \A r \in DOMAIN runs : runs'[r] = runs[r]
          /\ DOMAIN runs' = DOMAIN runs \cup {Len(runs) + 1} /\ runs'[Len(runs) + 1] = Fresh(q)
      BY <1>2, InsertTypes
    <2>2. scene' = scene /\ busy' = busy
      BY <1>2 DEF Insert
    <2>3. ~Fresh(q).owes
      BY DEF Fresh
    <2>4. \A v \in Workers : busy[v].run # 0 => busy[v].run \in DOMAIN runs
      BY HandTyped
    <2>5. Driven'
      BY <2>1, <2>2, <2>3, <2>4 DEF AInv, Driven
    <2> QED BY <1>2, <2>1, <2>5 DEF AInv, RunsMove
  <1> QED BY <1>1, <1>2

(* A step of the clock, or none.                                             *)
LEMMA ClockStep ==
  ASSUME AInv, Tick \/ Midnight \/ UNCHANGED avars
  PROVE  AInv' /\ RunsMove
  <1>1. scene' = scene /\ runs' = runs /\ busy' = busy
    BY DEF Tick, Midnight, avars
  <1>2. DoorTyped' /\ AnsweredRequests' = AnsweredRequests
    <2>1. CASE Tick \/ Midnight
      BY <2>1, ClockTypes
    <2>2. CASE UNCHANGED avars
      BY <2>2 DEF avars, AInv, DoorTyped, Table, Request, AnsweredRequests
    <2> QED BY <2>1, <2>2
  <1>3. RunRecord' = RunRecord /\ Hand' = Hand
    BY <1>1 DEF RunRecord, Hand
  <1>4. RunsTyped'
    BY <1>1, <1>2, <1>3 DEF AInv, RunsTyped
  <1>5. Driven'
    BY <1>1 DEF AInv, Driven
  <1> QED BY <1>1, <1>2, <1>4, <1>5 DEF AInv, RunsMove

(* Every step keeps AInv, and the runs only go on.                           *)
LEMMA AdmissionStep == AInv /\ [ANext]_avars => AInv' /\ RunsMove
  <1> SUFFICES ASSUME AInv, [ANext]_avars PROVE AInv' /\ RunsMove
    OBVIOUS
  <1>1. CASE \E q \in Requests : Arrive(q) \/ Allow(q) \/ LookUp(q) \/ Insert(q)
    BY <1>1, DoorStep
  <1>2. CASE \E w \in Workers : Work(w)
    <2>1. PICK w \in Workers : Work(w)
      BY <1>2
    <2> QED BY <2>1, ClaimStep, ExhaustStep, RecordReplyStep, SettleStep, HandStep DEF Work
  <1>3. CASE \E r \in DOMAIN runs : Decide(r) \/ CancelRead(r) \/ CancelWrite(r)
    BY <1>3, PeopleStep
  <1>4. CASE Tick \/ Midnight \/ UNCHANGED avars
    BY <1>4, ClockStep
  <1> QED BY <1>1, <1>2, <1>3, <1>4 DEF ANext

(* What is watched moves as requests, workers and people move it.            *)
LEMMA ViewersOnlyAdmit == [Next]_vars => [ANext]_avars
  <1> SUFFICES ASSUME [Next]_vars PROVE [ANext]_avars
    OBVIOUS
  <1>1. CASE UserActs
    BY <1>1 DEF UserActs, Exists, ANext
  <1>2. CASE Watch \/ Serve \/ StreamTimesOut \/ ConnectionBreaks \/ Receive
    BY <1>2 DEF Watch, Serve, PollSteps, PollStatus, PollApprovals, StreamTimesOut, ConnectionBreaks, Receive
  <1>3. CASE \E f \in DOMAIN fetches : Deliver(f) \/ Fails(f)
    BY <1>3 DEF Deliver, ReadRun, ReadSteps, ReadApprovals, Arrives, Fails
  <1>4. CASE ANext \/ UNCHANGED vars
    BY <1>4 DEF vars
  <1> QED BY <1>1, <1>2, <1>3, <1>4 DEF Next

(* The scenario is chosen once.                                              *)
LEMMA ScenesStay == [ANext]_avars => scene' = scene
  BY DEF ANext, Arrive, Allow, LookUp, Insert, Work, Claim, Exhaust, AskModel, RecordReply, Settle, LeaseLost,
         Decide, CancelRead, CancelWrite, Tick, Midnight, avars

-----------------------------------------------------------------------------
(* Two runs on a ticket.                                                     *)

(* None of the first n of the runs rs that are on t is open.                 *)
Clear(rs, t, n) == \A r \in 1..n : rs[r].ticket = t => rs[r].status \notin Open
LookedUp ==
  /\ \A q \in Requests : req[q].at = "clear" => Clear(runs, req[q].ticket, req[q].saw)
  /\ \A s \in DOMAIN runs : runs[s].saw <= Len(runs) /\ Clear(runs, runs[s].ticket, runs[s].saw)

(* What is closed stays closed.                                              *)
LEMMA ClosedStays ==
  ASSUME AInv, AInv', RunsMove, NEW t, NEW n \in 0..Len(runs), Clear(runs, t, n)
  PROVE  Clear(runs', t, n)
  <1>1. \A r \in 1..n : r \in DOMAIN runs /\ runs[r] \in RunRecord
    <2>1. runs \in Seq(RunRecord)
      BY DEF AInv, RunsTyped
    <2> HIDE DEF RunRecord
    <2> QED BY <2>1
  <1>2. \A r \in 1..n : runs'[r] = runs[r] \/ Kept(runs[r], runs'[r])
    <2>1. CASE runs' = runs
      BY <2>1
    <2>2. CASE \E q \in Requests : Insert(q)
      BY <1>1, <2>2, InsertTypes
    <2>3. CASE \E r \in DOMAIN runs : \E x \in RunRecord : Written(r, x)
      BY <1>1, <2>3 DEF Written
    <2> QED BY <2>1, <2>2, <2>3 DEF RunsMove
  <1>3. \A s \in Statuses : s \notin Open <=> s \in Ended
    BY DEF Statuses, Open, Ended
  <1>4. \A s \in Ended : s \notin Open
    BY DEF Open, Ended
  <1>5. ASSUME NEW r \in 1..n, runs'[r].ticket = t PROVE runs'[r].status \notin Open
    <2>1. CASE runs'[r] = runs[r]
      BY <1>5, <2>1 DEF Clear
    <2>2. CASE Kept(runs[r], runs'[r])
      <3>1. runs[r].ticket = t /\ runs[r].status \in Statuses
        BY <1>1, <1>5, <2>2, RunFields DEF Kept
      <3>2. runs[r].status \in Ended
        BY <1>3, <3>1 DEF Clear
      <3> QED BY <1>4, <2>2, <3>2 DEF Kept
    <2> QED BY <1>2, <2>1, <2>2
  <1> QED BY <1>5 DEF Clear

(* A request that may insert has just looked, or had looked before.          *)
LEMMA ClearComes ==
  ASSUME AInv, [ANext]_avars, NEW q \in Requests, req'[q].at = "clear"
  PROVE  \/ req'[q] = req[q]
         \/ /\ runs' = runs /\ OpenOn(req'[q].ticket) = {} /\ req'[q].saw = Len(runs)
  <1>1. CASE req' = req
    BY <1>1
  <1>2. CASE \E p \in Requests : Arrive(p) \/ Allow(p) \/ LookUp(p) \/ Insert(p)
    <2>1. PICK p \in Requests : Arrive(p) \/ Allow(p) \/ LookUp(p) \/ Insert(p)
      BY <1>2
    <2>2. req \in [Requests -> Request]
      BY DEF AInv, DoorTyped
    <2>3. p # q => req'[q] = req[q]
      BY <2>1, <2>2 DEF Arrive, Allow, LookUp, Insert, Answered
    <2>4. ASSUME p = q, Answered(q) PROVE FALSE
      <3>1. [Nobody EXCEPT !.at = "answered"].at = "answered"
        BY DEF Nobody
      <3> QED BY <2>2, <2>4, <3>1 DEF Answered
    <2>5. ASSUME p = q, Arrive(q) PROVE FALSE
      BY <2>2, <2>5 DEF Arrive
    <2>6. ASSUME p = q, Allow(q) PROVE FALSE
      <3>1. req' = [req EXCEPT ![q].at = "admitted", ![q].now = 0]
        BY <2>4, <2>6 DEF Allow
      <3>2. req[q] \in Request
        BY <2>2
      <3>3. PICK y : y = [req[q] EXCEPT !.at = "admitted"]
        OBVIOUS
      <3>4. req'[q] = [y EXCEPT !.now = 0] /\ y.at = "admitted" /\ DOMAIN y = {"at", "ticket", "now", "saw"}
        BY <2>2, <3>1, <3>2, <3>3 DEF Request
      <3> QED BY <3>4
    <2>7. ASSUME p = q, LookUp(q)
          PROVE  runs' = runs /\ OpenOn(req'[q].ticket) = {} /\ req'[q].saw = Len(runs)
      <3>1. /\ req' = [req EXCEPT ![q].at = "clear", ![q].saw = Len(runs)]
            /\ OpenOn(req[q].ticket) = {} /\ runs' = runs
        BY <2>4, <2>7 DEF LookUp
      <3>2. req[q] \in Request
        BY <2>2
      <3>3. PICK y : y = [req[q] EXCEPT !.at = "clear"]
        OBVIOUS
      <3>4. /\ req'[q] = [y EXCEPT !.saw = Len(runs)] /\ y.ticket = req[q].ticket
            /\ DOMAIN y = {"at", "ticket", "now", "saw"}
        BY <2>2, <3>1, <3>2, <3>3 DEF Request
      <3> QED BY <3>1, <3>4
    <2> QED BY <2>1, <2>3, <2>4, <2>5, <2>6, <2>7 DEF Insert
  <1>3. CASE Tick \/ Midnight \/ UNCHANGED avars
    BY <1>1, <1>3 DEF Tick, Midnight, avars, door
  <1>4. CASE \E w \in Workers : Work(w)
    BY <1>1, <1>4 DEF Work, Claim, Exhaust, AskModel, RecordReply, Settle, LeaseLost, door
  <1>5. CASE \E r \in DOMAIN runs : Decide(r) \/ CancelRead(r) \/ CancelWrite(r)
    BY <1>1, <1>5 DEF Decide, CancelRead, CancelWrite, door
  <1> QED BY <1>2, <1>3, <1>4, <1>5 DEF ANext

(* Every request that may insert, and every run that was inserted, was       *)
(* preceded by a look that found nothing open.                               *)
LEMMA LookedUpStep ==
  ASSUME AInv, AInv', RunsMove, [ANext]_avars, LookedUp
  PROVE  LookedUp'
  <1>1. runs \in Seq(RunRecord) /\ Len(runs) \in Nat
    BY DEF AInv, RunsTyped
  <1>2. \A r \in DOMAIN runs : runs[r] \in RunRecord
    <2> HIDE DEF RunRecord
    <2> QED BY <1>1
  <1>3. ASSUME NEW q \in Requests, req'[q].at = "clear" PROVE Clear(runs', req'[q].ticket, req'[q].saw)
    <2>1. CASE req'[q] = req[q]
      <3>1. req[q].saw \in 0..Len(runs)
        BY DEF AInv, DoorTyped, Request
      <3>2. Clear(runs, req[q].ticket, req[q].saw)
        BY <1>3, <2>1 DEF LookedUp
      <3>3. PICK t, n : t = req[q].ticket /\ n = req[q].saw
        OBVIOUS
      <3>4. Clear(runs', t, n)
        BY <3>1, <3>2, <3>3, ClosedStays
      <3> QED BY <2>1, <3>3, <3>4 DEF Clear
    <2>2. CASE runs' = runs /\ OpenOn(req'[q].ticket) = {} /\ req'[q].saw = Len(runs)
      <3>1. \A r \in 1..Len(runs) : r \in DOMAIN runs
        BY <1>1
      <3> QED BY <2>2, <3>1 DEF Clear, OpenOn
    <2> QED BY <1>3, <2>1, <2>2, ClearComes
  <1>4. ASSUME NEW s \in DOMAIN runs'
        PROVE  runs'[s].saw <= Len(runs') /\ Clear(runs', runs'[s].ticket, runs'[s].saw)
    <2>1. ASSUME s \in DOMAIN runs, Len(runs) <= Len(runs'), Len(runs') \in Nat,
                 runs'[s].ticket = runs[s].ticket, runs'[s].saw = runs[s].saw
          PROVE  runs'[s].saw <= Len(runs') /\ Clear(runs', runs'[s].ticket, runs'[s].saw)
      <3>1. runs[s].saw \in Nat /\ runs[s].saw <= Len(runs)
        BY <1>2, <2>1, RunFields DEF LookedUp
      <3>2. PICK t, n : t = runs[s].ticket /\ n = runs[s].saw
        OBVIOUS
      <3>3. n \in 0..Len(runs) /\ Clear(runs, t, n)
        BY <1>1, <2>1, <3>1, <3>2 DEF LookedUp
      <3>4. Clear(runs', t, n)
        BY <3>3, ClosedStays
      <3>5. runs'[s].saw <= Len(runs')
        BY <1>1, <2>1, <3>1
      <3> QED BY <2>1, <3>2, <3>4, <3>5 DEF Clear
    <2>2. CASE runs' = runs
      BY <1>1, <2>1, <2>2
    <2>3. CASE \E q \in Requests : Insert(q)
      <3>1. PICK q \in Requests : Insert(q)
        BY <2>3
      <3>2. /\ Len(runs') = Len(runs) + 1 /\ \A r \in DOMAIN runs : runs'[r] = runs[r]
            /\ DOMAIN runs' = DOMAIN runs \cup {Len(runs) + 1} /\ runs'[Len(runs) + 1] = Fresh(q)
        BY <3>1, InsertTypes
      <3>3. CASE s \in DOMAIN runs
        BY <1>1, <2>1, <3>2, <3>3
      <3>4. CASE s = Len(runs) + 1
        <4>1. runs'[s].ticket = req[q].ticket /\ runs'[s].saw = req[q].saw
          BY <3>2, <3>4 DEF Fresh
        <4>2. req[q].at = "clear" /\ req[q].saw \in 0..Len(runs)
          BY <3>1 DEF Insert, AInv, DoorTyped, Request
        <4>3. PICK t, n : t = req[q].ticket /\ n = req[q].saw
          OBVIOUS
        <4>4. Clear(runs, t, n)
          BY <4>2, <4>3 DEF LookedUp
        <4>5. Clear(runs', t, n)
          BY <4>2, <4>3, <4>4, ClosedStays
        <4>6. runs'[s].saw <= Len(runs')
          BY <1>1, <3>2, <4>1, <4>2
        <4> QED BY <4>1, <4>3, <4>5, <4>6 DEF Clear
      <3> QED BY <3>2, <3>3, <3>4
    <2>4. CASE \E r \in DOMAIN runs : \E x \in RunRecord : Written(r, x)
      <3>1. PICK r \in DOMAIN runs, x \in RunRecord : Written(r, x)
        BY <2>4
      <3>2. Len(runs') = Len(runs) /\ DOMAIN runs' = DOMAIN runs /\ runs'[r] = x
            /\ \A d \in DOMAIN runs : d # r => runs'[d] = runs[d]
        <4> HIDE DEF RunRecord
        <4> QED BY <1>1, <3>1 DEF Written
      <3>3. runs'[s].ticket = runs[s].ticket /\ runs'[s].saw = runs[s].saw
        BY <3>1, <3>2 DEF Written, Kept
      <3> QED BY <1>1, <2>1, <3>2, <3>3
    <2> QED BY <2>2, <2>3, <2>4 DEF RunsMove
  <1> QED BY <1>3, <1>4 DEF LookedUp, Clear

(* What a request knows of the runs it saw is what the property asks.        *)
LEMMA LookedUpRead == AInv /\ LookedUp => OnlyRacesDoubleUp
  <1> SUFFICES ASSUME AInv, LookedUp, NEW r \in DOMAIN runs, NEW s \in OpenOn(runs[r].ticket),
                      runs[r].status \in Open, r < s
               PROVE  r > runs[s].saw
    BY DEF OnlyRacesDoubleUp
  <1>1. s \in DOMAIN runs /\ runs[s].ticket = runs[r].ticket /\ r \in Nat /\ r # 0
    BY DEF OpenOn, AInv, RunsTyped
  <1>2. Clear(runs, runs[s].ticket, runs[s].saw)
    BY <1>1 DEF LookedUp
  <1>3. runs[s].saw \in Nat
    <2>1. runs[s] \in RunRecord
      <3>1. runs \in Seq(RunRecord)
        BY DEF AInv, RunsTyped
      <3> HIDE DEF RunRecord
      <3> QED BY <1>1, <3>1
    <2>2. Cardinality(Requests) \in Nat
      BY ScenesAssumption, FS_CardinalityType
    <2> QED BY <2>1, <2>2, RunFields
  <1>4. r \notin 1..runs[s].saw
    BY <1>1, <1>2 DEF Clear
  <1> QED BY <1>1, <1>3, <1>4

-----------------------------------------------------------------------------
(* The limiter.                                                              *)

(* A merchant's hits are no more than the limit; those that still count are  *)
(* no fewer than the admissions without a wait; nothing is ahead of its time. *)
Counted ==
  \A o \in Orgs :
    /\ SumFunctionOnSet(hits[o], 0..scene.time) <= Limit
    /\ \A u \in 0..scene.time :
         /\ clock - u < Window => admitted[o][u] <= hits[o][u]
         /\ u > clock => admitted[o][u] = 0

(* The times of the hits are a finite interval.                              *)
LEMMA SlotTypes ==
  ASSUME AInv
  PROVE  /\ scene.time \in Nat /\ clock \in Nat /\ clock <= scene.time /\ Window \in Nat /\ Limit \in Nat
         /\ IsFiniteSet(0..scene.time)
  <1>1. scene.time \in Nat /\ clock \in 0..scene.time
    BY SceneTypes DEF AInv, DoorTyped
  <1>2. IsFiniteSet(0..scene.time)
    BY <1>1, FS_Interval
  <1> QED BY <1>1, <1>2, LimitTypes

(* A step at the door other than Allow leaves the limiter alone.             *)
LEMMA LimiterMoves ==
  ASSUME [ANext]_avars
  PROVE  \/ \E q \in Requests : Allow(q)
         \/ hits' = hits /\ admitted' = admitted /\ scene' = scene
            /\ (clock' = clock \/ (clock' = clock + 1 /\ clock < scene.time))
  <1>1. CASE \E p \in Requests : Arrive(p) \/ Allow(p) \/ LookUp(p) \/ Insert(p)
    BY <1>1 DEF Arrive, LookUp, Insert
  <1>2. CASE Tick \/ Midnight \/ UNCHANGED avars
    BY <1>2 DEF Tick, Midnight, avars, door
  <1>3. CASE \E w \in Workers : Work(w)
    BY <1>3 DEF Work, Claim, Exhaust, AskModel, RecordReply, Settle, LeaseLost, door
  <1>4. CASE \E r \in DOMAIN runs : Decide(r) \/ CancelRead(r) \/ CancelWrite(r)
    BY <1>4 DEF Decide, CancelRead, CancelWrite, door
  <1> QED BY <1>1, <1>2, <1>3, <1>4 DEF ANext

(* One entry more by c adds c to the sum.                                    *)
LEMMA SumGrows ==
  ASSUME NEW w, NEW v, NEW s, IsFiniteSet(s), NEW e \in s, NEW c \in Nat,
         \A x \in s : w[x] \in Nat, v[e] = w[e] + c, \A x \in s : x # e => v[x] = w[x]
  PROVE  SumFunctionOnSet(v, s) = SumFunctionOnSet(w, s) + c
  <1>1. IsFiniteSet(s \ {e}) /\ \A x \in s : v[x] \in Nat
    BY FS_Subset
  <1>2. SumFunctionOnSet(w, s) = w[e] + SumFunctionOnSet(w, s \ {e})
    BY SumTakesAny
  <1>3. SumFunctionOnSet(v, s) = v[e] + SumFunctionOnSet(v, s \ {e})
    BY <1>1, SumTakesAny
  <1>4. SumFunctionOnSet(w, s \ {e}) = SumFunctionOnSet(v, s \ {e})
    BY <1>1, SumOfEquals
  <1>5. SumFunctionOnSet(w, s \ {e}) \in Nat
    BY <1>1, SumIsNat
  <1> QED BY <1>2, <1>3, <1>4, <1>5

(* A hit is written with the admission it stands for, under the lock.        *)
LEMMA AllowCounted ==
  ASSUME AInv, Counted, NEW q \in Requests, Allow(q)
  PROVE  Counted'
  <1> DEFINE now == req[q].now
             o == OrgOf[req[q].ticket]
             recent == Recent(o, now)
             S == 0..scene.time
  <1>1. scene' = scene /\ clock' = clock
    BY DEF Allow
  <1>2. scene.time \in Nat /\ clock \in Nat /\ clock <= scene.time /\ Window \in Nat /\ Limit \in Nat /\ IsFiniteSet(S)
    BY SlotTypes
  <1>3. now \in 0..clock /\ now \in S /\ o \in Orgs /\ now \in Nat
    <2>1. req[q].ticket \in Tickets /\ req[q] \in Request
      BY DEF Allow, AInv, DoorTyped, Within
    <2>2. o \in Orgs
      BY <2>1 DEF Orgs
    <2>3. now \in 0..clock
      BY <2>1 DEF Request
    <2> QED BY <1>2, <2>2, <2>3
  <1>4. \A p \in Orgs : \A t \in S : hits[p][t] \in Nat /\ admitted[p][t] \in Nat
    BY DEF AInv, DoorTyped, Table
  <1>5. /\ recent \in Table /\ \A t \in S : recent[t] \in Nat /\ recent[t] <= hits[o][t]
        /\ \A t \in S : now - t < Window => recent[t] = hits[o][t]
        /\ DOMAIN recent = S
    <2>1. recent \in Table
      BY <1>3, RecentTypes DEF AInv
    <2>2. \A t \in S : recent[t] = IF now - t < Window THEN hits[o][t] ELSE 0
      BY DEF Recent
    <2> QED BY <1>3, <1>4, <2>1, <2>2 DEF Table
  <1>6. SumFunctionOnSet(recent, S) <= SumFunctionOnSet(hits[o], S) /\ SumFunctionOnSet(recent, S) \in Nat
        /\ SumFunctionOnSet(hits[o], S) \in Nat /\ SumFunctionOnSet(hits[o], S) <= Limit
    <2> HIDE DEF recent, o, S
    <2>1. SumFunctionOnSet(recent, S) <= SumFunctionOnSet(hits[o], S)
      BY <1>2, <1>3, <1>4, <1>5, SumIsMonotone
    <2>2. SumFunctionOnSet(recent, S) \in Nat
      BY <1>2, <1>5, SumIsNat
    <2>3. SumFunctionOnSet(hits[o], S) \in Nat
      BY <1>2, <1>3, <1>4, SumIsNat
    <2> QED BY <1>3, <2>1, <2>2, <2>3 DEF Counted, S
  <1>7. \A u \in S : clock - u < Window => recent[u] = hits[o][u]
    <2>1. \A u \in S : clock - u < Window => now - u < Window
      BY <1>2, <1>3
    <2> QED BY <1>5, <2>1
  <1>8. hits \in [Orgs -> Table] /\ admitted \in [Orgs -> Table]
    BY DEF AInv, DoorTyped
  <1>9. CASE hits' = [hits EXCEPT ![o] = recent] /\ admitted' = admitted
    <2> HIDE DEF now, o, recent
    <2>1. hits'[o] = recent /\ \A p \in Orgs : p # o => hits'[p] = hits[p]
      BY <1>3, <1>8, <1>9
    <2>2. ASSUME NEW p \in Orgs
          PROVE  /\ SumFunctionOnSet(hits'[p], S) <= Limit
                 /\ \A u \in S : clock - u < Window => admitted[p][u] <= hits'[p][u]
                 /\ \A u \in S : u > clock => admitted[p][u] = 0
      <3>1. CASE p = o
        BY <1>2, <1>3, <1>6, <1>7, <2>1, <3>1 DEF Counted
      <3>2. CASE p # o
        BY <2>1, <3>2 DEF Counted
      <3> QED BY <3>1, <3>2
    <2> QED BY <1>1, <1>9, <2>2 DEF Counted
  <1>10. CASE /\ ~Full(recent) /\ hits' = [hits EXCEPT ![o] = [recent EXCEPT ![now] = @ + 1]]
              /\ admitted' = IF now = clock THEN [admitted EXCEPT ![o][now] = @ + 1] ELSE admitted
    <2>1. SumFunctionOnSet(recent, S) < Limit
      BY <1>2, <1>5, <1>6, <1>10 DEF Full, SumFunction
    <2> HIDE DEF now, o, recent
    <2>2. PICK more : more = [recent EXCEPT ![now] = @ + 1]
      OBVIOUS
    <2>3. /\ \A u \in S : u # now => more[u] = recent[u]
          /\ more[now] = recent[now] + 1
      BY <1>3, <1>5, <2>2
    <2>4. SumFunctionOnSet(more, S) = SumFunctionOnSet(recent, S) + 1
      <3>1. \A u \in S : recent[u] \in Nat
        BY <1>5
      <3>2. 1 \in Nat /\ now \in S /\ IsFiniteSet(S)
        BY <1>2, <1>3
      <3> HIDE DEF S
      <3> QED BY <2>3, <3>1, <3>2, SumGrows
    <2>5. hits'[o] = more /\ \A p \in Orgs : p # o => hits'[p] = hits[p]
      BY <1>3, <1>8, <1>10, <2>2
    <2>6. /\ \A p \in Orgs : p # o => admitted'[p] = admitted[p]
          /\ \A u \in S : u # clock \/ u # now => admitted'[o][u] = admitted[o][u]
          /\ now = clock => admitted'[o][now] = admitted[o][now] + 1
      BY <1>3, <1>8, <1>10 DEF Table
    <2>7. ASSUME NEW p \in Orgs
          PROVE  /\ SumFunctionOnSet(hits'[p], S) <= Limit
                 /\ \A u \in S : clock - u < Window => admitted'[p][u] <= hits'[p][u]
                 /\ \A u \in S : u > clock => admitted'[p][u] = 0
      <3>1. CASE p = o
        <4>1. SumFunctionOnSet(hits'[p], S) <= Limit
          BY <1>2, <1>6, <2>1, <2>4, <2>5, <3>1
        <4>2. ASSUME NEW u \in S, clock - u < Window PROVE admitted'[p][u] <= hits'[p][u]
          <5>1. admitted[o][u] <= recent[u] /\ admitted[o][u] \in Nat /\ recent[u] \in Nat
            BY <1>3, <1>4, <1>5, <1>7, <4>2 DEF Counted
          <5>2. CASE u = now
            <6>1. more[u] = recent[u] + 1
              BY <2>3, <5>2
            <6>2. admitted'[o][u] \in {admitted[o][u], admitted[o][u] + 1}
              BY <2>6, <5>2
            <6> QED BY <2>5, <3>1, <5>1, <6>1, <6>2
          <5>3. CASE u # now
            BY <2>3, <2>5, <2>6, <3>1, <5>1, <5>3
          <5> QED BY <5>2, <5>3
        <4>3. ASSUME NEW u \in S, u > clock PROVE admitted'[p][u] = 0
          <5>1. u # clock
            BY <1>2, <4>3
          <5>2. admitted[o][u] = 0
            BY <1>3, <4>3 DEF Counted
          <5> QED BY <2>6, <3>1, <5>1, <5>2
        <4> QED BY <4>1, <4>2, <4>3
      <3>2. CASE p # o
        BY <2>5, <2>6, <3>2 DEF Counted
      <3> QED BY <3>1, <3>2
    <2> QED BY <1>1, <2>7 DEF Counted
  <1> QED BY <1>9, <1>10 DEF Allow

(* Any window up to now, or one that ends later, has no more.                *)
WindowAhead ==
  \A o \in Orgs, t \in 0..scene.time :
    t >= clock => SumFunctionOnSet(admitted[o], {u \in 0..t : t - u < Window}) <= Limit

(* The hits that count are at most Limit, and cover the admissions.          *)
LEMMA WindowRead == AInv /\ Counted => WindowAhead
  <1> SUFFICES ASSUME AInv, Counted, NEW o \in Orgs, NEW t \in 0..scene.time, t >= clock
               PROVE  SumFunctionOnSet(admitted[o], {u \in 0..t : t - u < Window}) <= Limit
    BY DEF WindowAhead
  <1> DEFINE W == {u \in 0..t : t - u < Window}
             S == 0..scene.time
  <1>1. scene.time \in Nat /\ clock \in Nat /\ clock <= scene.time /\ Window \in Nat /\ Limit \in Nat /\ IsFiniteSet(S)
    BY SlotTypes
  <1>2. W \in SUBSET S /\ IsFiniteSet(W)
    <2>1. W \in SUBSET S
      BY <1>1
    <2> HIDE DEF W, S
    <2> QED BY <1>1, <2>1, FS_Subset
  <1>3. \A u \in S : hits[o][u] \in Nat /\ admitted[o][u] \in Nat
    BY DEF AInv, DoorTyped, Table
  <1>4. \A u \in W : admitted[o][u] <= hits[o][u]
    <2>1. ASSUME NEW u \in W PROVE admitted[o][u] <= hits[o][u]
      <3>1. u \in S /\ u \in Nat /\ t \in Nat /\ t - u < Window
        BY <1>2
      <3>2. CASE u > clock
        BY <1>3, <3>1, <3>2 DEF Counted
      <3>3. CASE u <= clock
        <4>1. clock - u < Window
          BY <1>1, <3>1
        <4> QED BY <3>1, <4>1 DEF Counted
      <3> QED BY <1>1, <3>1, <3>2, <3>3
    <2> QED BY <2>1
  <1> HIDE DEF W, S
  <1>5. \A u \in W : hits[o][u] \in Nat /\ admitted[o][u] \in Nat
    BY <1>2, <1>3
  <1>6. SumFunctionOnSet(admitted[o], W) <= SumFunctionOnSet(hits[o], W)
    BY <1>2, <1>4, <1>5, SumIsMonotone
  <1>7. SumFunctionOnSet(hits[o], W) <= SumFunctionOnSet(hits[o], S)
    BY <1>1, <1>2, <1>3, SumOfPart
  <1>8. SumFunctionOnSet(hits[o], S) <= Limit
    BY DEF Counted, S
  <1>9. SumFunctionOnSet(admitted[o], W) \in Nat /\ SumFunctionOnSet(hits[o], W) \in Nat
        /\ SumFunctionOnSet(hits[o], S) \in Nat
    BY <1>1, <1>2, <1>3, <1>5, SumIsNat
  <1>10. SumFunctionOnSet(admitted[o], W) <= Limit
    BY <1>1, <1>6, <1>7, <1>8, <1>9
  <1> QED BY <1>10 DEF W

(* The past does not change, and the present is within the limit.            *)
LEMMA WindowStep ==
  ASSUME AInv, AInv', Counted, WindowHolds, [ANext]_avars
  PROVE  Counted' /\ WindowHolds'
  <1>1. scene.time \in Nat /\ clock \in Nat /\ clock <= scene.time /\ Window \in Nat
    BY SceneTypes, LimitTypes DEF AInv, DoorTyped
  <1>2. Counted'
    <2>1. CASE \E q \in Requests : Allow(q)
      BY <2>1, AllowCounted
    <2>2. CASE hits' = hits /\ admitted' = admitted /\ scene' = scene
               /\ (clock' = clock \/ (clock' = clock + 1 /\ clock < scene.time))
      <3>1. \A u \in 0..scene.time : (clock' - u < Window => clock - u < Window) /\ (u > clock' => u > clock)
        BY <1>1, <2>2
      <3> QED BY <2>2, <3>1 DEF Counted
    <2> QED BY <2>1, <2>2, LimiterMoves
  <1>3. /\ scene' = scene /\ clock' \in Nat /\ clock' >= clock
        /\ \A o \in Orgs : \A u \in 0..scene.time : u < clock => admitted'[o][u] = admitted[o][u]
        /\ clock' # clock => admitted' = admitted /\ clock' = clock + 1
    <2>1. CASE \E q \in Requests : Allow(q)
      <3>1. PICK q \in Requests : Allow(q)
        BY <2>1
      <3>2. req[q].now \in 0..clock
        BY DEF AInv, DoorTyped, Request
      <3>3. scene' = scene /\ clock' = clock
        BY <3>1 DEF Allow
      <3>4. \A o \in Orgs : \A u \in 0..scene.time : u < clock => admitted'[o][u] = admitted[o][u]
        <4>1. CASE admitted' = admitted
          BY <4>1
        <4>2. CASE req[q].now = clock /\ admitted' = [admitted EXCEPT ![OrgOf[req[q].ticket]][req[q].now] = @ + 1]
          BY <1>1, <4>2 DEF AInv, DoorTyped, Table
        <4> QED BY <3>1, <4>1, <4>2 DEF Allow
      <3> QED BY <1>1, <3>3, <3>4
    <2>2. CASE hits' = hits /\ admitted' = admitted /\ scene' = scene
               /\ (clock' = clock \/ (clock' = clock + 1 /\ clock < scene.time))
      BY <1>1, <2>2
    <2> QED BY <2>1, <2>2, LimiterMoves
  <1>4. ASSUME NEW o \in Orgs, NEW t \in 0..scene.time
        PROVE  SumFunctionOnSet(admitted'[o], {u \in 0..t : t - u < Window}) <= Limit
    <2>1. CASE t >= clock'
      <3>1. WindowAhead'
        BY <1>2, WindowRead, PTL
      <3> QED BY <1>3, <2>1, <3>1 DEF WindowAhead
    <2>2. CASE t < clock'
      <3> DEFINE W == {u \in 0..t : t - u < Window}
      <3>1. SumFunctionOnSet(admitted[o], W) <= Limit
        BY DEF WindowHolds
      <3>2. \A u \in W : admitted'[o][u] = admitted[o][u] /\ admitted[o][u] \in Nat
        <4>1. \A u \in W : u \in 0..scene.time /\ u < clock'
          BY <1>1, <1>3, <2>2
        <4>2. \A u \in W : admitted[o][u] \in Nat
          BY <4>1 DEF AInv, DoorTyped, Table
        <4>3. CASE clock' = clock
          BY <1>3, <4>1, <4>2, <4>3
        <4>4. CASE clock' # clock
          BY <1>3, <4>2, <4>4
        <4> QED BY <4>3, <4>4
      <3>3. IsFiniteSet(W)
        <4>1. W \in SUBSET (0..t) /\ IsFiniteSet(0..t)
          BY FS_Interval
        <4> QED BY <4>1, FS_Subset
      <3> HIDE DEF W
      <3>4. SumFunctionOnSet(admitted[o], W) = SumFunctionOnSet(admitted'[o], W)
        BY <3>2, <3>3, SumOfEquals
      <3> QED BY <3>1, <3>4 DEF W
    <2> QED BY <1>1, <1>3, <2>1, <2>2
  <1> QED BY <1>2, <1>3, <1>4 DEF WindowHolds

(* At the start nothing has been counted.                                    *)
LEMMA CountedInit ==
  ASSUME AInit, AInv
  PROVE  Counted /\ WindowHolds
  <1>1. scene.time \in Nat /\ IsFiniteSet(0..scene.time) /\ Limit \in Nat /\ clock = 0
    BY SlotTypes DEF AInit
  <1>2. \A o \in Orgs : \A u \in 0..scene.time : hits[o][u] = 0 /\ admitted[o][u] = 0
    BY DEF AInit
  <1>3. Counted
    <2>1. ASSUME NEW o \in Orgs PROVE SumFunctionOnSet(hits[o], 0..scene.time) <= Limit
      <3>1. SumFunctionOnSet(hits[o], {}) = SumFunctionOnSet(hits[o], 0..scene.time)
        <4>1. \A u \in 0..scene.time : hits[o][u] \in Nat
          BY <1>2
        <4> QED BY <1>1, <1>2, <4>1, SumOfPart
      <3>2. SumFunctionOnSet(hits[o], {}) = 0
        BY FS_EmptySet, SumTakesOne
      <3> QED BY <1>1, <3>1, <3>2
    <2>2. \A o \in Orgs, u \in 0..scene.time : admitted[o][u] <= hits[o][u]
      BY <1>2
    <2> QED BY <1>2, <2>1, <2>2 DEF Counted
  <1>4. \A t \in 0..scene.time : t >= clock
    BY <1>1
  <1>5. WindowHolds
    BY <1>3, <1>4, WindowRead DEF WindowHolds, WindowAhead
  <1> QED BY <1>3, <1>5

-----------------------------------------------------------------------------
(* The bill.                                                                 *)

(* The workers that wait for the model on the bill of o.                     *)
Calls(o) == {w \in Workers : busy[w].calling /\ OrgOf[runs[busy[w].run].ticket] \in o}
Slack == Cardinality(Workers) * Dearest
(* What is spent and what is still being spent is below the budget and one   *)
(* call a worker.                                                            *)
Headroom(o, b) == Spent(o) + Cardinality(Calls(o)) * Dearest < b + Slack
Past(o, b) == \A d \in 1..scene.days : d < today => SumFunctionOnSet(EarlyBill, Billed(o, d)) < b + Slack
Todays ==
  \A r \in DOMAIN runs :
    /\ runs[r].day <= today
    /\ runs[r].day = today => runs[r].early = runs[r].cost
    /\ runs[r].cost < RunCap + Dearest
Budgets == {<<{m}, OrgBudget>> : m \in Orgs} \cup {<<Orgs, PlatformBudget>>}
Billing == Todays /\ \A p \in Budgets : Headroom(p[1], p[2]) /\ Past(p[1], p[2])

(* There is a dearest call, and it bounds the cost of every call.            *)
LEMMA DearestType ==
  /\ Dearest \in Costs /\ Dearest \in Nat /\ Dearest > 0
  /\ \A c \in Costs : c \in Nat /\ c <= Dearest
  <1>1. PICK c \in Costs : \A d \in Costs : d <= c
    BY LimitsAssumption
  <1>2. \A d \in Costs : d \in Nat /\ d > 0
    BY LimitsAssumption
  <1>3. \E x \in Costs : \A y \in Costs : x >= y
    BY <1>1, <1>2
  <1>4. Dearest \in Costs /\ \A y \in Costs : Dearest >= y
    BY <1>3 DEF Dearest, Max
  <1> QED BY <1>2, <1>4

(* A multiple is a number, and one more adds one.                            *)
LEMMA Times ==
  ASSUME NEW n \in Nat, NEW d \in Nat
  PROVE  n * d \in Nat /\ (n + 1) * d = n * d + d
  OBVIOUS

(* A multiple grows with what is multiplied.                                 *)
LEMMA TimesGrows ==
  ASSUME NEW n \in Nat, NEW m \in Nat, n <= m, NEW d \in Nat
  PROVE  n * d <= m * d
  <1>1. PICK k \in Nat : m = n + k
    <2>1. m - n \in Nat /\ m = n + (m - n)
      OBVIOUS
    <2> QED BY <2>1
  <1>2. (n + k) * d = n * d + k * d
    OBVIOUS
  <1>3. n * d \in Nat /\ k * d \in Nat
    OBVIOUS
  <1> QED BY <1>1, <1>2, <1>3

(* The slack allowed is a number, for the workers are finitely many.         *)
LEMMA SlackType ==
  Slack \in Nat /\ Cardinality(Workers) \in Nat
  <1>1. Cardinality(Workers) \in Nat
    BY ScenesAssumption, FS_CardinalityType
  <1> QED BY <1>1, DearestType, Times DEF Slack

(* Fewer callers cost less, and there are never more than workers.           *)
LEMMA CallsType ==
  ASSUME NEW o
  PROVE  /\ IsFiniteSet(Calls(o)) /\ Cardinality(Calls(o)) \in Nat
         /\ Cardinality(Calls(o)) * Dearest \in Nat /\ Cardinality(Calls(o)) * Dearest <= Slack
  <1>1. Calls(o) \in SUBSET Workers
    BY DEF Calls
  <1>2. /\ IsFiniteSet(Calls(o)) /\ Cardinality(Calls(o)) \in Nat
        /\ Cardinality(Calls(o)) <= Cardinality(Workers)
    BY <1>1, ScenesAssumption, FS_Subset, FS_CardinalityType
  <1> QED BY <1>2, SlackType, DearestType, Times, TimesGrows DEF Slack

(* Fewer callers can spend no more.                                          *)
LEMMA CallsShrink ==
  ASSUME NEW s, NEW t, IsFiniteSet(t), s \subseteq t
  PROVE  /\ Cardinality(s) * Dearest <= Cardinality(t) * Dearest
         /\ Cardinality(s) * Dearest \in Nat /\ Cardinality(t) * Dearest \in Nat
  <1>1. /\ IsFiniteSet(s) /\ Cardinality(s) <= Cardinality(t)
        /\ Cardinality(s) \in Nat /\ Cardinality(t) \in Nat
    <2>1. s \in SUBSET t
      OBVIOUS
    <2> QED BY <2>1, FS_Subset, FS_CardinalityType
  <1> QED BY <1>1, DearestType, Times, TimesGrows

(* One caller more can spend one dearest call more.                          *)
LEMMA CallsGrow ==
  ASSUME NEW s, NEW w, IsFiniteSet(s), w \notin s
  PROVE  Cardinality(s \cup {w}) * Dearest = Cardinality(s) * Dearest + Dearest
  <1>1. Cardinality(s) \in Nat /\ Cardinality(s \cup {w}) = Cardinality(s) + 1
    BY FS_CardinalityType, FS_AddElement
  <1> QED BY <1>1, DearestType, Times

(* The runs on a bill, and what they cost.                                   *)
LEMMA BillTypes ==
  ASSUME AInv, NEW o, NEW d
  PROVE  /\ Billed(o, d) \in SUBSET DOMAIN runs /\ IsFiniteSet(Billed(o, d)) /\ IsFiniteSet(DOMAIN runs)
         /\ \A r \in DOMAIN runs : /\ Bill[r] = runs[r].cost /\ EarlyBill[r] = runs[r].early
                                   /\ Bill[r] \in Nat /\ EarlyBill[r] \in Nat /\ runs[r] \in RunRecord
         /\ SumFunctionOnSet(Bill, Billed(o, d)) \in Nat
         /\ SumFunctionOnSet(EarlyBill, Billed(o, d)) \in Nat
  <1>1. runs \in Seq(RunRecord) /\ Len(runs) \in Nat /\ DOMAIN runs = 1..Len(runs)
    <2> HIDE DEF RunRecord
    <2> QED BY DEF AInv, RunsTyped
  <1>2. Billed(o, d) \in SUBSET DOMAIN runs
    BY DEF Billed
  <1>3. IsFiniteSet(DOMAIN runs)
    BY <1>1, FS_Interval
  <1>4. IsFiniteSet(Billed(o, d))
    BY <1>2, <1>3, FS_Subset
  <1>5. \A r \in DOMAIN runs : runs[r] \in RunRecord
    <2> HIDE DEF RunRecord
    <2> QED BY <1>1
  <1>6. \A r \in DOMAIN runs : /\ Bill[r] = runs[r].cost /\ EarlyBill[r] = runs[r].early
                               /\ Bill[r] \in Nat /\ EarlyBill[r] \in Nat
    BY <1>5, RunFields DEF Bill, EarlyBill
  <1>7. SumFunctionOnSet(Bill, Billed(o, d)) \in Nat
    BY <1>2, <1>4, <1>6, SumIsNat
  <1>8. SumFunctionOnSet(EarlyBill, Billed(o, d)) \in Nat
    BY <1>2, <1>4, <1>6, SumIsNat
  <1> QED BY <1>2, <1>3, <1>4, <1>5, <1>6, <1>7, <1>8

(* Every budget is a positive number.                                        *)
LEMMA BudgetTypes ==
  ASSUME NEW p \in Budgets
  PROVE  p[2] \in Nat /\ p[2] > 0
  BY LimitTypes DEF Budgets

(* The bills a merchant's run is on: the merchant's own, and the platform's. *)
LEMMA BillOfBudget ==
  ASSUME NEW p \in Budgets, NEW m \in p[1]
  PROVE  \/ p[1] = {m} /\ p[2] = OrgBudget
         \/ p[1] = Orgs /\ p[2] = PlatformBudget
  <1>1. CASE p = <<Orgs, PlatformBudget>>
    BY <1>1
  <1>2. CASE \E n \in Orgs : p = <<{n}, OrgBudget>>
    <2>1. PICK n \in Orgs : p = <<{n}, OrgBudget>>
      BY <1>2
    <2>2. p[1] = {n} /\ p[2] = OrgBudget
      BY <2>1
    <2>3. m = n
      BY <2>2
    <2> QED BY <2>2, <2>3
  <1> QED BY <1>1, <1>2 DEF Budgets

-----------------------------------------------------------------------------
(* A step that bills nothing. *)

(* No run's bill changes, and nobody begins to wait for the model.           *)
NothingBilled ==
  /\ today' = today /\ scene' = scene /\ DOMAIN runs' = DOMAIN runs
  /\ \A r \in DOMAIN runs :
       /\ runs'[r].ticket = runs[r].ticket /\ runs'[r].day = runs[r].day
       /\ runs'[r].cost = runs[r].cost /\ runs'[r].early = runs[r].early
  /\ \A w \in Workers : busy'[w].calling => busy[w].calling /\ busy'[w].run = busy[w].run

(* A step that bills nothing and starts no call keeps the bills' room.       *)
LEMMA NothingBilledStep ==
  ASSUME AInv, Billing, NothingBilled
  PROVE  Billing'
  <1>1. Bill' = Bill /\ EarlyBill' = EarlyBill
    BY DEF NothingBilled, Bill, EarlyBill
  <1>2. ASSUME NEW o, NEW d PROVE Billed(o, d)' = Billed(o, d)
    BY DEF NothingBilled, Billed
  <1>3. ASSUME NEW o PROVE Calls(o)' \subseteq Calls(o)
    <2>1. \A w \in Workers : busy[w].calling => busy[w].run \in DOMAIN runs
      BY HandTyped DEF AInv, Driven
    <2> QED BY <2>1 DEF NothingBilled, Calls
  <1>4. ASSUME NEW p \in Budgets PROVE Headroom(p[1], p[2])' /\ Past(p[1], p[2])'
    <2>1. PICK o, b : o = p[1] /\ b = p[2]
      OBVIOUS
    <2>2. Headroom(o, b) /\ Past(o, b) /\ b \in Nat
      BY <2>1, BudgetTypes DEF Billing
    <2>3. Spent(o)' = Spent(o)
      BY <1>1, <1>2 DEF Spent, NothingBilled
    <2>4. Past(o, b)'
      BY <1>1, <1>2, <2>2 DEF Past, NothingBilled, Slack, Dearest
    <2>5. /\ Cardinality(Calls(o)') * Dearest <= Cardinality(Calls(o)) * Dearest
          /\ Cardinality(Calls(o)') * Dearest \in Nat /\ Cardinality(Calls(o)) * Dearest \in Nat
      <3>1. PICK s, t : s = Calls(o)' /\ t = Calls(o)
        OBVIOUS
      <3>2. IsFiniteSet(t) /\ s \subseteq t
        BY <1>3, <3>1, CallsType
      <3> QED BY <3>1, <3>2, CallsShrink
    <2>6. Spent(o) \in Nat /\ Slack \in Nat
      BY BillTypes, SlackType DEF Spent
    <2>7. Headroom(o, b)'
      BY <2>2, <2>3, <2>5, <2>6 DEF Headroom, Slack, Dearest
    <2> QED BY <2>1, <2>4, <2>7
  <1>5. Todays'
    BY DEF Billing, Todays, NothingBilled, Dearest
  <1> QED BY <1>4, <1>5 DEF Billing

-----------------------------------------------------------------------------
(* The steps that touch a bill. *)

(* A new run costs nothing.                                                  *)
LEMMA InsertBilled ==
  ASSUME AInv, Billing, NEW q \in Requests, Insert(q)
  PROVE  Billing'
  <1> DEFINE n == Len(runs) + 1
  <1>1. /\ Fresh(q) \in RunRecord /\ Len(runs') = n /\ \A r \in DOMAIN runs : runs'[r] = runs[r]
        /\ DOMAIN runs' = DOMAIN runs \cup {n} /\ runs'[n] = Fresh(q)
    BY InsertTypes
  <1>2. scene' = scene /\ busy' = busy /\ today' = today
    BY DEF Insert
  <1>3. Fresh(q).cost = 0 /\ Fresh(q).early = 0 /\ Fresh(q).day = today
    BY DEF Fresh
  <1>4. n \notin DOMAIN runs
    BY DEF AInv, RunsTyped
  <1> HIDE DEF n
  <1>5. /\ \A r \in DOMAIN runs : Bill'[r] = Bill[r] /\ EarlyBill'[r] = EarlyBill[r]
        /\ Bill'[n] = 0 /\ EarlyBill'[n] = 0
    BY <1>1, <1>3 DEF Bill, EarlyBill
  <1>6. ASSUME NEW o, NEW d
        PROVE  Billed(o, d)' = Billed(o, d) \/ Billed(o, d)' = Billed(o, d) \cup {n}
    BY <1>1 DEF Billed
  <1>7. ASSUME NEW o PROVE Calls(o)' = Calls(o)
    <2>1. \A w \in Workers : busy[w].calling => busy[w].run \in DOMAIN runs
      BY HandTyped DEF AInv, Driven
    <2> QED BY <1>1, <1>2, <2>1 DEF Calls
  <1>8. ASSUME NEW o, NEW d
        PROVE  /\ SumFunctionOnSet(Bill, Billed(o, d))' = SumFunctionOnSet(Bill, Billed(o, d))
               /\ SumFunctionOnSet(EarlyBill, Billed(o, d))' = SumFunctionOnSet(EarlyBill, Billed(o, d))
    <2>1. PICK B, C, v, w, e, f : /\ B = Billed(o, d) /\ C = Billed(o, d)' /\ v = Bill /\ w = Bill'
                                  /\ e = EarlyBill /\ f = EarlyBill'
      OBVIOUS
    <2>2. /\ B \in SUBSET DOMAIN runs /\ IsFiniteSet(B)
          /\ \A r \in B : v[r] \in Nat /\ e[r] \in Nat
      BY <2>1, BillTypes
    <2>3. C = B \/ C = B \cup {n}
      BY <1>6, <2>1
    <2>4. \A r \in B : w[r] = v[r] /\ f[r] = e[r]
      BY <1>5, <2>1, <2>2
    <2>5. SumFunctionOnSet(v, B) = SumFunctionOnSet(w, B) /\ SumFunctionOnSet(e, B) = SumFunctionOnSet(f, B)
      BY <2>2, <2>4, SumOfEquals
    <2>6. IsFiniteSet(C) /\ B \in SUBSET C /\ \A r \in C : w[r] \in Nat /\ f[r] \in Nat
      <3>1. IsFiniteSet(B \cup {n})
        BY <2>2, FS_AddElement
      <3> QED BY <1>5, <2>1, <2>2, <2>3, <2>4, <3>1
    <2>7. \A r \in C \ B : w[r] = 0 /\ f[r] = 0
      BY <1>5, <2>1, <2>3
    <2>8. SumFunctionOnSet(w, B) = SumFunctionOnSet(w, C)
      BY <2>6, <2>7, SumOfPart
    <2>9. SumFunctionOnSet(f, B) = SumFunctionOnSet(f, C)
      BY <2>6, <2>7, SumOfPart
    <2> QED BY <2>1, <2>5, <2>8, <2>9
  <1>9. ASSUME NEW p \in Budgets PROVE Headroom(p[1], p[2])' /\ Past(p[1], p[2])'
    <2>1. PICK o, b : o = p[1] /\ b = p[2]
      OBVIOUS
    <2>2. Headroom(o, b) /\ Past(o, b)
      BY <2>1 DEF Billing
    <2>3. Spent(o)' = Spent(o)
      BY <1>2, <1>8 DEF Spent
    <2>4. Past(o, b)'
      BY <1>2, <1>8, <2>2 DEF Past, Slack, Dearest
    <2>5. Headroom(o, b)'
      BY <1>7, <2>2, <2>3 DEF Headroom, Slack, Dearest
    <2> QED BY <2>1, <2>4, <2>5
  <1>10. Todays'
    <2>1. today \in Nat /\ RunCap > 0 /\ RunCap \in Nat
      BY SceneTypes, LimitTypes DEF AInv, DoorTyped
    <2>2. today <= today /\ 0 < RunCap + Dearest
      BY <2>1, DearestType
    <2> QED BY <1>1, <1>2, <1>3, <2>2 DEF Billing, Todays, Dearest
  <1> QED BY <1>9, <1>10 DEF Billing

(* A call is made when its bills are below their budgets.                    *)
LEMMA AskBilled ==
  ASSUME AInv, Billing, NEW w \in Workers, AskModel(w)
  PROVE  Billing'
  <1> DEFINE r == busy[w].run
  <1>1. /\ UNCHANGED <<scene, door, today, runs>> /\ r # 0 /\ ~busy[w].calling /\ ~Breach(r)
        /\ busy' = [busy EXCEPT ![w].calling = TRUE]
    BY DEF AskModel, Turn
  <1>2. r \in DOMAIN runs /\ busy[w] \in Hand
    BY <1>1, HandTyped
  <1>3. /\ busy'[w].calling /\ busy'[w].run = r
        /\ \A v \in Workers : v # w => busy'[v] = busy[v]
    BY <1>1, <1>2 DEF AInv, RunsTyped, Hand
  <1> HIDE DEF r
  <1>4. Bill' = Bill /\ EarlyBill' = EarlyBill /\ (\A o, d : Billed(o, d)' = Billed(o, d))
    BY <1>1 DEF Bill, EarlyBill, Billed
  <1>5. ASSUME NEW p \in Budgets PROVE Headroom(p[1], p[2])' /\ Past(p[1], p[2])'
    <2>1. PICK o, b : o = p[1] /\ b = p[2]
      OBVIOUS
    <2>2. Headroom(o, b) /\ Past(o, b) /\ b \in Nat
      BY <2>1, BudgetTypes DEF Billing
    <2>3. Spent(o)' = Spent(o) /\ Spent(o) \in Nat
      BY <1>1, <1>4, BillTypes DEF Spent
    <2>4. Past(o, b)'
      BY <1>1, <1>4, <2>2 DEF Past, Slack, Dearest
    <2>5. Calls(o)' = IF OrgOf[runs[r].ticket] \in o THEN Calls(o) \cup {w} ELSE Calls(o)
      BY <1>1, <1>3 DEF Calls
    <2>6. CASE OrgOf[runs[r].ticket] \in o
      <3>1. Spent(o) < b
        <4>1. runs[r].ticket \in Tickets
          BY <1>2, BillTypes, RunFields
        <4>2. ~(Spent({OrgOf[runs[r].ticket]}) >= OrgBudget) /\ ~(Spent(Orgs) >= PlatformBudget)
          BY <1>1 DEF Breach
        <4>3. \/ o = {OrgOf[runs[r].ticket]} /\ b = OrgBudget
              \/ o = Orgs /\ b = PlatformBudget
          BY <2>1, <2>6, BillOfBudget
        <4> QED BY <2>2, <2>3, <4>2, <4>3
      <3>2. Cardinality(Calls(o)') * Dearest <= Slack /\ Cardinality(Calls(o)') * Dearest \in Nat
        <4>1. PICK s : s = Calls(o)'
          OBVIOUS
        <4>2. s \subseteq Workers
          BY <4>1 DEF Calls
        <4>3. IsFiniteSet(Workers)
          BY ScenesAssumption
        <4>4. Cardinality(s) * Dearest <= Cardinality(Workers) * Dearest /\ Cardinality(s) * Dearest \in Nat
          BY <4>2, <4>3, CallsShrink
        <4> QED BY <4>1, <4>4 DEF Slack
      <3>3. Spent(o) + Cardinality(Calls(o)') * Dearest < b + Slack
        BY <2>2, <2>3, <3>1, <3>2, SlackType
      <3> QED BY <2>3, <2>4, <2>1, <3>3 DEF Headroom, Slack, Dearest
    <2>7. CASE OrgOf[runs[r].ticket] \notin o
      BY <2>1, <2>2, <2>3, <2>4, <2>5, <2>7 DEF Headroom, Slack, Dearest
    <2> QED BY <2>6, <2>7
  <1>6. Todays'
    BY <1>1 DEF Billing, Todays, Dearest
  <1> QED BY <1>5, <1>6 DEF Billing

(* Yesterday's bills are closed, and today's are empty.                      *)
LEMMA MidnightBilled ==
  ASSUME AInv, Billing, Midnight
  PROVE  Billing'
  <1>1. scene' = scene /\ runs' = runs /\ busy' = busy /\ today' = today + 1 /\ today < scene.days
    BY DEF Midnight
  <1>2. today \in Nat /\ scene.days \in Nat
    BY SceneTypes DEF AInv, DoorTyped
  <1>3. Bill' = Bill /\ EarlyBill' = EarlyBill /\ (\A o, d : Billed(o, d)' = Billed(o, d)) /\ \A o : Calls(o)' = Calls(o)
    BY <1>1 DEF Bill, EarlyBill, Billed, Calls
  <1>4. \A r \in DOMAIN runs : runs[r] \in RunRecord /\ runs[r].day \in Nat /\ runs[r].day <= today
    <2>1. \A r \in DOMAIN runs : runs[r] \in RunRecord
      BY BillTypes
    <2>2. \A r \in DOMAIN runs : runs[r].day \in Nat
      BY <1>2, <2>1, RunFields
    <2> QED BY <2>1, <2>2 DEF Billing, Todays
  <1>5. ASSUME NEW p \in Budgets PROVE Headroom(p[1], p[2])' /\ Past(p[1], p[2])'
    <2>1. PICK o, b : o = p[1] /\ b = p[2]
      OBVIOUS
    <2>2. Headroom(o, b) /\ Past(o, b) /\ b \in Nat /\ b > 0
      BY <2>1, BudgetTypes DEF Billing
    <2>3. Cardinality(Calls(o)) * Dearest \in Nat /\ Cardinality(Calls(o)) * Dearest <= Slack /\ Slack \in Nat
      BY CallsType, SlackType
    <2>4. SumFunctionOnSet(EarlyBill, Billed(o, today)) < b + Slack
      <3>1. SumFunctionOnSet(EarlyBill, Billed(o, today)) = Spent(o)
        <4>1. \A r \in Billed(o, today) : EarlyBill[r] = Bill[r] /\ EarlyBill[r] \in Nat
          <5>1. \A r \in Billed(o, today) : r \in DOMAIN runs /\ runs[r].day = today
            BY DEF Billed
          <5> QED BY <5>1, BillTypes DEF Billing, Todays
        <4>2. IsFiniteSet(Billed(o, today))
          BY BillTypes
        <4> QED BY <4>1, <4>2, SumOfEquals DEF Spent
      <3>2. Spent(o) \in Nat
        BY BillTypes DEF Spent
      <3> QED BY <2>2, <2>3, <3>1, <3>2 DEF Headroom
    <2>5. Past(o, b)'
      <3>1. ASSUME NEW d \in 1..scene.days, d < today + 1
            PROVE  SumFunctionOnSet(EarlyBill, Billed(o, d)) < b + Slack
        <4>1. d = today \/ d < today
          BY <1>2, <3>1
        <4> QED BY <2>2, <2>4, <4>1 DEF Past
      <3> QED BY <1>1, <1>3, <3>1 DEF Past, Slack, Dearest
    <2>6. Spent(o)' = 0
      <3>1. Billed(o, today + 1) = {}
        BY <1>2, <1>4 DEF Billed
      <3>2. SumFunctionOnSet(Bill, {}) = 0
        BY FS_EmptySet, SumTakesOne
      <3> QED BY <1>1, <1>3, <3>1, <3>2 DEF Spent
    <2>7. 0 + Cardinality(Calls(o)) * Dearest < b + Slack
      BY <2>2, <2>3
    <2>8. Headroom(o, b)'
      BY <1>3, <2>6, <2>7 DEF Headroom, Slack, Dearest
    <2> QED BY <2>1, <2>5, <2>8
  <1>6. Todays'
    <2>1. \A r \in DOMAIN runs : runs[r].day <= today + 1 /\ runs[r].day # today + 1
      BY <1>2, <1>4
    <2> QED BY <1>1, <2>1 DEF Billing, Todays, Dearest
  <1> QED BY <1>5, <1>6 DEF Billing

(* An answer costs no more than the room its call was left, and its caller   *)
(* stops waiting.                                                            *)
LEMMA ReplyBilled ==
  ASSUME AInv, Billing, NEW w \in Workers, NEW c \in Costs, NEW r \in DOMAIN runs, NEW x \in RunRecord,
         busy[w].run = r, busy[w].calling,
         UNCHANGED <<scene, door, today>>, runs' = [runs EXCEPT ![r] = x],
         x.ticket = runs[r].ticket, x.day = runs[r].day, x.cost = runs[r].cost + c,
         x.early = IF runs[r].day = today THEN runs[r].early + c ELSE runs[r].early,
         ~busy'[w].calling, \A v \in Workers : v # w => busy'[v] = busy[v]
  PROVE  Billing'
  <1>1. c \in Nat /\ c <= Dearest /\ Dearest \in Nat
    BY DearestType
  <1>2. /\ DOMAIN runs' = DOMAIN runs /\ runs'[r] = x /\ \A s \in DOMAIN runs : s # r => runs'[s] = runs[s]
    OBVIOUS
  <1>3. /\ runs[r].cost \in Nat /\ runs[r].early \in Nat /\ runs[r].cost < RunCap /\ RunCap \in Nat
        /\ today' = today /\ scene' = scene
    BY BillTypes, RunFields, LimitTypes DEF AInv, Driven
  <1>4. /\ \A s \in DOMAIN runs : s # r => Bill'[s] = Bill[s] /\ EarlyBill'[s] = EarlyBill[s]
        /\ Bill'[r] = Bill[r] + c
        /\ EarlyBill'[r] = IF runs[r].day = today THEN EarlyBill[r] + c ELSE EarlyBill[r]
    BY <1>2 DEF Bill, EarlyBill
  <1>5. ASSUME NEW o, NEW d PROVE Billed(o, d)' = Billed(o, d)
    BY <1>2 DEF Billed
  <1>6. ASSUME NEW o, NEW d, d # today
        PROVE  SumFunctionOnSet(EarlyBill, Billed(o, d))' = SumFunctionOnSet(EarlyBill, Billed(o, d))
    <2>1. PICK B, e, f : B = Billed(o, d) /\ e = EarlyBill /\ f = EarlyBill'
      OBVIOUS
    <2>2. /\ IsFiniteSet(B) /\ B \in SUBSET DOMAIN runs /\ \A s \in B : e[s] \in Nat
          /\ \A s \in B : runs[s].day = d
      <3>1. IsFiniteSet(B) /\ B \in SUBSET DOMAIN runs /\ \A s \in B : e[s] \in Nat
        BY <2>1, BillTypes
      <3>2. \A s \in B : runs[s].day = d
        BY <2>1 DEF Billed
      <3> QED BY <3>1, <3>2
    <2>3. \A s \in B : e[s] = f[s]
      BY <1>4, <1>6, <2>1, <2>2
    <2>4. SumFunctionOnSet(e, B) = SumFunctionOnSet(f, B)
      BY <2>2, <2>3, SumOfEquals
    <2> QED BY <1>5, <2>1, <2>4
  <1>7. ASSUME NEW o PROVE Spent(o)' = Spent(o) + (IF r \in Billed(o, today) THEN c ELSE 0)
    <2>1. PICK B, e, f : B = Billed(o, today) /\ e = Bill /\ f = Bill'
      OBVIOUS
    <2>2. /\ IsFiniteSet(B) /\ B \in SUBSET DOMAIN runs /\ \A s \in B : e[s] \in Nat
      BY <2>1, BillTypes
    <2>3. Spent(o) = SumFunctionOnSet(e, B) /\ Spent(o)' = SumFunctionOnSet(f, B)
      BY <1>3, <1>5, <2>1 DEF Spent
    <2>4. \A s \in B : s # r => e[s] = f[s]
      BY <1>4, <2>1, <2>2
    <2>5. f[r] = e[r] + c
      BY <1>4, <2>1
    <2>6. CASE r \in B
      <3>1. SumFunctionOnSet(f, B) = SumFunctionOnSet(e, B) + c
        BY <1>1, <2>2, <2>4, <2>5, <2>6, SumGrows
      <3> QED BY <2>1, <2>3, <2>6, <3>1
    <2>7. CASE r \notin B
      <3>1. \A s \in B : e[s] = f[s] /\ e[s] \in Nat
        BY <2>2, <2>4, <2>7
      <3>2. SumFunctionOnSet(e, B) = SumFunctionOnSet(f, B) /\ SumFunctionOnSet(e, B) \in Nat
        BY <2>2, <3>1, SumOfEquals, SumIsNat
      <3> QED BY <2>1, <2>3, <2>7, <3>2
    <2> QED BY <2>6, <2>7
  <1>8. ASSUME NEW o PROVE Calls(o)' = Calls(o) \ {w}
    <2>1. \A v \in Workers : busy[v].calling => busy[v].run \in DOMAIN runs
      BY HandTyped DEF AInv, Driven
    <2>2. \A s \in DOMAIN runs : runs'[s].ticket = runs[s].ticket
      BY <1>2
    <2> QED BY <2>1, <2>2 DEF Calls
  <1>9. ASSUME NEW p \in Budgets PROVE Headroom(p[1], p[2])' /\ Past(p[1], p[2])'
    <2>1. PICK o, b : o = p[1] /\ b = p[2]
      OBVIOUS
    <2>2. Headroom(o, b) /\ Past(o, b) /\ b \in Nat
      BY <2>1, BudgetTypes DEF Billing
    <2>3. today \in Nat /\ scene.days \in Nat
      BY SceneTypes DEF AInv, DoorTyped
    <2>4. Past(o, b)'
      <3>1. ASSUME NEW d \in 1..scene.days, d < today
            PROVE  SumFunctionOnSet(EarlyBill, Billed(o, d))' < b + Slack
        <4>1. d # today
          BY <2>3, <3>1
        <4> QED BY <1>6, <2>2, <3>1, <4>1 DEF Past
      <3> QED BY <1>3, <3>1 DEF Past, Slack, Dearest
    <2>5. Spent(o) \in Nat /\ Slack \in Nat
      BY BillTypes, SlackType DEF Spent
    <2>6. PICK S, T : S = Calls(o) /\ T = Calls(o)'
      OBVIOUS
    <2>7. IsFiniteSet(S) /\ Cardinality(S) * Dearest \in Nat
      BY <2>6, CallsType
    <2>8. T = S \ {w}
      BY <1>8, <2>6
    <2>9. IsFiniteSet(T) /\ Cardinality(T) * Dearest <= Cardinality(S) * Dearest /\ Cardinality(T) * Dearest \in Nat
      <3>1. IsFiniteSet(T)
        BY <2>7, <2>8, FS_Subset
      <3> QED BY <2>7, <2>8, <3>1, CallsShrink
    <2>10. CASE r \in Billed(o, today)
      <3>1. w \in S
        BY <2>6, <2>10 DEF Calls, Billed
      <3>2. S = T \cup {w} /\ w \notin T
        BY <2>8, <3>1
      <3>3. Cardinality(S) * Dearest = Cardinality(T) * Dearest + Dearest
        BY <2>9, <3>2, CallsGrow
      <3>4. Spent(o)' = Spent(o) + c
        BY <1>7, <2>10
      <3>5. Spent(o) + Cardinality(S) * Dearest < b + Slack
        BY <2>2, <2>6 DEF Headroom
      <3>6. (Spent(o) + c) + Cardinality(T) * Dearest < b + Slack
        BY <1>1, <2>2, <2>5, <2>9, <3>3, <3>5
      <3>7. Spent(o)' + Cardinality(T) * Dearest < b + Slack
        BY <3>4, <3>6
      <3> QED BY <2>1, <2>4, <2>6, <3>7 DEF Headroom, Slack, Dearest
    <2>11. CASE r \notin Billed(o, today)
      <3>1. Spent(o)' = Spent(o)
        BY <1>7, <2>5, <2>11
      <3>2. Spent(o) + Cardinality(S) * Dearest < b + Slack
        BY <2>2, <2>6 DEF Headroom
      <3>3. Spent(o) + Cardinality(T) * Dearest < b + Slack
        BY <2>2, <2>5, <2>7, <2>9, <3>2
      <3>4. Spent(o)' + Cardinality(T) * Dearest < b + Slack
        BY <3>1, <3>3
      <3> QED BY <2>1, <2>4, <2>6, <3>4 DEF Headroom, Slack, Dearest
    <2> QED BY <2>10, <2>11
  <1>10. Todays'
    <2>1. x.cost < RunCap + Dearest
      BY <1>1, <1>3
    <2>2. x.day = today => x.early = x.cost
      BY DEF Billing, Todays
    <2> QED BY <1>2, <1>3, <2>1, <2>2 DEF Billing, Todays, Dearest
  <1> QED BY <1>9, <1>10 DEF Billing

(* A recorded reply turns the room kept for its caller into a cost.          *)
LEMMA RecordReplyBilled ==
  ASSUME AInv, Billing, NEW w \in Workers, RecordReply(w)
  PROVE  Billing'
  <1> DEFINE r == busy[w].run
  <1>1. /\ r # 0 /\ busy[w].calling /\ runs[r].status = "running"
        /\ UNCHANGED <<scene, door, today>>
    BY DEF RecordReply
  <1>2. r \in DOMAIN runs /\ runs[r] \in RunRecord /\ runs[r].steps \in Int /\ scene.steps \in Nat
    BY <1>1, HandTyped
  <1>3. runs[r].steps < scene.steps
    BY <1>1 DEF AInv, Driven
  <1>4. PICK c \in Costs, s \in {"running", "succeeded", "failed"}, n \in {1, 2} :
          /\ runs' = [runs EXCEPT ![r] = Charged(runs[r], c, s, n)]
          /\ busy' = [busy EXCEPT ![w].calling = FALSE] \/ PutDown(w)
    BY <1>1, <1>2 DEF RecordReply
  <1>5. c \in Nat
    BY LimitsAssumption
  <1>6. busy[w].run = r
    BY DEF r
  <1> HIDE DEF r
  <1>7. PICK x : x = Charged(runs[r], c, s, n)
    OBVIOUS
  <1>8. /\ x \in RunRecord /\ Kept(runs[r], x) /\ x.cost = runs[r].cost + c
        /\ x.early = IF runs[r].day = today THEN runs[r].early + c ELSE runs[r].early
    <2>1. runs[r].steps + n <= scene.steps + 1 /\ s \in Statuses /\ n \in Nat
      BY <1>2, <1>3 DEF Statuses
    <2> QED BY <1>1, <1>2, <1>5, <1>7, <2>1, ChargedWritten
  <1>9. x.ticket = runs[r].ticket /\ x.day = runs[r].day
    BY <1>8 DEF Kept
  <1>10. ~busy'[w].calling /\ \A v \in Workers : v # w => busy'[v] = busy[v]
    <2>1. busy \in [Workers -> Hand]
      BY DEF AInv, RunsTyped
    <2>2. CASE busy' = [busy EXCEPT ![w].calling = FALSE]
      <3>1. busy[w] \in Hand
        BY <2>1
      <3>2. [busy[w] EXCEPT !.calling = FALSE].calling = FALSE
        BY <3>1 DEF Hand
      <3> QED BY <2>1, <2>2, <3>2
    <2>3. CASE PutDown(w)
      BY <2>1, <2>3 DEF PutDown, Idle
    <2> QED BY <1>4, <2>2, <2>3
  <1>11. runs' = [runs EXCEPT ![r] = x]
    BY <1>4, <1>7
  <1> QED BY <1>1, <1>2, <1>6, <1>8, <1>9, <1>10, <1>11, ReplyBilled

(* A run whose status, steps or flags change, and whose worker goes on       *)
(* without a call.                                                           *)
LEMMA QuietWrite ==
  ASSUME AInv, NEW r \in DOMAIN runs, NEW x, runs' = [runs EXCEPT ![r] = x],
         x.ticket = runs[r].ticket, x.day = runs[r].day, x.cost = runs[r].cost, x.early = runs[r].early,
         today' = today, scene' = scene,
         \A v \in Workers : busy'[v].calling => busy'[v] = busy[v]
  PROVE  NothingBilled
  BY DEF NothingBilled

(* Admission bills nothing.                                                  *)
LEMMA DoorQuiet ==
  ASSUME AInv, NEW q \in Requests, Arrive(q) \/ Allow(q) \/ LookUp(q)
  PROVE  NothingBilled
  <1>1. scene' = scene /\ runs' = runs /\ busy' = busy /\ today' = today
    BY DEF Arrive, Allow, LookUp
  <1> QED BY <1>1 DEF NothingBilled

(* A worker bills only the replies it records.                               *)
LEMMA WorkQuiet ==
  ASSUME AInv, NEW w \in Workers, Claim(w) \/ Exhaust(w) \/ Settle(w) \/ LeaseLost(w)
  PROVE  NothingBilled
  <1>1. scene' = scene /\ today' = today
    BY DEF Claim, Exhaust, Settle, LeaseLost
  <1>2. busy \in [Workers -> Hand] /\ \A r \in DOMAIN runs : runs[r] \in RunRecord /\ runs[r].steps \in Int
    BY HandTyped DEF AInv, RunsTyped
  <1>3. ASSUME PutDown(w) PROVE \A v \in Workers : busy'[v].calling => busy'[v] = busy[v]
    BY <1>2, <1>3 DEF PutDown, Idle
  <1>4. CASE Claim(w)
    <2>1. PICK r \in DOMAIN runs :
            /\ runs' = [runs EXCEPT ![r].status = "running"]
            /\ busy' = [busy EXCEPT ![w] = [run |-> r, calling |-> FALSE]]
      BY <1>4 DEF Claim
    <2>2. PICK x : x = [runs[r] EXCEPT !.status = "running"]
      OBVIOUS
    <2>3. runs' = [runs EXCEPT ![r] = x]
      BY <2>1, <2>2
    <2>4. x.ticket = runs[r].ticket /\ x.day = runs[r].day /\ x.cost = runs[r].cost /\ x.early = runs[r].early
      BY <1>2, <2>2 DEF RunRecord
    <2>5. \A v \in Workers : busy'[v].calling => busy'[v] = busy[v]
      BY <1>2, <2>1
    <2> QED BY <1>1, <2>3, <2>4, <2>5, QuietWrite
  <1>5. CASE Exhaust(w)
    <2>1. PICK r : r = busy[w].run /\ r # 0 /\ runs' = [runs EXCEPT ![r].status = "exhausted"] /\ PutDown(w)
      BY <1>5 DEF Exhaust, Turn
    <2>2. r \in DOMAIN runs
      BY <2>1, HandTyped
    <2>3. PICK x : x = [runs[r] EXCEPT !.status = "exhausted"]
      OBVIOUS
    <2>4. runs' = [runs EXCEPT ![r] = x]
      BY <2>1, <2>3
    <2>5. x.ticket = runs[r].ticket /\ x.day = runs[r].day /\ x.cost = runs[r].cost /\ x.early = runs[r].early
      BY <1>2, <2>2, <2>3 DEF RunRecord
    <2> QED BY <1>1, <1>3, <2>1, <2>2, <2>4, <2>5, QuietWrite
  <1>6. CASE Settle(w)
    <2>1. PICK r : /\ r = busy[w].run /\ r # 0
                   /\ \/ runs' = [runs EXCEPT ![r].steps = @ + 1, ![r].owes = FALSE] /\ busy' = busy
                      \/ runs' = [runs EXCEPT ![r].status = "awaiting_approval"] /\ PutDown(w)
      BY <1>6 DEF Settle, Turn
    <2>2. r \in DOMAIN runs
      BY <2>1, HandTyped
    <2>3. CASE runs' = [runs EXCEPT ![r].steps = @ + 1, ![r].owes = FALSE] /\ busy' = busy
      <3>1. PICK y : y = [runs[r] EXCEPT !.steps = runs[r].steps + 1]
        OBVIOUS
      <3>2. y.ticket = runs[r].ticket /\ y.day = runs[r].day /\ y.cost = runs[r].cost /\ y.early = runs[r].early
        BY <1>2, <2>2, <3>1 DEF RunRecord
      <3>3. PICK x : x = [y EXCEPT !.owes = FALSE]
        OBVIOUS
      <3>4. x.ticket = y.ticket /\ x.day = y.day /\ x.cost = y.cost /\ x.early = y.early
        BY <3>3
      <3>5. runs' = [runs EXCEPT ![r] = x]
        BY <2>2, <2>3, <3>1, <3>3
      <3> QED BY <1>1, <2>2, <2>3, <3>2, <3>4, <3>5, QuietWrite
    <2>4. CASE runs' = [runs EXCEPT ![r].status = "awaiting_approval"] /\ PutDown(w)
      <3>1. PICK x : x = [runs[r] EXCEPT !.status = "awaiting_approval"]
        OBVIOUS
      <3>2. runs' = [runs EXCEPT ![r] = x]
        BY <2>4, <3>1
      <3>3. x.ticket = runs[r].ticket /\ x.day = runs[r].day /\ x.cost = runs[r].cost /\ x.early = runs[r].early
        BY <1>2, <2>2, <3>1 DEF RunRecord
      <3> QED BY <1>1, <1>3, <2>2, <2>4, <3>2, <3>3, QuietWrite
    <2> QED BY <2>1, <2>3, <2>4
  <1>7. CASE LeaseLost(w)
    <2>1. runs' = runs /\ PutDown(w)
      BY <1>7 DEF LeaseLost
    <2> QED BY <1>1, <1>3, <2>1 DEF NothingBilled
  <1> QED BY <1>4, <1>5, <1>6, <1>7

(* Decisions and cancellations bill nothing.                                 *)
LEMMA PeopleQuiet ==
  ASSUME AInv, NEW r \in DOMAIN runs, Decide(r) \/ CancelRead(r) \/ CancelWrite(r)
  PROVE  NothingBilled
  <1>1. scene' = scene /\ today' = today /\ busy' = busy
    BY DEF Decide, CancelRead, CancelWrite
  <1>2. runs[r] \in RunRecord
    BY BillTypes
  <1>3. CASE Decide(r) \/ CancelRead(r)
    <2>1. PICK x : /\ x \in {[runs[r] EXCEPT !.status = "queued"], [runs[r] EXCEPT !.cancelling = TRUE]}
                   /\ runs' = [runs EXCEPT ![r] = x]
      BY <1>3 DEF Decide, CancelRead
    <2>2. x.ticket = runs[r].ticket /\ x.day = runs[r].day /\ x.cost = runs[r].cost /\ x.early = runs[r].early
      BY <1>2, <2>1 DEF RunRecord
    <2> QED BY <1>1, <2>1, <2>2, QuietWrite
  <1>4. CASE CancelWrite(r)
    <2>1. PICK y : y = [runs[r] EXCEPT !.status = "cancelled"]
      OBVIOUS
    <2>2. y.ticket = runs[r].ticket /\ y.day = runs[r].day /\ y.cost = runs[r].cost /\ y.early = runs[r].early
      BY <1>2, <2>1 DEF RunRecord
    <2>3. PICK x : x = [y EXCEPT !.cancelling = FALSE]
      OBVIOUS
    <2>4. x.ticket = y.ticket /\ x.day = y.day /\ x.cost = y.cost /\ x.early = y.early
      BY <2>3
    <2>5. runs' = [runs EXCEPT ![r] = x]
      BY <1>4, <2>1, <2>3 DEF CancelWrite
    <2> QED BY <1>1, <2>2, <2>4, <2>5, QuietWrite
  <1> QED BY <1>3, <1>4

(* Every step keeps the room of the bills.                                   *)
LEMMA BillingStep == AInv /\ Billing /\ [ANext]_avars => Billing'
  <1> SUFFICES ASSUME AInv, Billing, [ANext]_avars PROVE Billing'
    OBVIOUS
  <1>1. CASE \E q \in Requests : Arrive(q) \/ Allow(q) \/ LookUp(q) \/ Insert(q)
    BY <1>1, DoorQuiet, NothingBilledStep, InsertBilled
  <1>2. CASE \E w \in Workers : Work(w)
    <2>1. PICK w \in Workers : Work(w)
      BY <1>2
    <2>2. CASE Claim(w) \/ Exhaust(w) \/ Settle(w) \/ LeaseLost(w)
      BY <2>2, WorkQuiet, NothingBilledStep
    <2>3. CASE AskModel(w)
      BY <2>3, AskBilled
    <2>4. CASE RecordReply(w)
      BY <2>4, RecordReplyBilled
    <2> QED BY <2>1, <2>2, <2>3, <2>4 DEF Work
  <1>3. CASE \E r \in DOMAIN runs : Decide(r) \/ CancelRead(r) \/ CancelWrite(r)
    BY <1>3, PeopleQuiet, NothingBilledStep
  <1>4. CASE Tick \/ UNCHANGED avars
    <2>1. scene' = scene /\ runs' = runs /\ busy' = busy /\ today' = today
      BY <1>4 DEF Tick, avars
    <2>2. NothingBilled
      BY <2>1 DEF NothingBilled
    <2> QED BY <2>2, NothingBilledStep
  <1>5. CASE Midnight
    BY <1>5, MidnightBilled
  <1> QED BY <1>1, <1>2, <1>3, <1>4, <1>5 DEF ANext

(* Nothing is billed at the start.                                           *)
LEMMA BillingInit == AInit => Billing
  <1> SUFFICES ASSUME AInit PROVE Billing
    OBVIOUS
  <1>1. runs = <<>> /\ DOMAIN runs = {} /\ today = 1 /\ busy = [w \in Workers |-> Idle]
    BY DEF AInit
  <1>2. ASSUME NEW o PROVE Spent(o) = 0 /\ Calls(o) = {}
    <2>1. Billed(o, today) = {} /\ Calls(o) = {}
      BY <1>1 DEF Billed, Calls, Idle
    <2>2. SumFunctionOnSet(Bill, {}) = 0
      BY FS_EmptySet, SumTakesOne
    <2> QED BY <2>1, <2>2 DEF Spent
  <1>3. Cardinality({}) = 0 /\ 0 * Dearest = 0
    BY FS_EmptySet, DearestType
  <1>4. Slack \in Nat
    BY SlackType
  <1>5. ASSUME NEW p \in Budgets PROVE Headroom(p[1], p[2]) /\ Past(p[1], p[2])
    <2>1. PICK o, b : o = p[1] /\ b = p[2]
      OBVIOUS
    <2>2. b \in Nat /\ b > 0
      BY <2>1, BudgetTypes
    <2>3. Spent(o) = 0 /\ Cardinality(Calls(o)) * Dearest = 0
      BY <1>2, <1>3
    <2>4. Headroom(o, b)
      BY <1>4, <2>2, <2>3 DEF Headroom
    <2>5. Past(o, b)
      <3>1. \A d \in 1..scene.days : ~(d < today)
        BY <1>1
      <3> QED BY <3>1 DEF Past
    <2> QED BY <2>1, <2>4, <2>5
  <1> QED BY <1>1, <1>5 DEF Billing, Todays

(* What is spent of a day is within its budget and a call for each worker:   *)
(* of days gone by, of today and of days to come.                            *)
LEMMA BillingRead == AInv /\ Billing => BudgetOvershoot
  <1> SUFFICES ASSUME AInv, Billing PROVE BudgetOvershoot
    OBVIOUS
  <1>1. ASSUME NEW p \in Budgets PROVE Overshoot(p[1], p[2])
    <2>1. PICK o, b : o = p[1] /\ b = p[2]
      OBVIOUS
    <2>2. Headroom(o, b) /\ Past(o, b) /\ b \in Nat /\ b > 0
      BY <1>1, <2>1, BudgetTypes DEF Billing
    <2>3. Slack \in Nat /\ today \in Nat /\ scene.days \in Nat
      BY SlackType, SceneTypes DEF AInv, DoorTyped
    <2>4. ASSUME NEW d \in 1..scene.days PROVE SumFunctionOnSet(EarlyBill, Billed(o, d)) < b + Slack
      <3>1. CASE d < today
        BY <2>2, <3>1 DEF Past
      <3>2. CASE d = today
        <4>1. \A r \in Billed(o, today) : EarlyBill[r] = Bill[r] /\ EarlyBill[r] \in Nat
          <5>1. \A r \in Billed(o, today) : r \in DOMAIN runs /\ runs[r].day = today
            BY DEF Billed
          <5> QED BY <5>1, BillTypes DEF Billing, Todays
        <4>2. IsFiniteSet(Billed(o, today))
          BY BillTypes
        <4>3. SumFunctionOnSet(EarlyBill, Billed(o, today)) = Spent(o)
          BY <4>1, <4>2, SumOfEquals DEF Spent
        <4>4. Spent(o) \in Nat /\ Cardinality(Calls(o)) * Dearest \in Nat
          BY BillTypes, CallsType DEF Spent
        <4> QED BY <2>2, <2>3, <3>2, <4>3, <4>4 DEF Headroom
      <3>3. CASE d > today
        <4>1. Billed(o, d) = {}
          <5>1. \A r \in DOMAIN runs : runs[r].day <= today
            BY DEF Billing, Todays
          <5>2. \A r \in DOMAIN runs : runs[r].day \in Int
            BY <2>3, BillTypes, RunFields
          <5> QED BY <2>3, <3>3, <5>1, <5>2 DEF Billed
        <4>2. SumFunctionOnSet(EarlyBill, {}) = 0
          BY FS_EmptySet, SumTakesOne
        <4> QED BY <2>2, <2>3, <4>1, <4>2
      <3> QED BY <2>3, <3>1, <3>2, <3>3
    <2> QED BY <2>1, <2>4 DEF Overshoot, Slack
  <1>2. ASSUME NEW m \in Orgs PROVE Overshoot({m}, OrgBudget)
    <2>1. <<{m}, OrgBudget>> \in Budgets
      BY DEF Budgets
    <2>2. Overshoot(<<{m}, OrgBudget>>[1], <<{m}, OrgBudget>>[2])
      BY <1>1, <2>1
    <2> QED BY <2>2
  <1>3. Overshoot(Orgs, PlatformBudget)
    <2>1. <<Orgs, PlatformBudget>> \in Budgets
      BY DEF Budgets
    <2>2. Overshoot(<<Orgs, PlatformBudget>>[1], <<Orgs, PlatformBudget>>[2])
      BY <1>1, <2>1
    <2> QED BY <2>2
  <1> QED BY <1>2, <1>3 DEF Billing, Todays, BudgetOvershoot

-----------------------------------------------------------------------------
(* The theorems. *)

(* What holds of requests, limiter, runs and bills in every state.           *)
AdmissionInv == AInv /\ LookedUp /\ Counted /\ WindowHolds /\ Billing

(* The invariant holds of the initial states.                                *)
LEMMA AdmissionInitially == AInit => AdmissionInv
  <1> SUFFICES ASSUME AInit PROVE AdmissionInv
    OBVIOUS
  <1>1. AInv
    BY AdmissionInit
  <1>2. LookedUp
    BY DEF AInit, LookedUp, Nobody
  <1> QED BY <1>1, <1>2, CountedInit, BillingInit DEF AdmissionInv

(* Every step keeps the invariant.                                           *)
LEMMA AdmissionInductively == AdmissionInv /\ [ANext]_avars => AdmissionInv'
  <1> SUFFICES ASSUME AdmissionInv, [ANext]_avars PROVE AdmissionInv'
    OBVIOUS
  <1>1. AInv' /\ RunsMove
    BY AdmissionStep DEF AdmissionInv
  <1>2. LookedUp'
    BY <1>1, LookedUpStep DEF AdmissionInv
  <1>3. Counted' /\ WindowHolds'
    BY <1>1, WindowStep DEF AdmissionInv
  <1>4. Billing'
    BY BillingStep DEF AdmissionInv
  <1> QED BY <1>1, <1>2, <1>3, <1>4 DEF AdmissionInv

(* With or without somebody who watches, requests, workers and people keep   *)
(* the invariant (Admission's part of every handler).                        *)
THEOREM AdmissionHolds == Spec => []AdmissionInv
  <1>1. Init => AdmissionInv
    BY AdmissionInitially DEF Init
  <1>2. AdmissionInv /\ [Next]_vars => AdmissionInv'
    BY ViewersOnlyAdmit, AdmissionInductively
  <1> QED BY <1>1, <1>2, PTL DEF Spec

(* In any window a merchant gets at most Limit requests past the limiter,    *)
(* whoever waits for its lock (FixedWindowLimiter.allow).                    *)
THEOREM WindowHoldsAlways == Spec => []WindowHolds
  <1>1. AdmissionInv => WindowHolds
    BY DEF AdmissionInv
  <1> QED BY <1>1, AdmissionHolds, PTL

(* Two runs are open on one ticket only when the later one's request had     *)
(* looked before the earlier one was inserted (start_run).                   *)
THEOREM OnlyRacesDoubleUpAlways == Spec => []OnlyRacesDoubleUp
  <1>1. AdmissionInv => OnlyRacesDoubleUp
    BY LookedUpRead DEF AdmissionInv
  <1> QED BY <1>1, AdmissionHolds, PTL

(* A daily budget is passed by less than one call for each worker, and a     *)
(* run's own cap by less than one call (_bound_exceeded).                    *)
THEOREM BudgetOvershootHolds == Spec => []BudgetOvershoot
  <1>1. AdmissionInv => BudgetOvershoot
    BY BillingRead DEF AdmissionInv
  <1> QED BY <1>1, AdmissionHolds, PTL
=============================================================================
