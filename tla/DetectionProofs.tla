--------------------------- MODULE DetectionProofs ---------------------------
(***************************************************************************)
(* Proofs about the detection service, for any number of rules, customers, *)
(* pages, runs, restarts and readers.  First ExportPipeline, with the      *)
(* figures of DetectionDataset that are made of what it leaves; then       *)
(* DetectionRefresh, as the instance DetectionService has of it.           *)
(***************************************************************************)
EXTENDS ExportPipeline, DetectionService, FiniteSetTheorems, SequenceTheorems, TLAPS

----------------------------------------------------------------------------
(* The figures of the portal.                                                *)

One(s) == CHOOSE x \in s : TRUE
Total(f, T) == MapThenSumSet(LAMBDA x : f[x], T)
Pairs(c, T) == UNION {{x} \X c[x] : x \in T}

\* A sum over a finite set is that of its recursion, element by element.
SumsUp(h, f, T) ==
  /\ h \in [SUBSET T -> Nat] /\ h[{}] = 0
  /\ \A s \in SUBSET T : s # {} => h[s] = f[One(s)] + h[s \ {One(s)}]

LEMMA TotalUnfolds ==
  ASSUME NEW f, NEW T, IsFiniteSet(T), NEW h, SumsUp(h, f, T)
  PROVE  Total(f, T) = h[T]
<1> USE DEF SumsUp
<1> DEFINE Rec(g, s) == IF s = {} THEN 0 ELSE f[CHOOSE x \in s : TRUE] + g[s \ {CHOOSE x \in s : TRUE}]
           iter == CHOOSE g : g = [s \in SUBSET T |-> Rec(g, s)]
<1>1. Total(f, T) = iter[T]
  BY DEF Total, MapThenSumSet, MapThenFoldSet
<1>2. h = [s \in SUBSET T |-> Rec(h, s)]
  <2>1. ASSUME NEW s \in SUBSET T PROVE h[s] = Rec(h, s)
    BY DEF One
  <2> HIDE DEF Rec
  <2> QED
    BY <2>1
<1>3. iter = [s \in SUBSET T |-> Rec(iter, s)]
  <2> DEFINE P(g) == g = [s \in SUBSET T |-> Rec(g, s)]
  <2>1. P(h)
    BY <1>2
  <2>2. iter = CHOOSE g : P(g)
    OBVIOUS
  <2> HIDE DEF P, iter
  <2>3. P(iter)
    BY <2>1, <2>2
  <2> QED
    BY <2>3 DEF P
<1> HIDE DEF iter
<1> DEFINE B == {s \in SUBSET T : iter[s] # h[s]}
<1>4. CASE B = {}
  <2>1. T \in SUBSET T
    OBVIOUS
  <2> QED
    BY <1>1, <1>4, <2>1
<1>5. CASE B # {}
  <2>1. IsWellFoundedOn(StrictSubsetOrdering(T), SUBSET T)
    BY FS_StrictSubsetOrderingWellFounded, FS_FiniteSubsetsOfFinite
  <2>2. PICK s \in B : \A r \in B : <<r, s>> \notin StrictSubsetOrdering(T)
    <3>1. B \subseteq SUBSET T
      OBVIOUS
    <3> HIDE DEF B
    <3> QED
      BY <1>5, <2>1, <3>1, WFMin
  <2>3. s # {}
    BY <1>2, <1>3
  <2> DEFINE x == CHOOSE y \in s : TRUE
             r == s \ {x}
  <2>4. x \in s
    BY <2>3
  <2>5. r \in SUBSET T /\ <<r, s>> \in StrictSubsetOrdering(T)
    BY <2>4 DEF StrictSubsetOrdering
  <2>6. iter[r] = h[r]
    BY <2>2, <2>5
  <2>7. iter[s] = f[x] + iter[r]
    BY <1>3, <2>3
  <2>8. h[s] = f[x] + h[r]
    BY <1>2, <2>3
  <2> QED
    BY <2>6, <2>7, <2>8
<1> QED
  BY <1>4, <1>5

\* Numbers of members add up to the number of pairs.
LEMMA TotalOfSizes ==
  ASSUME NEW T, IsFiniteSet(T), NEW c, \A x \in T : IsFiniteSet(c[x]),
         NEW f, \A x \in T : f[x] = Cardinality(c[x])
  PROVE  IsFiniteSet(Pairs(c, T)) /\ Total(f, T) = Cardinality(Pairs(c, T))
<1> DEFINE h == [s \in SUBSET T |-> Cardinality(Pairs(c, s))]
<1>1. ASSUME NEW s \in SUBSET T PROVE IsFiniteSet(Pairs(c, s))
  <2> DEFINE parts == {{x} \X c[x] : x \in s}
  <2>1. IsFiniteSet(s)
    BY FS_Subset
  <2>2. IsFiniteSet(parts)
    <3> DEFINE F == [x \in s |-> {x} \X c[x]]
    <3>1. F \in Surjection(s, parts)
      BY DEF Surjection
    <3> QED
      BY <2>1, <3>1, FS_Surjection
  <2>3. \A p \in parts : IsFiniteSet(p)
    <3> SUFFICES ASSUME NEW x \in s PROVE IsFiniteSet({x} \X c[x])
      OBVIOUS
    <3> QED
      BY FS_Product, FS_Singleton
  <2> QED
    BY <2>2, <2>3, FS_UNION DEF Pairs
<1>2. ASSUME NEW s \in SUBSET T, s # {}
      PROVE  Cardinality(Pairs(c, s)) = f[One(s)] + Cardinality(Pairs(c, s \ {One(s)}))
  <2> DEFINE x == One(s)
             r == s \ {x}
             one == {x} \X c[x]
  <2>1. x \in s
    BY <1>2 DEF One
  <2> HIDE DEF x
  <2>2. Pairs(c, s) = one \cup Pairs(c, r) /\ one \cap Pairs(c, r) = {}
    BY <2>1 DEF Pairs
  <2>3. IsFiniteSet(one) /\ Cardinality(one) = f[x]
    <3>1. IsFiniteSet({x}) /\ Cardinality({x}) = 1 /\ IsFiniteSet(c[x]) /\ Cardinality(c[x]) \in Nat
      BY <2>1, FS_Singleton, FS_CardinalityType
    <3>2. IsFiniteSet(one) /\ Cardinality(one) = 1 * Cardinality(c[x])
      BY <3>1, FS_Product
    <3> QED
      BY <2>1, <3>1, <3>2
  <2>4. IsFiniteSet(Pairs(c, r))
    BY <1>1, <2>1
  <2> HIDE DEF one, r
  <2>5. Cardinality(Pairs(c, s)) = Cardinality(one) + Cardinality(Pairs(c, r)) - Cardinality({})
    BY <2>2, <2>3, <2>4, FS_Union
  <2>6. Cardinality({}) = 0 /\ Cardinality(one) \in Nat /\ Cardinality(Pairs(c, r)) \in Nat
    BY <2>3, <2>4, FS_EmptySet, FS_CardinalityType
  <2> QED
    BY <2>3, <2>5, <2>6 DEF x, r
<1>3. /\ h \in [SUBSET T -> Nat] /\ h[{}] = 0
      /\ \A s \in SUBSET T : s # {} => h[s] = f[One(s)] + h[s \ {One(s)}]
  <2>1. Cardinality(Pairs(c, {})) = 0
    <3>1. Pairs(c, {}) = {}
      BY DEF Pairs
    <3> QED
      BY <3>1, FS_EmptySet
  <2>2. ASSUME NEW s \in SUBSET T, s # {} PROVE h[s] = f[One(s)] + h[s \ {One(s)}]
    <3>1. s \ {One(s)} \in SUBSET T
      OBVIOUS
    <3> QED
      BY <1>2, <2>2, <3>1
  <2>3. \A s \in SUBSET T : Cardinality(Pairs(c, s)) \in Nat
    BY <1>1, FS_CardinalityType
  <2> QED
    BY <2>1, <2>2, <2>3
<1>4. Total(f, T) = h[T]
  <2>1. SumsUp(h, f, T)
    BY <1>3 DEF SumsUp
  <2> HIDE DEF h
  <2> QED
    BY <2>1, TotalUnfolds
<1> QED
  BY <1>1, <1>4

\* As many as are sent to different things.
LEMMA SameSize ==
  ASSUME NEW S, IsFiniteSet(S), NEW f, \A a, b \in S : f[a] = f[b] => a = b
  PROVE  Cardinality({f[a] : a \in S}) = Cardinality(S)
<1> DEFINE g == [a \in S |-> f[a]]
           T == {f[a] : a \in S}
<1>1. g \in Bijection(S, T)
  BY DEF Bijection, Injection, Surjection, IsInjective
<1> HIDE DEF g, T
<1>2. Cardinality(S) = Cardinality(T)
  BY <1>1, FS_Bijection DEF ExistsBijection
<1> QED
  BY <1>2 DEF T

LEMMA TechniquesFinite ==
  ASSUME NEW rules, IsFiniteSet(rules), \A r \in rules : IsFiniteSet(r.entries), NEW x
  PROVE  IsFiniteSet(Techniques(rules, x))
<1> DEFINE parts == {r.entries : r \in rules}
           all == UNION parts
           some == {e \in all : e[1] = x}
           F == [r \in rules |-> r.entries]
           G == [e \in some |-> TopLevel[e[2]]]
<1>1. IsFiniteSet(parts)
  <2>1. F \in Surjection(rules, parts)
    BY DEF Surjection
  <2> QED
    BY <2>1, FS_Surjection
<1>2. IsFiniteSet(all)
  <2>1. \A p \in parts : IsFiniteSet(p)
    OBVIOUS
  <2> QED
    BY <1>1, <2>1, FS_UNION
<1>3. IsFiniteSet(some)
  BY <1>2, FS_Subset
<1>4. G \in Surjection(some, Techniques(rules, x))
  BY DEF Surjection, Techniques
<1> QED
  BY <1>3, <1>4, FS_Surjection

LEMMA TechniquesOfEach ==
  ASSUME NEW rules, NEW x, NEW k
  PROVE  k \in Techniques(rules, x) <=> \E r \in rules : k \in Techniques({r}, x)
BY DEF Techniques

FlatRules(rules) ==
  /\ IsFiniteSet(rules)
  /\ \A r \in rules : /\ r.enabled \in BOOLEAN /\ IsFiniteSet(r.entries)
                      /\ r.kind \in {"test", "operational", "detection", "unmapped"}

FlatSummaryAgrees(s, tech) ==
    /\ \A x \in Tactics :
         /\ s.cov[x] = Cardinality({k \in tech[x] : ~k.phantom})
         /\ s.phantom[x] = Cardinality({k \in tech[x] : k.phantom})
    /\ s.topCovered = MapThenSumSet(LAMBDA x : s.cov[x], Tactics)
    /\ s.topPhantom = MapThenSumSet(LAMBDA x : s.phantom[x], Tactics)
    /\ s.total = s.detection + s.unmapped + s.operational + s.test
    /\ s.detection = s.enabled + s.disabled

LEMMA SplitSize ==
  ASSUME NEW S, IsFiniteSet(S), NEW A, NEW B, S = A \cup B, A \cap B = {}
  PROVE  /\ IsFiniteSet(A) /\ IsFiniteSet(B) /\ Cardinality(A) \in Nat /\ Cardinality(B) \in Nat
         /\ Cardinality(S) = Cardinality(A) + Cardinality(B)
<1>1. IsFiniteSet(A) /\ IsFiniteSet(B)
  BY FS_Subset
<1>2. Cardinality(A \cup B) = Cardinality(A) + Cardinality(B) - Cardinality(A \cap B)
  BY <1>1, FS_Union
<1>3. Cardinality({}) = 0 /\ Cardinality(A) \in Nat /\ Cardinality(B) \in Nat
  BY <1>1, FS_EmptySet, FS_CardinalityType
<1>4. Cardinality(S) = Cardinality(A) + Cardinality(B) - 0
  BY <1>2, <1>3
<1> QED
  BY <1>1, <1>3, <1>4

LEMMA KindsAddUp ==
  ASSUME NEW S, FlatRules(S)
  PROVE  Cardinality(S) = Cardinality({r \in S : r.kind = "detection"})
           + Cardinality({r \in S : r.kind = "unmapped"})
           + Cardinality({r \in S : r.kind = "operational"})
           + Cardinality({r \in S : r.kind = "test"})
<1> DEFINE Q(k) == {r \in S : r.kind = k}
           S1 == Q("unmapped") \cup (Q("operational") \cup Q("test"))
           S2 == Q("operational") \cup Q("test")
<1>1. IsFiniteSet(S)
  BY DEF FlatRules
<1>2. S = Q("detection") \cup S1 /\ Q("detection") \cap S1 = {}
  BY DEF FlatRules
<1>3. Q("unmapped") \cap S2 = {} /\ Q("operational") \cap Q("test") = {} /\ S1 = Q("unmapped") \cup S2
  OBVIOUS
<1> HIDE DEF Q, S1
<1>4. Cardinality(S) = Cardinality(Q("detection")) + Cardinality(S1) /\ IsFiniteSet(S1)
      /\ Cardinality(Q("detection")) \in Nat
  BY <1>1, <1>2, SplitSize
<1> HIDE DEF S2
<1>5. Cardinality(S1) = Cardinality(Q("unmapped")) + Cardinality(S2) /\ IsFiniteSet(S2)
      /\ Cardinality(Q("unmapped")) \in Nat
  BY <1>3, <1>4, SplitSize
<1>6. Cardinality(S2) = Cardinality(Q("operational")) + Cardinality(Q("test"))
      /\ Cardinality(Q("operational")) \in Nat /\ Cardinality(Q("test")) \in Nat
  BY <1>3, <1>5, SplitSize DEF S2
<1>7. Cardinality(S) = Cardinality(Q("detection")) + Cardinality(Q("unmapped"))
           + Cardinality(Q("operational")) + Cardinality(Q("test"))
  BY <1>4, <1>5, <1>6
<1> QED
  BY <1>7 DEF Q

\* The rows of tech_detail with a flag are as many as the techniques that have it.
LEMMA RowsOfTechniques ==
  ASSUME NEW rules, FlatRules(rules), NEW t, NEW x \in Tactics
  PROVE  LET det == Detections(rules, t)
             on == {r \in det : r.enabled}
             cov == Techniques(on, x)
             phantom == Techniques(det \ on, x) \ cov
             rows == TechDetail(rules, t)[x]
         IN /\ IsFiniteSet(cov) /\ Cardinality(cov) = Cardinality({k \in rows : ~k.phantom})
            /\ IsFiniteSet(phantom) /\ Cardinality(phantom) = Cardinality({k \in rows : k.phantom})
<1> DEFINE det == Detections(rules, t)
           on == {r \in det : r.enabled}
           cov == Techniques(on, x)
           phantom == Techniques(det \ on, x) \ cov
           rows == TechDetail(rules, t)[x]
           all == Techniques(det, x)
           of(k) == {r \in det : k \in Techniques({r}, x)}
           row == [k \in all |-> [id |-> k, rules |-> {r.name : r \in of(k)},
                                  phantom |-> \A r \in of(k) : ~r.enabled]]
<1>1. det \subseteq rules /\ IsFiniteSet(det) /\ IsFiniteSet(on) /\ IsFiniteSet(det \ on)
  <2>1. det \in SUBSET rules /\ on \in SUBSET det /\ (det \ on) \in SUBSET det
    BY DEF Detections, Of
  <2> HIDE DEF det, on
  <2> QED
    BY <2>1, FS_Subset DEF FlatRules
<1>2. \A r \in det : IsFiniteSet(r.entries) /\ r.enabled \in BOOLEAN
  <2> HIDE DEF det
  <2> QED
    BY <1>1 DEF FlatRules
<1>3. IsFiniteSet(cov) /\ IsFiniteSet(phantom)
  <2>1. IsFiniteSet(Techniques(on, x)) /\ IsFiniteSet(Techniques(det \ on, x))
    <3>1. on \subseteq det /\ det \ on \subseteq det
      OBVIOUS
    <3> HIDE DEF on, det
    <3> QED
      BY <1>1, <1>2, <3>1, TechniquesFinite
  <2>2. phantom \in SUBSET Techniques(det \ on, x)
    OBVIOUS
  <2> QED
    BY <2>1, <2>2, FS_Subset
<1>4. rows = {row[k] : k \in all}
  BY DEF TechDetail
<1>5. \A a, b \in all : row[a] = row[b] => a = b
  OBVIOUS
<1>6. \A k \in all : row[k].phantom <=> \A r \in of(k) : ~r.enabled
  OBVIOUS
<1> DEFINE off == det \ on
<1>7. ASSUME NEW k PROVE k \in cov <=> \E r \in of(k) : r.enabled
  <2>1. k \in Techniques(on, x) <=> \E r \in on : k \in Techniques({r}, x)
    <3> HIDE DEF on
    <3> QED
      BY TechniquesOfEach
  <2> QED
    BY <2>1
<1>8. ASSUME NEW k PROVE k \in Techniques(det \ on, x) <=> \E r \in of(k) : ~r.enabled
  <2>1. k \in Techniques(off, x) <=> \E r \in off : k \in Techniques({r}, x)
    <3> HIDE DEF off
    <3> QED
      BY TechniquesOfEach
  <2> QED
    BY <2>1
<1>9. \A k : k \in all <=> of(k) # {}
  <2> HIDE DEF det
  <2> QED
    BY TechniquesOfEach
<1> HIDE DEF det, on, cov, rows, row, of, all
<1>10. {k \in rows : ~k.phantom} = {row[k] : k \in cov} /\ cov \subseteq all
  BY <1>4, <1>6, <1>7, <1>9
<1>11. {k \in rows : k.phantom} = {row[k] : k \in phantom} /\ phantom \subseteq all
  BY <1>4, <1>6, <1>7, <1>8, <1>9
<1> HIDE DEF phantom
<1>12. Cardinality({row[k] : k \in cov}) = Cardinality(cov)
  BY <1>3, <1>5, <1>10, SameSize
<1>13. Cardinality({row[k] : k \in phantom}) = Cardinality(phantom)
  BY <1>3, <1>5, <1>11, SameSize
<1> QED
  BY <1>3, <1>10, <1>11, <1>12, <1>13 DEF det, on, cov, phantom, rows

\* The two ways of counting agree for whatever tenant.
LEMMA SummaryAgrees ==
  ASSUME NEW rules, FlatRules(rules), NEW t, IsFiniteSet(Tactics)
  PROVE  FlatSummaryAgrees(Summary(rules, t), TechDetail(rules, t))
<1> DEFINE det == Detections(rules, t)
           on == {r \in det : r.enabled}
           cov == [x \in Tactics |-> Techniques(on, x)]
           phantom == [x \in Tactics |-> Techniques(det \ on, x) \ cov[x]]
           s == Summary(rules, t)
           tech == TechDetail(rules, t)
<1>1. /\ s.cov = [x \in Tactics |-> Cardinality(cov[x])]
      /\ s.phantom = [x \in Tactics |-> Cardinality(phantom[x])]
      /\ s.topCovered = Cardinality(Pairs(cov, Tactics))
      /\ s.topPhantom = Cardinality(Pairs(phantom, Tactics))
  BY DEF Summary, Pairs
<1>2. /\ s.total = Cardinality(Of(rules, t)) /\ s.detection = Cardinality(det)
      /\ s.enabled = Cardinality(on) /\ s.disabled = Cardinality(det \ on)
      /\ s.unmapped = Cardinality({r \in Of(rules, t) : r.kind = "unmapped"})
      /\ s.operational = Cardinality({r \in Of(rules, t) : r.kind = "operational"})
      /\ s.test = Cardinality({r \in Of(rules, t) : r.kind = "test"})
  BY DEF Summary
<1>3. \A x \in Tactics :
        /\ IsFiniteSet(cov[x]) /\ Cardinality(cov[x]) = Cardinality({k \in tech[x] : ~k.phantom})
        /\ IsFiniteSet(phantom[x]) /\ Cardinality(phantom[x]) = Cardinality({k \in tech[x] : k.phantom})
  BY RowsOfTechniques
<1>4. FlatRules(Of(rules, t)) /\ det = {r \in Of(rules, t) : r.kind = "detection"}
  <2>1. Of(rules, t) \in SUBSET rules
    BY DEF Of
  <2>2. IsFiniteSet(Of(rules, t))
    BY <2>1, FS_Subset DEF FlatRules
  <2> QED
    BY <2>1, <2>2 DEF FlatRules, Detections
<1>5. Cardinality(det) = Cardinality(on) + Cardinality(det \ on)
  <2>1. det = on \cup (det \ on) /\ on \cap (det \ on) = {}
    OBVIOUS
  <2>2. IsFiniteSet(det)
    <3>1. det \in SUBSET Of(rules, t)
      BY <1>4
    <3> QED
      BY <1>4, <3>1, FS_Subset DEF FlatRules
  <2> HIDE DEF det, on
  <2> QED
    BY <2>1, <2>2, SplitSize
<1> HIDE DEF s, tech, det, on, cov, phantom
<1>6. Total(s.cov, Tactics) = Cardinality(Pairs(cov, Tactics))
  <2>1. \A x \in Tactics : IsFiniteSet(cov[x]) /\ s.cov[x] = Cardinality(cov[x])
    BY <1>1, <1>3
  <2> QED
    BY <2>1, TotalOfSizes
<1>7. Total(s.phantom, Tactics) = Cardinality(Pairs(phantom, Tactics))
  <2>1. \A x \in Tactics : IsFiniteSet(phantom[x]) /\ s.phantom[x] = Cardinality(phantom[x])
    BY <1>1, <1>3
  <2> QED
    BY <2>1, TotalOfSizes
<1>8. \A x \in Tactics :
         /\ s.cov[x] = Cardinality({k \in tech[x] : ~k.phantom})
         /\ s.phantom[x] = Cardinality({k \in tech[x] : k.phantom})
  BY <1>1, <1>3
<1>9. s.topCovered = MapThenSumSet(LAMBDA x : s.cov[x], Tactics)
  BY <1>1, <1>6 DEF Total
<1>10. s.topPhantom = MapThenSumSet(LAMBDA x : s.phantom[x], Tactics)
  BY <1>1, <1>7 DEF Total
<1>11. s.total = s.detection + s.unmapped + s.operational + s.test
  BY <1>2, <1>4, KindsAddUp
<1>12. s.detection = s.enabled + s.disabled
  BY <1>2, <1>5
<1>13. FlatSummaryAgrees(s, tech)
  BY <1>8, <1>9, <1>10, <1>11, <1>12 DEF FlatSummaryAgrees
<1> QED
  BY <1>13 DEF s, tech

\* A caller has no more than his tenants' rules behind what he is told.
LEMMA SeesOnlyOwn ==
  ASSUME NEW rules, NEW scope
  PROVE  SeesOnly(rules, scope)
<1> DEFINE mine == {r \in rules : r.tenant \in scope}
<1>1. {r \in mine : r.tenant \in scope} = mine
  OBVIOUS
<1>2. (Tenants \cup {r.tenant : r \in mine}) \cap scope = (Tenants \cup {r.tenant : r \in rules}) \cap scope
  OBVIOUS
<1>3. Dataset(rules, scope) = Dataset(mine, scope)
  <2> HIDE DEF mine
  <2> QED
    BY <1>1, <1>2 DEF Dataset, mine
<1>4. LET d == Dataset(rules, scope) IN DOMAIN d.summary \cup d.onboarded \subseteq scope \cup {"all"}
  BY DEF Dataset
<1> QED
  BY <1>3, <1>4 DEF SeesOnly

LEMMA DatasetAgrees ==
  ASSUME NEW rules, FlatRules(rules), NEW scope, IsFiniteSet(Tactics)
  PROVE  CountsAgree(Dataset(rules, scope)) /\ SeesOnly(rules, scope)
<1> DEFINE mine == {r \in rules : r.tenant \in scope}
           shown == (Tenants \cup {r.tenant : r \in rules}) \cap scope
           d == Dataset(rules, scope)
<1>1. FlatRules(mine)
  <2>1. mine \in SUBSET rules
    OBVIOUS
  <2>2. IsFiniteSet(mine)
    BY <2>1, FS_Subset DEF FlatRules
  <2> QED
    BY <2>1, <2>2 DEF FlatRules
<1>2. /\ d.summary = [t \in {"all"} \cup shown |-> Summary(mine, t)]
      /\ d.tech = [t \in {"all"} \cup shown |-> TechDetail(mine, t)]
  BY DEF Dataset
<1> HIDE DEF mine, shown, d
<1>3. \A t \in DOMAIN d.summary : FlatSummaryAgrees(d.summary[t], d.tech[t])
  BY <1>1, <1>2, SummaryAgrees
<1>4. CountsAgree(d)
  BY <1>3 DEF CountsAgree, FlatSummaryAgrees
<1> QED
  BY <1>4, SeesOnlyOwn DEF d

----------------------------------------------------------------------------
Found == Rules \X States
Scripts == Sources \cup {"none", "mapper"}
PlacesOf(script) == IF script = "mapper" THEN STRING \X Sources ELSE STRING
ProcessType(script) ==
  [main : {"none", "alive", "over"}, ok : BOOLEAN, script : Scripts, todo : Seq(PlacesOf(script)),
   pc : {"none", "fetch", "open", "write", "read"}, exit : BOOLEAN, filter : BOOLEAN, offset : Nat,
   got : Seq(Found), read : SUBSET Found]

TypeOK ==
  /\ state \in [Rules -> States] /\ started \in 0..MaxRuns
  /\ disk \in [Files -> Found \cup {NoFile, Torn}]
  /\ staging \in {{NoFile}, {Torn}} \cup SUBSET Found
  /\ live \in [rules : SUBSET Found, due : SUBSET Found]
  /\ run = [n \in Runs |-> run[n]] /\ steady \in [Runs -> SUBSET Found]
  /\ crossed \subseteq Runs /\ fellback \in BOOLEAN

\* What a process of each script has at hand.
ProcessOK(p) ==
  /\ p \in ProcessType(p.script)
  /\ p.script \in Sources =>
       /\ p.todo # <<>>
       /\ p.pc \in {"fetch", "open", "write"} /\ (p.pc = "write" => p.got # <<>>)
       /\ \A i \in 1..Len(p.got) :
            Listing[p.got[i][1]].customer = Head(p.todo) /\ Listing[p.got[i][1]].src = p.script
       /\ p.filter => Filtered /\ p.script = "falcon_edr"
  /\ p.main = "none" => p.script = "none"

ProcessesOK == \A n \in Runs : ProcessOK(run[n])

LEMMA OfConstants ==
  ASSUME ConstantsOK
  PROVE  /\ Rules = 1..Len(Listing) /\ Len(Listing) \in Nat /\ IsFiniteSet(Rules)
         /\ \A r \in Rules : Listing[r] \in Rule
         /\ \A s \in Sources : CustomersOf[s] \in Seq(STRING) /\ CustomersOf[s] # <<>>
         /\ Page \in Nat /\ Page > 0 /\ Filtered \in BOOLEAN /\ Dirs \in Seq(STRING \X Sources)
<1>1. Listing \in Seq(Rule)
  BY DEF ConstantsOK
<1>2. Rules = 1..Len(Listing) /\ Len(Listing) \in Nat /\ \A r \in Rules : Listing[r] \in Rule
  BY <1>1 DEF Rules
<1>3. IsFiniteSet(Rules)
  BY <1>2, FS_Interval
<1> QED
  BY <1>2, <1>3 DEF ConstantsOK

LEMMA InOrderIs ==
  ASSUME ConstantsOK, NEW S \in SUBSET Rules
  PROVE  /\ InOrder(S) \in Seq(S) /\ InOrder(S) \in Seq(Rules)
         /\ \A r \in S : \E i \in 1..Len(InOrder(S)) : InOrder(S)[i] = r
<1> DEFINE N == Cardinality(S)
           Below(c) == {x \in S : x < c}
           rank(c) == Cardinality(Below(c))
<1>1. IsFiniteSet(S) /\ N \in Nat /\ \A c \in S : c \in Nat
  <2>1. IsFiniteSet(S)
    BY FS_Subset, OfConstants
  <2>2. \A c \in S : c \in Nat
    BY OfConstants
  <2> QED
    BY <2>1, <2>2, FS_CardinalityType
<1>2. \A c \in S : rank(c) \in 0..(N - 1)
  <2> SUFFICES ASSUME NEW c \in S PROVE rank(c) \in 0..(N - 1)
    OBVIOUS
  <2>1. Below(c) \in SUBSET S /\ Below(c) # S
    <3>1. c \notin Below(c)
      BY <1>1
    <3> QED
      BY <3>1
  <2> HIDE DEF Below
  <2>2. IsFiniteSet(Below(c)) /\ rank(c) =< N /\ N # rank(c)
    BY <1>1, <2>1, FS_Subset
  <2>3. rank(c) \in Nat
    BY <2>2, FS_CardinalityType
  <2> HIDE DEF rank, N
  <2> QED
    BY <1>1, <2>2, <2>3
<1>3. ASSUME NEW c \in S, NEW d \in S, c < d PROVE rank(c) < rank(d)
  <2>1. Below(c) \in SUBSET Below(d) /\ Below(c) # Below(d) /\ Below(d) \in SUBSET S
    <3>1. c \in Below(d) /\ c \notin Below(c)
      BY <1>1, <1>3
    <3>2. \A x \in S : x < c => x < d
      BY <1>1, <1>3
    <3> QED
      BY <3>1, <3>2
  <2> HIDE DEF Below
  <2>2. IsFiniteSet(Below(d))
    BY <1>1, <2>1, FS_Subset
  <2>3. rank(c) =< rank(d) /\ rank(c) # rank(d)
    BY <2>1, <2>2, FS_Subset
  <2> HIDE DEF rank
  <2> QED
    BY <1>2, <2>3
<1>4. ASSUME NEW k \in 0..(N - 1) PROVE \E c \in S : rank(c) = k
  <2> DEFINE f == [c \in S |-> rank(c)]
             T == 0..(N - 1)
  <2>1. f \in [S -> T]
    BY <1>2
  <2>2. ASSUME NEW c \in S, NEW d \in S, f[c] = f[d] PROVE c = d
    <3> SUFFICES ASSUME c # d PROVE FALSE
      OBVIOUS
    <3>1. c < d \/ d < c
      BY <1>1
    <3>2. rank(c) \in Int /\ rank(d) \in Int /\ rank(c) = rank(d)
      BY <1>2, <2>2
    <3> HIDE DEF rank
    <3> QED
      BY <1>3, <3>1, <3>2
  <2>3. IsFiniteSet(T) /\ Cardinality(T) = N
    BY <1>1, FS_Interval
  <2> HIDE DEF f, T, N
  <2>4. f \in Injection(S, T)
    BY <2>1, <2>2 DEF Injection, IsInjective
  <2>5. f \in Surjection(S, T)
    BY <2>3, <2>4, FS_Injection DEF N
  <2>6. \E c \in S : f[c] = k
    BY <2>5 DEF Surjection, T
  <2> QED
    BY <2>6 DEF f
<1>5. InOrder(S) = [i \in 1..N |-> CHOOSE r \in S : rank(r) = i - 1]
  BY DEF InOrder
<1>6. ASSUME NEW i \in 1..N PROVE InOrder(S)[i] \in S /\ rank(InOrder(S)[i]) = i - 1
  <2>1. i - 1 \in 0..(N - 1)
    BY <1>1
  <2>2. \E c \in S : rank(c) = i - 1
    BY <1>4, <2>1
  <2> HIDE DEF rank, N
  <2> QED
    BY <1>5, <2>2
<1>7. InOrder(S) \in Seq(S) /\ Len(InOrder(S)) = N
  <2> HIDE DEF rank, N
  <2>1. InOrder(S) \in [1..N -> S]
    BY <1>5, <1>6
  <2> QED
    BY <1>1, <2>1
<1>8. ASSUME NEW r \in S PROVE \E i \in 1..N : InOrder(S)[i] = r
  <2> DEFINE i == rank(r) + 1
  <2>1. i \in 1..N /\ i - 1 = rank(r)
    BY <1>1, <1>2
  <2>2. InOrder(S)[i] \in S /\ rank(InOrder(S)[i]) = rank(r)
    <3> HIDE DEF i, rank
    <3> QED
      BY <1>6, <2>1
  <2> HIDE DEF i
  <2>3. ~(r < InOrder(S)[i]) /\ ~(InOrder(S)[i] < r)
    <3>1. rank(r) \in Int
      BY <1>2
    <3> HIDE DEF rank
    <3> QED
      BY <1>3, <2>2, <3>1
  <2> QED
    BY <1>1, <2>1, <2>2, <2>3
<1>9. InOrder(S) \in Seq(Rules)
  BY <1>7, SeqMonotonic
<1> QED
  BY <1>7, <1>8, <1>9

Has(s, x) == \E i \in 1..Len(s) : s[i] = x

LEMMA HasRange ==
  ASSUME NEW S, NEW s \in Seq(S), NEW x
  PROVE  x \in Range(s) <=> Has(s, x)
BY LenProperties DEF Range, Has

LEMMA HasTail ==
  ASSUME NEW S, NEW s \in Seq(S), s # <<>>, NEW x
  PROVE  /\ Has(s, x) => x = Head(s) \/ Has(Tail(s), x)
         /\ Has(Tail(s), x) => Has(s, x)
         /\ Has(s, Head(s)) /\ Head(s) \in S /\ Tail(s) \in Seq(S)
<1>1. /\ Head(s) \in S /\ Tail(s) \in Seq(S) /\ Len(Tail(s)) = Len(s) - 1
      /\ \A i \in 1..Len(Tail(s)) : Tail(s)[i] = s[i + 1]
  BY HeadTailProperties
<1>2. Len(s) \in Nat /\ Len(s) > 0 /\ s[1] = Head(s)
  BY EmptySeq
<1>3. ASSUME Has(s, x), x # Head(s) PROVE Has(Tail(s), x)
  <2>1. PICK i \in 1..Len(s) : s[i] = x
    BY <1>3 DEF Has
  <2>2. i - 1 \in 1..Len(Tail(s)) /\ (i - 1) + 1 = i
    BY <1>1, <1>2, <1>3, <2>1
  <2> QED
    BY <1>1, <2>1, <2>2 DEF Has
<1>4. ASSUME Has(Tail(s), x) PROVE Has(s, x)
  <2>1. PICK i \in 1..Len(Tail(s)) : Tail(s)[i] = x
    BY <1>4 DEF Has
  <2>2. i + 1 \in 1..Len(s)
    BY <1>1, <1>2, <2>1
  <2> QED
    BY <1>1, <2>1, <2>2 DEF Has
<1> QED
  BY <1>1, <1>2, <1>3, <1>4 DEF Has

LEMMA NoneInEmpty == \A x : ~Has(<<>>, x)
BY DEF Has

Keeps(p, q) == q.main = p.main /\ q.read = p.read

\* A script begins with the first of its customers or directories.
LEMMA LaunchIs ==
  ASSUME ConstantsOK, NEW x, NEW p \in ProcessType(x), p.main # "none",
         NEW script \in {"splunk", "falcon_edr", "mapper"}
  PROVE  LET q == Launch(p, script) IN
         /\ ProcessOK(q) /\ Keeps(p, q) /\ q.ok = p.ok /\ q.exit = TRUE
         /\ q.script = script /\ q.got = <<>> /\ q.offset = 0
         /\ q.todo = (IF script = "mapper" THEN Dirs ELSE CustomersOf[script])
         /\ q.pc = (IF script = "mapper" THEN "read" ELSE "fetch")
         /\ (Filtered /\ q.script = "falcon_edr" => q.filter)
<1> DEFINE q == Launch(p, script)
<1>1. /\ Keeps(p, q) /\ q.ok = p.ok /\ q.exit = TRUE
      /\ q.script = script /\ q.got = <<>> /\ q.offset = 0
      /\ q.todo = (IF script = "mapper" THEN Dirs ELSE CustomersOf[script])
      /\ q.pc = (IF script = "mapper" THEN "read" ELSE "fetch")
      /\ (q.filter <=> Filtered /\ script = "falcon_edr")
  BY DEF Launch, Keeps, ProcessType
<1>2. q.todo \in Seq(PlacesOf(script)) /\ (script # "mapper" => q.todo # <<>>)
  BY <1>1, OfConstants DEF PlacesOf, Sources
<1>3. q.got \in Seq(Found)
  BY <1>1, EmptySeq
<1>4. q \in ProcessType(script)
  <2>1. /\ script \in Scripts /\ Filtered \in BOOLEAN /\ <<>> \in Seq(Found)
        /\ (Filtered /\ script = "falcon_edr") \in BOOLEAN
    BY <1>1, <1>3, OfConstants DEF Scripts, Sources
  <2>2. (IF script = "mapper" THEN Dirs ELSE CustomersOf[script]) \in Seq(PlacesOf(script))
    BY <1>1, <1>2
  <2> QED
    BY <2>1, <2>2 DEF Launch, ProcessType
<1> HIDE DEF q
<1>5. ProcessOK(q)
  <2>1. \A i \in 1..Len(q.got) : FALSE
    BY <1>1
  <2>2. q.script \in Sources => q.pc = "fetch" /\ q.todo # <<>>
    BY <1>1, <1>2 DEF Sources
  <2> QED
    BY <1>1, <1>4, <2>1, <2>2 DEF ProcessOK, Keeps
<1> QED
  BY <1>1, <1>5 DEF q

LEMMA IdleOK == ProcessOK(Idle) /\ Idle.offset = 0 /\ Over.offset = 0 /\ ProcessOK(Over)
/\ Over.main = "over" /\ Over.script = "none"
                /\ Idle.main = "none" /\ Idle.script = "none"
                /\ Idle.got = <<>> /\ Over.got = <<>> /\ Idle.read = {} /\ Over.read = {}
<1>1. <<>> \in Seq(Found) /\ <<>> \in Seq(STRING)
  BY EmptySeq
<1>2. Idle \in ProcessType("none")
  BY <1>1 DEF Idle, ProcessType, PlacesOf, Scripts
<1>3. Over = [Idle EXCEPT !.main = "over"] /\ Over \in ProcessType("none")
  BY <1>2 DEF Over, ProcessType
<1> QED
  BY <1>2, <1>3 DEF ProcessOK, Idle, Over, Sources

\* A script that ends leaves nothing at hand; the next one starts when automatic.py lives.
EndOf(p, q) ==
  /\ ProcessOK(q) /\ q.got = <<>> /\ q.offset = 0
  /\ q.main = (IF p.main = "alive" THEN "alive" ELSE "over")
  /\ p.main # "alive" => q = Over
  /\ Filtered /\ q.script = "falcon_edr" => q.filter
  /\ p.main = "alive" =>
       /\ q.ok => p.ok /\ p.exit
       /\ p.script = "mapper" => q.script = "none" /\ q.read = {}
       /\ p.script # "mapper" =>
            /\ q.script = After[p.script] /\ q.read = p.read
            /\ q.todo = (IF p.script = "falcon_edr" THEN Dirs ELSE CustomersOf["falcon_edr"])
            /\ q.pc = (IF p.script = "falcon_edr" THEN "read" ELSE "fetch")

LEMMA EndedIs ==
  ASSUME ConstantsOK, NEW p, p \in ProcessType(p.script), p.main # "none", p.script # "none"
  PROVE  EndOf(p, Ended(p))
<1> DEFINE q == Ended(p)
<1>1. p.main # "none" /\ p \in ProcessType(p.script) /\ p.ok \in BOOLEAN /\ p.exit \in BOOLEAN
      /\ p.script \in Scripts /\ p.main \in {"none", "alive", "over"}
  BY DEF ProcessType
<1>2. CASE p.main # "alive"
  <2>1. q = Over
    BY <1>2 DEF Ended
  <2> QED
    BY <1>2, <2>1, IdleOK DEF EndOf
<1>3. CASE p.main = "alive" /\ p.script = "mapper"
  <2>1. q = [Idle EXCEPT !.main = "alive", !.ok = p.ok /\ p.exit]
    BY <1>3 DEF Ended
  <2>2. /\ q.main = "alive" /\ q.script = "none"
        /\ q.read = {} /\ q.got = <<>> /\ q.offset = 0
    BY <2>1 DEF Idle
  <2>3. q.ok => p.ok /\ p.exit
    BY <1>1, <2>1 DEF Idle
  <2>4. q \in ProcessType("none")
    <3>1. Idle \in ProcessType("none")
      BY IdleOK DEF ProcessOK
    <3> QED
      BY <2>1, <3>1, <1>1 DEF ProcessType
  <2> HIDE DEF q
  <2>5. ProcessOK(q)
    BY <2>2, <2>4 DEF ProcessOK, Sources
  <2>6. EndOf(p, q)
    BY <1>3, <2>2, <2>3, <2>5 DEF EndOf
  <2> QED
    BY <2>6 DEF q
<1>4. CASE p.main = "alive" /\ p.script \in Sources
  <2> DEFINE m == [p EXCEPT !.ok = @ /\ p.exit]
             next == After[p.script]
  <2>1. q = Launch(m, next)
    BY <1>4 DEF Ended, Sources
  <2>2. m \in ProcessType(p.script) /\ m.main = "alive" /\ m.read = p.read
    BY <1>1, <1>4 DEF ProcessType
  <2>3. m.ok => p.ok /\ p.exit
    BY <1>1, <1>4 DEF ProcessType
  <2>4. next \in {"splunk", "falcon_edr", "mapper"} /\ (p.script = "splunk" => next = "falcon_edr")
        /\ (p.script = "falcon_edr" => next = "mapper")
    BY <1>4 DEF After, Sources
  <2> HIDE DEF m, next, q
  <2>5. /\ ProcessOK(q) /\ Keeps(m, q) /\ q.ok = m.ok /\ q.script = next /\ q.got = <<>> /\ q.offset = 0
        /\ q.todo = (IF next = "mapper" THEN Dirs ELSE CustomersOf[next])
        /\ q.pc = (IF next = "mapper" THEN "read" ELSE "fetch")
        /\ (Filtered /\ q.script = "falcon_edr" => q.filter)
    BY <2>1, <2>2, <2>4, LaunchIs
  <2>6. q.ok => p.ok /\ p.exit
    BY <2>3, <2>5
  <2>7. EndOf(p, q)
    BY <1>4, <2>2, <2>4, <2>5, <2>6 DEF next, Keeps, Sources, EndOf
  <2> QED
    BY <2>7 DEF q
<1> QED
  BY <1>1, <1>2, <1>3, <1>4 DEF Scripts

\* After a customer comes the next one, or the script is over.
AfterCustomer(p, q, fine) ==
  /\ ProcessOK(q) /\ q.got = <<>> /\ q.offset = 0
  /\ q.main = (IF p.main = "alive" THEN "alive" ELSE "over")
  /\ Filtered /\ q.script = "falcon_edr" => q.filter
  /\ q = Over \/ q.read = p.read
  /\ q.main = "alive" =>
       /\ q.ok /\ q.exit => p.ok /\ p.exit /\ fine
       /\ \/ q.script = p.script /\ q.todo = Tail(p.todo) /\ q.todo # <<>> /\ q.pc = "fetch"
          \/ /\ Tail(p.todo) = <<>> /\ q.script = After[p.script]
             /\ q.todo = (IF p.script = "falcon_edr" THEN Dirs ELSE CustomersOf["falcon_edr"])
             /\ q.pc = (IF p.script = "falcon_edr" THEN "read" ELSE "fetch")

LEMMA Next1Is ==
  ASSUME ConstantsOK, NEW p, ProcessOK(p), p.script \in Sources, NEW fine \in BOOLEAN
  PROVE  AfterCustomer(p, Next1(p, fine), fine)
<1> DEFINE q == Next1(p, fine)
           m == [p EXCEPT !.todo = Tail(@), !.exit = @ /\ fine, !.got = <<>>, !.offset = 0,
                          !.pc = "fetch", !.filter = Filtered /\ p.script = "falcon_edr"]
           last == Tail(p.todo) = <<>> \/ (~fine /\ p.main # "alive")
<1>1. /\ p \in ProcessType(p.script) /\ p.todo \in Seq(STRING) /\ p.todo # <<>>
      /\ p.main \in {"alive", "over"}
      /\ p.script \notin {"none", "mapper"} /\ p.exit \in BOOLEAN /\ p.ok \in BOOLEAN
  BY DEF ProcessOK, ProcessType, PlacesOf, Sources
<1>2. Tail(p.todo) \in Seq(STRING)
  BY <1>1, HeadTailProperties
<1>3. /\ m.main = p.main /\ m.script = p.script /\ m.todo = Tail(p.todo) /\ m.ok = p.ok
      /\ m.read = p.read
      /\ m.pc = "fetch" /\ m.got = <<>> /\ m.offset = 0
  BY <1>1 DEF ProcessType
<1>4. (m.exit => p.exit /\ fine) /\ (m.filter <=> Filtered /\ p.script = "falcon_edr")
  BY <1>1 DEF ProcessType
<1>5. m \in ProcessType(p.script)
  <2>1. PlacesOf(p.script) = STRING /\ <<>> \in Seq(Found)
    BY <1>1, EmptySeq DEF PlacesOf
  <2> QED
    BY <1>1, <1>2, <2>1, OfConstants DEF ProcessType
<1>6. q = IF last THEN Ended(m) ELSE m
  BY <1>3 DEF Next1
<1> HIDE DEF m, q
<1>7. \A i \in 1..Len(m.got) : FALSE
  BY <1>3
<1>8. CASE ~last
  <2>1. ProcessOK(m)
    BY <1>1, <1>3, <1>4, <1>5, <1>7, <1>8 DEF ProcessOK, Sources
  <2>2. q = m
    BY <1>6, <1>8
  <2>3. Filtered /\ q.script = "falcon_edr" => q.filter
    BY <1>3, <1>4, <2>2
  <2>4. q.ok /\ q.exit => p.ok /\ p.exit /\ fine
    BY <1>3, <1>4, <2>2
  <2>5. q.todo # <<>>
    BY <1>3, <1>8, <2>2
  <2>6. AfterCustomer(p, q, fine)
    BY <1>1, <1>3, <2>1, <2>2, <2>3, <2>4, <2>5 DEF AfterCustomer
  <2> QED
    BY <2>6 DEF q
<1>9. CASE last
  <2>1. m \in ProcessType(m.script) /\ m.main # "none" /\ m.script # "none" /\ m.script # "mapper"
    BY <1>1, <1>3, <1>5
  <2>2. q = Ended(m)
    BY <1>6, <1>9
  <2>3. EndOf(m, q)
    BY <2>1, <2>2, EndedIs
  <2>4. q.ok /\ q.exit /\ q.main = "alive" => p.ok /\ p.exit /\ fine
    BY <1>1, <1>3, <1>4, <2>3 DEF EndOf
  <2>5. Filtered /\ q.script = "falcon_edr" => q.filter
    BY <2>3 DEF EndOf
  <2>6. q = Over \/ q.read = p.read
    BY <1>1, <1>3, <2>3 DEF EndOf
  <2>7. AfterCustomer(p, q, fine)
    BY <1>1, <1>3, <1>9, <2>3, <2>4, <2>5, <2>6 DEF AfterCustomer, EndOf
  <2> QED
    BY <2>7 DEF q
<1> QED
  BY <1>8, <1>9

LEMMA SmallerOf ==
  ASSUME NEW a \in Int, NEW b \in Int
  PROVE  Min({a, b}) = IF a =< b THEN a ELSE b
<1> DEFINE m == IF a =< b THEN a ELSE b
<1>1. m \in {a, b} /\ \A y \in {a, b} : m =< y
  OBVIOUS
<1>2. \A x \in {a, b} : (\A y \in {a, b} : x =< y) => x = m
  OBVIOUS
<1> QED
  BY <1>1, <1>2 DEF Min

\* A page has what the list has from the offset on, and an empty or a last one ends it.
LEMMA PageIs ==
  ASSUME ConstantsOK, NEW S \in SUBSET Rules, NEW list \in Seq(S), NEW offset \in Nat
  PROVE  LET page == SubSeq(list, offset + 1, Min({offset + Page, Len(list)}))
             next == offset + Len(page)
         IN /\ page \in Seq(S) /\ next \in Nat
            /\ \A i \in 1..Len(page) : page[i] = list[offset + i]
            /\ \A i \in 1..Len(list) : offset < i /\ i =< next => (i - offset) \in 1..Len(page)
            /\ page = <<>> \/ next >= Len(list) => \A i \in 1..Len(list) : i =< next
<1> DEFINE m == Min({offset + Page, Len(list)})
           page == SubSeq(list, offset + 1, m)
<1>1. Page \in Nat /\ Page > 0 /\ Len(list) \in Nat /\ \A i \in 1..Len(list) : list[i] \in S
  BY OfConstants, LenProperties
<1>2. m = (IF offset + Page =< Len(list) THEN offset + Page ELSE Len(list)) /\ m \in Int
  BY <1>1, SmallerOf
<1> HIDE DEF m
<1>3. \A i \in (offset + 1)..m : list[i] \in S
  BY <1>1, <1>2
<1>4. /\ page \in Seq(S)
      /\ Len(page) = (IF offset + 1 =< m THEN m - (offset + 1) + 1 ELSE 0)
      /\ \A i \in 1..(m - (offset + 1) + 1) : page[i] = list[offset + 1 + i - 1]
  BY <1>1, <1>2, <1>3, SubSeqProperties
<1> HIDE DEF page
<1>5. Len(page) = (IF offset < m THEN m - offset ELSE 0) /\ offset + Len(page) \in Nat
  BY <1>1, <1>2, <1>4
<1>6. \A i \in 1..Len(page) : page[i] = list[offset + i]
  <2> SUFFICES ASSUME NEW i \in 1..Len(page) PROVE page[i] = list[offset + i]
    OBVIOUS
  <2>1. i \in 1..(m - (offset + 1) + 1) /\ offset + 1 + i - 1 = offset + i
    BY <1>2, <1>5
  <2> QED
    BY <1>4, <2>1
<1>7. \A i \in 1..Len(list) : offset < i /\ i =< offset + Len(page) => (i - offset) \in 1..Len(page)
  BY <1>1, <1>2, <1>5
<1>8. page = <<>> \/ offset + Len(page) >= Len(list) => \A i \in 1..Len(list) : i =< offset + Len(page)
  <2>1. page = <<>> => Len(page) = 0
    OBVIOUS
  <2>2. Len(page) = 0 => m =< offset
    BY <1>2, <1>5
  <2> QED
    BY <1>1, <1>2, <1>5, <2>1, <2>2
<1> QED
  BY <1>4, <1>5, <1>6, <1>7, <1>8 DEF page, m

LEMMA SnapIs ==
  ASSUME NEW S \in SUBSET Rules, NEW rules \in Seq(S), state \in [Rules -> States]
  PROVE  /\ Snap(rules) \in Seq(Found) /\ Len(Snap(rules)) = Len(rules)
         /\ \A i \in 1..Len(rules) : Snap(rules)[i] = <<rules[i], state[rules[i]]>>
<1>1. DOMAIN rules = 1..Len(rules) /\ Len(rules) \in Nat /\ \A i \in 1..Len(rules) : rules[i] \in S
  BY LenProperties
<1>2. Snap(rules) = [i \in 1..Len(rules) |-> <<rules[i], state[rules[i]]>>]
  BY <1>1 DEF Snap
<1>3. \A i \in 1..Len(rules) : <<rules[i], state[rules[i]]>> \in Found
  BY <1>1 DEF Found
<1>4. Snap(rules) \in [1..Len(rules) -> Found]
  BY <1>2, <1>3
<1> QED
  BY <1>1, <1>2, <1>4

\* What a file is named for.
LEMMA FilesOf ==
  /\ \A r \in Rules : FileOf(r) \in Files
  /\ \A f \in Files : \E r \in Rules : f = FileOf(r)
BY DEF Files

\* The rules that a script has got are those of its first customer.
GotFor(p, got) ==
  /\ got \in Seq(Found)
  /\ \A i \in 1..Len(got) :
       Listing[got[i][1]].customer = Head(p.todo) /\ Listing[got[i][1]].src = p.script

Exporter(p, got, offset, pc, filter) ==
  [p EXCEPT !.got = got, !.offset = offset, !.pc = pc, !.filter = filter]

\* What a process does next leaves it in order.
LEMMA ProcessOfExport ==
  ASSUME ConstantsOK, NEW p, ProcessOK(p), p.script \in Sources,
         NEW got, GotFor(p, got), NEW offset \in Nat, NEW pc \in {"fetch", "open", "write"},
         NEW filter \in BOOLEAN, filter => p.filter, pc = "write" => got # <<>>,
         NEW q, q = Exporter(p, got, offset, pc, filter)
  PROVE  /\ ProcessOK(q) /\ q.main = p.main /\ q.ok = p.ok /\ q.exit = p.exit /\ q.script = p.script
         /\ q.todo = p.todo /\ q.read = p.read
         /\ q.got = got /\ q.offset = offset /\ q.pc = pc /\ q.filter = filter
<1> USE DEF GotFor, Exporter
<1>1. p \in ProcessType(p.script)
  BY DEF ProcessOK
<1>2. /\ q.main = p.main /\ q.ok = p.ok /\ q.exit = p.exit /\ q.script = p.script
      /\ q.todo = p.todo /\ q.read = p.read
      /\ q.got = got /\ q.offset = offset /\ q.pc = pc /\ q.filter = filter
  BY <1>1 DEF ProcessType
<1>3. q \in ProcessType(p.script)
  BY <1>1 DEF ProcessType
<1> QED
  BY <1>2, <1>3 DEF ProcessOK

\* Of the processes, a step of a script changes its own only.
Moves(n, q) == run' = [run EXCEPT ![n] = q] /\ run'[n] = q /\ \A o \in Runs \ {n} : run'[o] = run[o]

LEMMA MovesBy ==
  ASSUME run = [o \in Runs |-> run[o]], NEW n \in Runs, NEW q, run' = [run EXCEPT ![n] = q]
  PROVE  Moves(n, q) /\ run' = [o \in Runs |-> run'[o]]
BY DEF Moves

SameBut(p, q) ==
  /\ q.main = p.main /\ q.ok = p.ok /\ q.exit = p.exit /\ q.script = p.script
  /\ q.todo = p.todo /\ q.read = p.read

Still == UNCHANGED <<state, staging, live, started, steady, crossed>>

LEMMA OfferedIs ==
  ASSUME NEW p, NEW filtered
  PROVE  /\ Offered(p, filtered) \in SUBSET Rules
         /\ \A r \in Offered(p, filtered) :
              Listing[r].customer = Head(p.todo) /\ Listing[r].src = p.script
BY DEF Offered

LEMMA FactIs ==
  /\ \A r \in Rules : <<r, state[r]>> \in Facts
  /\ \A d \in Facts : d[1] \in Rules /\ d = <<d[1], state[d[1]]>>
BY DEF Facts

\* Splunk is asked for all the enabled rules at once.
LEMMA FetchSplunkIs ==
  ASSUME ConstantsOK, TypeOK, ProcessesOK, NEW n \in Runs, FetchSplunk(n)
  PROVE  LET p == run[n]  q == run'[n] IN
         /\ Moves(n, q) /\ ProcessOK(q) /\ SameBut(p, q) /\ Still /\ UNCHANGED <<disk, fellback>>
         /\ p.script = "splunk" /\ p.pc = "fetch" /\ q.pc = "open"
         /\ \A i \in 1..Len(q.got) : q.got[i] \in Facts /\ q.got[i][1] \in Offered(p, FALSE)
         /\ \A r \in Offered(p, FALSE) : state[r] = "on" => Has(q.got, <<r, state[r]>>)
<1> DEFINE p == run[n]
           S == {r \in Offered(p, FALSE) : state[r] = "on"}
           list == InOrder(S)
           got == Snap(list)
           q == [p EXCEPT !.pc = "open", !.got = got]
<1>1. ProcessOK(p) /\ p \in ProcessType("splunk") /\ p.script = "splunk" /\ p.pc = "fetch"
      /\ Still /\ UNCHANGED <<disk, fellback>>
  BY DEF ProcessesOK, ProcessOK, FetchSplunk, Step, Still
<1>2. S \in SUBSET Rules /\ S \in SUBSET Offered(p, FALSE)
  BY OfferedIs
<1>3. run' = [run EXCEPT ![n] = q]
  BY DEF FetchSplunk, Step
<1> HIDE DEF S
<1>4. list \in Seq(S) /\ \A r \in S : \E i \in 1..Len(list) : list[i] = r
  BY <1>2, InOrderIs
<1> HIDE DEF list
<1>5. /\ got \in Seq(Found) /\ Len(got) = Len(list)
      /\ \A i \in 1..Len(list) : got[i] = <<list[i], state[list[i]]>> /\ list[i] \in S
  BY <1>2, <1>4, SnapIs, LenProperties DEF TypeOK
<1> HIDE DEF got
<1>6. /\ \A i \in 1..Len(got) : got[i] \in Facts /\ got[i][1] \in Offered(p, FALSE)
      /\ \A r \in S : Has(got, <<r, state[r]>>)
  <2>1. \A i \in 1..Len(got) : got[i] = <<list[i], state[list[i]]>> /\ list[i] \in S
    BY <1>5
  <2>2. \A r \in S : <<r, state[r]>> \in Facts
    BY <1>2, FactIs
  <2>3. ASSUME NEW i \in 1..Len(got) PROVE got[i] \in Facts /\ got[i][1] \in Offered(p, FALSE)
    <3> DEFINE r == list[i]
    <3>1. got[i] = <<r, state[r]>> /\ r \in S
      BY <2>1
    <3> HIDE DEF r, q, p
    <3>2. got[i] \in Facts /\ got[i][1] = r
      BY <2>2, <3>1
    <3> QED
      BY <1>2, <3>1, <3>2
  <2>4. ASSUME NEW r \in S PROVE Has(got, <<r, state[r]>>)
    <3>1. PICK i \in 1..Len(list) : list[i] = r
      BY <1>4
    <3> QED
      BY <1>5, <3>1 DEF Has
  <2> QED
    BY <2>3, <2>4
<1>7. GotFor(p, got)
  BY <1>5, <1>6, OfferedIs DEF GotFor
<1>8. /\ q = Exporter(p, got, p.offset, "open", p.filter)
      /\ p.offset \in Nat /\ p.filter \in BOOLEAN
  BY <1>1 DEF ProcessType, Exporter
<1> HIDE DEF q, p
<1>9. /\ ProcessOK(q) /\ q.main = p.main /\ q.ok = p.ok /\ q.exit = p.exit /\ q.script = p.script
         /\ q.todo = p.todo /\ q.read = p.read /\ q.got = got /\ q.pc = "open"
  BY <1>1, <1>5, <1>7, <1>8, ProcessOfExport DEF Sources
<1>10. Moves(n, q)
  BY <1>3, MovesBy DEF TypeOK
<1>11. \A r \in Offered(p, FALSE) : state[r] = "on" => r \in S
  BY DEF S
<1> QED
  BY <1>1, <1>6, <1>9, <1>10, <1>11 DEF Moves, SameBut, p

\* Falcon is asked for a page, which is added to what it gave before.
LEMMA FetchFalconIs ==
  ASSUME ConstantsOK, TypeOK, ProcessesOK, NEW n \in Runs, FetchFalcon(n)
  PROVE  LET p == run[n]  q == run'[n]  list == InOrder(Offered(p, p.filter)) IN
         /\ Moves(n, q) /\ ProcessOK(q) /\ SameBut(p, q) /\ Still /\ UNCHANGED <<disk, fellback>>
         /\ p.script = "falcon_edr" /\ p.pc = "fetch" /\ q.pc \in {"fetch", "open"}
         /\ q.filter = p.filter
         /\ \A i \in 1..Len(q.got) : \/ Has(p.got, q.got[i])
                                     \/ q.got[i] \in Facts /\ q.got[i][1] \in Offered(p, p.filter)
         /\ \A e : Has(p.got, e) => Has(q.got, e)
         /\ \A i \in 1..Len(list) : p.offset < i /\ i =< q.offset => Has(q.got, <<list[i], state[list[i]]>>)
         /\ q.pc = "open" => \A i \in 1..Len(list) : i =< q.offset
<1> DEFINE p == run[n]
           S == Offered(p, p.filter)
           list == InOrder(S)
           page == SubSeq(list, p.offset + 1, Min({p.offset + Page, Len(list)}))
           offset == p.offset + Len(page)
           new == Snap(page)
           got == p.got \o new
           pc == IF page = <<>> \/ offset >= Len(list) THEN "open" ELSE "fetch"
           q == [p EXCEPT !.got = got, !.offset = offset, !.pc = pc]
<1>1. ProcessOK(p) /\ p \in ProcessType("falcon_edr") /\ p.script = "falcon_edr" /\ p.pc = "fetch"
      /\ Still /\ UNCHANGED <<disk, fellback>>
  BY DEF ProcessesOK, ProcessOK, FetchFalcon, Step, Still
<1>2. S \in SUBSET Rules
  BY OfferedIs
<1>3. run' = [run EXCEPT ![n] = q]
  BY DEF FetchFalcon, Step
<1>4. p.offset \in Nat /\ p.got \in Seq(Found) /\ p.filter \in BOOLEAN
  BY <1>1 DEF ProcessType
<1> HIDE DEF S
<1>5. list \in Seq(S)
  BY <1>2, InOrderIs
<1> HIDE DEF list, p
<1>6. /\ page \in Seq(S) /\ offset \in Nat
      /\ \A i \in 1..Len(page) : page[i] = list[p.offset + i]
      /\ \A i \in 1..Len(list) : p.offset < i /\ i =< offset => (i - p.offset) \in 1..Len(page)
      /\ page = <<>> \/ offset >= Len(list) => \A i \in 1..Len(list) : i =< offset
  BY <1>2, <1>4, <1>5, PageIs
<1>7. pc = "open" => \A i \in 1..Len(list) : i =< offset
  BY <1>6
<1>8. pc \in {"fetch", "open"}
  OBVIOUS
<1> HIDE DEF page, offset, pc
<1>9. /\ new \in Seq(Found) /\ Len(new) = Len(page)
      /\ \A i \in 1..Len(page) : new[i] = <<page[i], state[page[i]]>> /\ page[i] \in S
  BY <1>2, <1>6, SnapIs, LenProperties DEF TypeOK
<1> HIDE DEF new
<1>10. /\ got \in Seq(Found) /\ Len(got) = Len(p.got) + Len(new)
       /\ \A i \in 1..Len(p.got) + Len(new) :
            got[i] = IF i =< Len(p.got) THEN p.got[i] ELSE new[i - Len(p.got)]
       /\ Len(p.got) \in Nat /\ Len(new) \in Nat
  BY <1>4, <1>9, ConcatProperties, LenProperties
<1> HIDE DEF got
<1>11. \A i \in 1..Len(got) : \/ Has(p.got, got[i])
                              \/ got[i] \in Facts /\ got[i][1] \in S
  <2> SUFFICES ASSUME NEW i \in 1..Len(got)
               PROVE  \/ Has(p.got, got[i])
                      \/ got[i] \in Facts /\ got[i][1] \in S
    OBVIOUS
  <2>1. CASE i =< Len(p.got)
    BY <1>10, <2>1 DEF Has
  <2>2. CASE ~(i =< Len(p.got))
    <3>1. i - Len(p.got) \in 1..Len(page) /\ got[i] = new[i - Len(p.got)]
      BY <1>9, <1>10, <2>2
    <3> QED
      <4> DEFINE k == i - Len(p.got)
      <4>1. got[i] = <<page[k], state[page[k]]>> /\ page[k] \in S
        BY <1>9, <3>1
      <4> HIDE DEF k
      <4> QED
        BY <1>2, <4>1, FactIs
  <2> QED
    BY <2>1, <2>2
<1>12. ASSUME NEW e, Has(p.got, e) PROVE Has(got, e)
  <2>1. PICK i \in 1..Len(p.got) : p.got[i] = e
    BY <1>12 DEF Has
  <2>2. i \in 1..Len(got) /\ got[i] = e
    BY <1>10, <2>1
  <2> QED
    BY <2>2 DEF Has
<1>13. ASSUME NEW i \in 1..Len(list), p.offset < i, i =< offset
       PROVE  Has(got, <<list[i], state[list[i]]>>)
  <2>1. i - p.offset \in 1..Len(page)
    BY <1>6, <1>13
  <2>2. p.offset + (i - p.offset) = i /\ i \in Int
    BY <1>4
  <2>3. new[i - p.offset] = <<list[i], state[list[i]]>>
    BY <1>6, <1>9, <2>1, <2>2
  <2> DEFINE j == i - p.offset
             k == Len(p.got) + j
  <2>4. /\ j \in 1..Len(new) /\ Len(got) = Len(p.got) + Len(new)
        /\ Len(p.got) \in Nat /\ Len(new) \in Nat
    BY <1>9, <1>10, <2>1
  <2>5. new[j] = <<list[i], state[list[i]]>>
    BY <2>3
  <2> HIDE DEF j
  <2>6. k \in 1..Len(got) /\ ~(k =< Len(p.got)) /\ k - Len(p.got) = j
    BY <2>4
  <2> HIDE DEF k
  <2>7. got[k] = new[j]
    BY <1>10, <2>4, <2>6
  <2> QED
    BY <2>5, <2>6, <2>7 DEF Has
<1>14. GotFor(p, got)
  <2> SUFFICES ASSUME NEW i \in 1..Len(got)
      PROVE Listing[got[i][1]].customer = Head(p.todo) /\ Listing[got[i][1]].src = p.script
    BY <1>10 DEF GotFor
  <2>1. CASE Has(p.got, got[i])
    BY <1>1, <2>1 DEF Has, ProcessOK, Sources
  <2>2. CASE got[i][1] \in S
    BY <2>2, OfferedIs DEF S
  <2> QED
    BY <1>11, <2>1, <2>2
<1>15. q = Exporter(p, got, offset, pc, p.filter)
  BY <1>1 DEF ProcessType, Exporter
<1> HIDE DEF q
<1>16. /\ ProcessOK(q) /\ q.main = p.main /\ q.ok = p.ok /\ q.exit = p.exit /\ q.script = p.script
       /\ q.todo = p.todo /\ q.read = p.read
       /\ q.got = got /\ q.offset = offset /\ q.pc = pc /\ q.filter = p.filter
  BY <1>1, <1>4, <1>6, <1>8, <1>10, <1>14, <1>15, ProcessOfExport DEF Sources
<1>17. Moves(n, q)
  BY <1>3, MovesBy DEF TypeOK
<1>18. run'[n] = q /\ SameBut(p, q)
  BY <1>16, <1>17 DEF Moves, SameBut
<1>19. \A i \in 1..Len(list) : p.offset < i /\ i =< q.offset => Has(q.got, <<list[i], state[list[i]]>>)
  BY <1>13, <1>16
<1> QED
  BY <1>1, <1>7, <1>8, <1>11, <1>12, <1>16, <1>17, <1>18, <1>19 DEF list, S, p

LEMMA HeadOfGot ==
  ASSUME NEW p, ProcessOK(p), p.script \in Sources, p.got # <<>>
  PROVE  LET d == Head(p.got) IN
         /\ d \in Found /\ FileOf(d[1]) \in Files /\ Has(p.got, d)
         /\ Listing[d[1]].customer = Head(p.todo) /\ Listing[d[1]].src = p.script
         /\ GotFor(p, Tail(p.got))
         /\ \A e : Has(p.got, e) => e = d \/ Has(Tail(p.got), e)
         /\ \A e : Has(Tail(p.got), e) => Has(p.got, e)
<1>1. p.got \in Seq(Found) /\ GotFor(p, p.got)
  BY DEF ProcessOK, ProcessType, GotFor
<1> DEFINE got == p.got
           d == Head(p.got)
<1>2. /\ d \in Found /\ Has(got, d) /\ Tail(got) \in Seq(Found)
      /\ \A e : Has(p.got, e) => e = d \/ Has(Tail(p.got), e)
      /\ \A e : Has(Tail(p.got), e) => Has(p.got, e)
  BY <1>1, HasTail
<1>3. \A e : Has(got, e) => Listing[e[1]].customer = Head(p.todo) /\ Listing[e[1]].src = p.script
  BY <1>1 DEF GotFor, Has
<1>4. \A i \in 1..Len(Tail(got)) : Has(Tail(got), Tail(got)[i])
  BY DEF Has
<1>5. GotFor(p, Tail(got))
  BY <1>2, <1>3, <1>4 DEF GotFor
<1>6. FileOf(d[1]) \in Files
  BY <1>2, FilesOf DEF Found
<1> QED
  BY <1>2, <1>3, <1>5, <1>6

\* A rule file is opened, and then written; without more to write the customer is over.
LEMMA OpenFileIs ==
  ASSUME ConstantsOK, TypeOK, ProcessesOK, NEW n \in Runs, OpenFile(n)
  PROVE  LET p == run[n]  q == run'[n] IN
         /\ Moves(n, q) /\ ProcessOK(q) /\ Still /\ UNCHANGED fellback
         /\ p.script \in Sources /\ p.pc = "open"
         /\ \/ p.got = <<>> /\ q = Next1(p, TRUE) /\ UNCHANGED disk
            \/ /\ p.got # <<>> /\ SameBut(p, q) /\ q.filter = p.filter
               /\ q.got = p.got /\ q.pc = "write"
               /\ disk' = [disk EXCEPT ![FileOf(Head(p.got)[1])] = Torn]
<1> DEFINE p == run[n]
           q == [p EXCEPT !.pc = "write"]
<1>1. ProcessOK(p) /\ p.script \in Sources /\ p.pc = "open" /\ Still /\ UNCHANGED fellback
  BY DEF ProcessesOK, OpenFile, Exporting, Step, Still
<1>2. CASE p.got = <<>>
  <2>1. run' = [run EXCEPT ![n] = Next1(p, TRUE)] /\ UNCHANGED disk
    BY <1>2 DEF OpenFile, Step
  <2>2. ProcessOK(Next1(p, TRUE))
    BY <1>1, Next1Is DEF AfterCustomer
  <2>3. Moves(n, Next1(p, TRUE))
    BY <2>1, MovesBy DEF TypeOK
  <2> QED
    BY <1>1, <1>2, <2>1, <2>2, <2>3 DEF Moves
<1>3. CASE p.got # <<>>
  <2>1. run' = [run EXCEPT ![n] = q] /\ disk' = [disk EXCEPT ![FileOf(Head(p.got)[1])] = Torn]
    BY <1>3 DEF OpenFile, Step
  <2>2. /\ q = Exporter(p, p.got, p.offset, "write", p.filter)
        /\ p.offset \in Nat /\ p.filter \in BOOLEAN
    BY <1>1 DEF ProcessOK, ProcessType, Exporter
  <2>3. GotFor(p, p.got)
    BY <1>1 DEF ProcessOK, ProcessType, GotFor
  <2> HIDE DEF q, p
  <2>4. /\ ProcessOK(q) /\ q.main = p.main /\ q.ok = p.ok /\ q.exit = p.exit /\ q.script = p.script
        /\ q.todo = p.todo /\ q.read = p.read /\ q.got = p.got /\ q.pc = "write" /\ q.filter = p.filter
    BY <1>1, <1>3, <2>2, <2>3, ProcessOfExport
  <2>5. Moves(n, q)
    BY <2>1, MovesBy DEF TypeOK
  <2> QED
    BY <1>1, <1>3, <2>1, <2>4, <2>5 DEF Moves, SameBut, p
<1> QED
  BY <1>2, <1>3

LEMMA WriteFileIs ==
  ASSUME ConstantsOK, TypeOK, ProcessesOK, NEW n \in Runs, WriteFile(n)
  PROVE  LET p == run[n]  q == run'[n] IN
         /\ Moves(n, q) /\ ProcessOK(q) /\ Still /\ UNCHANGED fellback
         /\ p.script \in Sources /\ p.pc = "write"
         /\ p.got # <<>> /\ SameBut(p, q) /\ q.filter = p.filter
         /\ q.got = Tail(p.got) /\ q.pc = "open"
         /\ disk' = [disk EXCEPT ![FileOf(Head(p.got)[1])] = Head(p.got)]
<1> DEFINE p == run[n]
           q == [p EXCEPT !.pc = "open", !.got = Tail(@)]
<1>1. ProcessOK(p) /\ p.script \in Sources /\ p.pc = "write" /\ p.got # <<>> /\ Still
      /\ UNCHANGED fellback
  BY DEF ProcessesOK, WriteFile, Exporting, Step, Still, ProcessOK
<1>2. run' = [run EXCEPT ![n] = q] /\ disk' = [disk EXCEPT ![FileOf(Head(p.got)[1])] = Head(p.got)]
  BY DEF WriteFile, Step
<1>3. /\ q = Exporter(p, Tail(p.got), p.offset, "open", p.filter)
      /\ p.offset \in Nat /\ p.filter \in BOOLEAN
  BY <1>1 DEF ProcessOK, ProcessType, Exporter
<1>4. GotFor(p, Tail(p.got))
  BY <1>1, HeadOfGot
<1> HIDE DEF q, p
<1>5. /\ ProcessOK(q) /\ q.main = p.main /\ q.ok = p.ok /\ q.exit = p.exit /\ q.script = p.script
      /\ q.todo = p.todo /\ q.read = p.read /\ q.got = Tail(p.got) /\ q.pc = "open"
      /\ q.filter = p.filter
  BY <1>1, <1>3, <1>4, ProcessOfExport
<1>6. Moves(n, q)
  BY <1>2, MovesBy DEF TypeOK
<1> QED
  BY <1>1, <1>2, <1>5, <1>6 DEF Moves, SameBut, p

\* A request or a write that fails is the end of the customer, but for the request that is
\* made again for the rules of every author.
LEMMA FailureIs ==
  ASSUME ConstantsOK, TypeOK, ProcessesOK, NEW n \in Runs, FetchFails(n) \/ WriteFails(n)
  PROVE  LET p == run[n]  q == run'[n] IN
         /\ Moves(n, q) /\ ProcessOK(q) /\ Still /\ UNCHANGED disk
         /\ p.script \in Sources
         /\ \/ q = Next1(p, FALSE) /\ UNCHANGED fellback
            \/ /\ p.filter /\ fellback' = TRUE /\ SameBut(p, q) /\ q.got = <<>> /\ q.offset = 0
               /\ q.pc = "fetch" /\ p.pc = "fetch"
<1> DEFINE p == run[n]
           q == [p EXCEPT !.filter = FALSE, !.got = <<>>, !.offset = 0]
<1>1. ProcessOK(p) /\ p.script \in Sources /\ Still /\ UNCHANGED disk
  BY DEF ProcessesOK, FetchFails, WriteFails, Exporting, Step, Still
<1>2. CASE run' = [run EXCEPT ![n] = Next1(p, FALSE)] /\ UNCHANGED fellback
  <2>1. ProcessOK(Next1(p, FALSE))
    BY <1>1, Next1Is DEF AfterCustomer
  <2>2. Moves(n, Next1(p, FALSE))
    BY <1>2, MovesBy DEF TypeOK
  <2> QED
    BY <1>1, <1>2, <2>1, <2>2 DEF Moves
<1>3. CASE p.pc = "fetch" /\ p.filter /\ run' = [run EXCEPT ![n] = q] /\ fellback' = TRUE
  <2>1. /\ q = Exporter(p, <<>>, 0, "fetch", FALSE)
        /\ p.filter \in BOOLEAN
    BY <1>1, <1>3 DEF ProcessOK, ProcessType, Exporter
  <2> HIDE DEF q, p
  <2>3. /\ ProcessOK(q) /\ q.main = p.main /\ q.ok = p.ok /\ q.exit = p.exit /\ q.script = p.script
        /\ q.todo = p.todo /\ q.read = p.read /\ q.got = <<>> /\ q.offset = 0 /\ q.pc = "fetch"
    <3>1. p \in ProcessType(p.script) /\ <<>> \in Seq(Found)
      BY <1>1, EmptySeq DEF ProcessOK
    <3>2. /\ q.main = p.main /\ q.ok = p.ok /\ q.exit = p.exit /\ q.script = p.script
          /\ q.todo = p.todo /\ q.read = p.read /\ q.got = <<>> /\ q.offset = 0 /\ q.pc = "fetch"
          /\ ~q.filter
      BY <2>1, <3>1 DEF Exporter, ProcessType
    <3>3. q \in ProcessType(p.script)
      BY <2>1, <3>1 DEF Exporter, ProcessType
    <3>4. \A i \in 1..Len(q.got) : FALSE
      BY <3>2
    <3> QED
      BY <1>1, <3>2, <3>3, <3>4 DEF ProcessOK
  <2>4. Moves(n, q)
    BY <1>3, MovesBy DEF TypeOK
  <2> QED
    BY <1>1, <1>3, <2>3, <2>4 DEF Moves, SameBut, p
<1>4. \/ run' = [run EXCEPT ![n] = Next1(p, FALSE)] /\ UNCHANGED fellback
      \/ p.pc = "fetch" /\ p.filter /\ run' = [run EXCEPT ![n] = q] /\ fellback' = TRUE
  BY DEF FetchFails, WriteFails, Step
<1> QED
  BY <1>2, <1>3, <1>4

\* The mapper reads what parses in one directory after the other,
LEMMA ReadDirIs ==
  ASSUME ConstantsOK, TypeOK, ProcessesOK, NEW n \in Runs, ReadDir(n)
  PROVE  LET p == run[n]  q == run'[n]  dir == Head(p.todo)
             here == {f \in Files : f[1] = dir[1] /\ f[2] = dir[2] /\ disk[f] \notin {NoFile, Torn}} IN
         /\ Moves(n, q) /\ ProcessOK(q)
         /\ UNCHANGED <<state, disk, staging, live, counters, history>>
         /\ p.script = "mapper" /\ p.todo # <<>> /\ dir \in STRING \X Sources
         /\ q.main = p.main /\ q.ok = p.ok /\ q.exit = p.exit /\ q.script = "mapper"
         /\ q.todo = Tail(p.todo) /\ q.read = p.read \cup {disk[f] : f \in here}
         /\ q.got = p.got
<1> DEFINE p == run[n]
           dir == Head(p.todo)
           here == {f \in Files : f[1] = dir[1] /\ f[2] = dir[2] /\ disk[f] \notin {NoFile, Torn}}
           more == {disk[f] : f \in here}
           q == [p EXCEPT !.read = @ \cup more, !.todo = Tail(@)]
<1>1. /\ ProcessOK(p) /\ p \in ProcessType("mapper") /\ p.script = "mapper" /\ p.todo # <<>>
      /\ UNCHANGED <<state, disk, staging, live, counters, history>>
  BY DEF ProcessesOK, ProcessOK, ReadDir
<1>2. p.todo \in Seq(STRING \X Sources)
  BY <1>1 DEF ProcessType, PlacesOf
<1>3. dir \in STRING \X Sources /\ Tail(p.todo) \in Seq(STRING \X Sources)
  BY <1>1, <1>2, HeadTailProperties
<1>4. more \subseteq Found
  BY DEF TypeOK
<1>5. run' = [run EXCEPT ![n] = q]
  BY <1>1 DEF ReadDir
<1> HIDE DEF more, p, dir
<1>6. q \in ProcessType("mapper")
  BY <1>1, <1>3, <1>4 DEF ProcessType, PlacesOf
<1>7. /\ q.main = p.main /\ q.ok = p.ok /\ q.exit = p.exit /\ q.script = "mapper"
      /\ q.todo = Tail(p.todo) /\ q.read = p.read \cup more /\ q.got = p.got
  BY <1>1 DEF ProcessType
<1> HIDE DEF q
<1>8. ProcessOK(q)
  BY <1>1, <1>6, <1>7 DEF ProcessOK, Sources
<1>9. Moves(n, q)
  BY <1>5, MovesBy DEF TypeOK
<1> QED
  BY <1>1, <1>3, <1>7, <1>8, <1>9 DEF Moves, p, more, dir

\* and makes one file of it, or none that is good.
LEMMA CombineIs ==
  ASSUME ConstantsOK, TypeOK, ProcessesOK, NEW n \in Runs, Combine(n)
  PROVE  LET p == run[n]  q == run'[n] IN
         /\ Moves(n, q) /\ ProcessOK(q)
         /\ UNCHANGED <<state, disk, live, started, history>>
         /\ p.script = "mapper" /\ p.todo = <<>>
         /\ q.got = <<>> /\ q.read = {} /\ q.script = "none"
         /\ q.main = (IF p.main = "alive" THEN "alive" ELSE "over")
         /\ \/ staging' = p.read /\ (q.main = "alive" /\ q.ok => p.ok /\ p.exit)
            \/ staging' = {Torn} /\ (q.main = "alive" => ~q.ok)
<1> DEFINE p == run[n]
           m == [p EXCEPT !.exit = FALSE]
<1>1. /\ ProcessOK(p) /\ p \in ProcessType("mapper") /\ p.script = "mapper" /\ p.todo = <<>>
      /\ p.main # "none" /\ UNCHANGED <<state, disk, live, started, history>>
  BY DEF ProcessesOK, ProcessOK, Combine
<1>2. ASSUME NEW x, x \in ProcessType("mapper"), x.script = "mapper", x.main # "none"
      PROVE LET q == Ended(x) IN
            /\ ProcessOK(q) /\ q.got = <<>> /\ q.read = {} /\ q.script = "none"
            /\ q.main = (IF x.main = "alive" THEN "alive" ELSE "over")
            /\ q.main = "alive" /\ q.ok => x.ok /\ x.exit
  <2>1. x \in ProcessType(x.script) /\ x.script # "none" /\ x.ok \in BOOLEAN /\ x.exit \in BOOLEAN
    BY <1>2 DEF ProcessType
  <2> QED
    BY <1>2, <2>1, EndedIs, IdleOK DEF EndOf
<1>3. CASE staging' = p.read /\ run' = [run EXCEPT ![n] = Ended(p)]
  <2> DEFINE q == Ended(p)
  <2>1. Moves(n, q) /\ run'[n] = q
    BY <1>3, MovesBy DEF TypeOK, Moves
  <2> HIDE DEF p
  <2>2. /\ ProcessOK(q) /\ q.got = <<>> /\ q.read = {} /\ q.script = "none"
        /\ q.main = (IF p.main = "alive" THEN "alive" ELSE "over")
        /\ q.main = "alive" /\ q.ok => p.ok /\ p.exit
    BY <1>1, <1>2
  <2> HIDE DEF q
  <2> QED
    BY <1>1, <1>3, <2>1, <2>2 DEF p
<1>4. CASE staging' = {Torn} /\ run' = [run EXCEPT ![n] = Ended(m)]
  <2> DEFINE q == Ended(m)
  <2>1. Moves(n, q) /\ run'[n] = q
    BY <1>4, MovesBy DEF TypeOK, Moves
  <2>2. m \in ProcessType("mapper") /\ m.script = "mapper" /\ m.main = p.main /\ m.exit = FALSE
    BY <1>1 DEF ProcessType
  <2> HIDE DEF p, m
  <2>3. /\ ProcessOK(q) /\ q.got = <<>> /\ q.read = {} /\ q.script = "none"
        /\ q.main = (IF p.main = "alive" THEN "alive" ELSE "over")
        /\ q.main = "alive" => ~q.ok
    BY <1>1, <1>2, <2>2
  <2> HIDE DEF q
  <2> QED
    BY <1>1, <1>4, <2>1, <2>3 DEF p
<1> QED
  BY <1>3, <1>4 DEF Combine

\* What every step of a script has in common: an orphan stays one, what is got is new or
\* was got before, and the files keep their kind.
LEMMA ScriptIs ==
  ASSUME ConstantsOK, TypeOK, ProcessesOK, NEW n \in Runs, Script(n)
  PROVE  LET p == run[n]  q == run'[n] IN
         /\ Moves(n, q) /\ ProcessOK(p) /\ ProcessOK(q) /\ UNCHANGED <<state, live, started, steady,
                                                                       crossed>>
         /\ p.script # "none" /\ q.main = (IF p.main = "alive" THEN "alive" ELSE "over")
         /\ \A e : Has(q.got, e) => Has(p.got, e) \/ e \in Facts
         /\ disk' \in [Files -> Found \cup {NoFile, Torn}]
         /\ staging' \in {{NoFile}, {Torn}} \cup SUBSET Found
         /\ fellback' \in BOOLEAN /\ (fellback => fellback')
<1> DEFINE p == run[n]
           q == run'[n]
           Goal == /\ Moves(n, q) /\ ProcessOK(p) /\ ProcessOK(q)
                   /\ UNCHANGED <<state, live, started, steady, crossed>>
                   /\ p.script # "none" /\ q.main = (IF p.main = "alive" THEN "alive" ELSE "over")
                   /\ \A e : Has(q.got, e) => Has(p.got, e) \/ e \in Facts
                   /\ disk' \in [Files -> Found \cup {NoFile, Torn}]
                   /\ staging' \in {{NoFile}, {Torn}} \cup SUBSET Found
                   /\ fellback' \in BOOLEAN /\ (fellback => fellback')
<1> SUFFICES Goal
  OBVIOUS
<1>1. /\ ProcessOK(p) /\ p.main \in {"none", "alive", "over"}
      /\ (p.main = "none" => p.script = "none") /\ p.read \in SUBSET Found
      /\ disk \in [Files -> Found \cup {NoFile, Torn}]
      /\ staging \in {{NoFile}, {Torn}} \cup SUBSET Found /\ fellback \in BOOLEAN
  BY DEF ProcessesOK, ProcessOK, ProcessType, TypeOK
<1>2. \A i \in 1..Len(q.got) : Has(q.got, q.got[i])
  BY DEF Has
<1>3. "none" \notin Sources /\ "mapper" # "none"
  BY DEF Sources
<1> HIDE DEF p, q
<1>4. CASE FetchSplunk(n)
  <2>1. /\ Moves(n, q) /\ ProcessOK(q) /\ SameBut(p, q) /\ Still /\ UNCHANGED <<disk, fellback>>
        /\ p.script = "splunk" /\ \A i \in 1..Len(q.got) : q.got[i] \in Facts
    BY <1>4, FetchSplunkIs DEF p, q
  <2>2. \A e : Has(q.got, e) => e \in Facts
    BY <2>1 DEF Has
  <2> QED
    BY <1>1, <2>1, <2>2 DEF SameBut, Still
<1>5. CASE FetchFalcon(n)
  <2>1. /\ Moves(n, q) /\ ProcessOK(q) /\ SameBut(p, q) /\ Still /\ UNCHANGED <<disk, fellback>>
        /\ p.script = "falcon_edr" /\ \A i \in 1..Len(q.got) : Has(p.got, q.got[i]) \/ q.got[i] \in Facts
    BY <1>5, FetchFalconIs DEF p, q
  <2>2. \A e : Has(q.got, e) => Has(p.got, e) \/ e \in Facts
    <3> SUFFICES ASSUME NEW e, Has(q.got, e) PROVE Has(p.got, e) \/ e \in Facts
      OBVIOUS
    <3>1. PICK i \in 1..Len(q.got) : q.got[i] = e
      BY DEF Has
    <3> QED
      BY <2>1, <3>1
  <2> QED
    BY <1>1, <2>1, <2>2 DEF SameBut, Still
<1>6. ASSUME NEW fine \in BOOLEAN, p.script \in Sources, q = Next1(p, fine)
      PROVE  q.main = (IF p.main = "alive" THEN "alive" ELSE "over") /\ \A e : ~Has(q.got, e)
  BY <1>1, <1>6, Next1Is, NoneInEmpty DEF AfterCustomer
<1>7. CASE FetchFails(n) \/ WriteFails(n)
  <2>1. /\ Moves(n, q) /\ ProcessOK(q) /\ Still /\ UNCHANGED disk
        /\ p.script \in Sources
        /\ \/ q = Next1(p, FALSE) /\ UNCHANGED fellback
           \/ fellback' = TRUE /\ SameBut(p, q) /\ q.got = <<>>
    BY <1>7, FailureIs DEF p, q
  <2>2. q.main = (IF p.main = "alive" THEN "alive" ELSE "over") /\ \A e : ~Has(q.got, e)
    BY <1>1, <1>3, <1>6, <2>1, NoneInEmpty DEF SameBut
  <2>3. fellback' = fellback \/ fellback' = TRUE
    BY <2>1, Zenon
  <2>4. fellback \in BOOLEAN
    BY <1>1
  <2>5. fellback' \in BOOLEAN /\ (fellback => fellback')
    <3>1. CASE fellback' = fellback
      BY <2>4, <3>1
    <3>2. CASE fellback' = TRUE
      BY <3>2
    <3> QED
      BY <2>3, <3>1, <3>2
  <2> QED
    BY <1>1, <1>3, <2>1, <2>2, <2>5 DEF Still
<1>8. CASE OpenFile(n)
  <2>1. /\ Moves(n, q) /\ ProcessOK(q) /\ Still /\ UNCHANGED fellback
        /\ p.script \in Sources
        /\ \/ q = Next1(p, TRUE) /\ UNCHANGED disk
           \/ /\ p.got # <<>> /\ SameBut(p, q) /\ q.got = p.got
              /\ disk' = [disk EXCEPT ![FileOf(Head(p.got)[1])] = Torn]
    BY <1>8, OpenFileIs DEF p, q
  <2>2. q.main = (IF p.main = "alive" THEN "alive" ELSE "over") /\ \A e : Has(q.got, e) => Has(p.got, e)
    BY <1>1, <1>3, <1>6, <2>1 DEF SameBut
  <2>3. disk' \in [Files -> Found \cup {NoFile, Torn}]
    BY <1>1, <2>1
  <2> QED
    BY <1>1, <1>3, <2>1, <2>2, <2>3 DEF Still
<1>9. CASE WriteFile(n)
  <2>1. /\ Moves(n, q) /\ ProcessOK(q) /\ Still /\ UNCHANGED fellback
        /\ p.script \in Sources /\ p.got # <<>> /\ SameBut(p, q) /\ q.got = Tail(p.got)
        /\ disk' = [disk EXCEPT ![FileOf(Head(p.got)[1])] = Head(p.got)]
    BY <1>9, WriteFileIs DEF p, q
  <2>2. Head(p.got) \in Found /\ \A e : Has(q.got, e) => Has(p.got, e)
    BY <1>1, <2>1, HeadOfGot
  <2>3. disk' \in [Files -> Found \cup {NoFile, Torn}]
    BY <1>1, <2>1, <2>2
  <2> QED
    BY <1>1, <1>3, <2>1, <2>2, <2>3 DEF SameBut, Still
<1>10. CASE ReadDir(n)
  <2>1. /\ Moves(n, q) /\ ProcessOK(q) /\ UNCHANGED <<state, disk, staging, live, counters, history>>
        /\ p.script = "mapper" /\ q.main = p.main /\ q.got = p.got
    BY <1>10, ReadDirIs DEF p, q
  <2> QED
    BY <1>1, <2>1 DEF counters, history
<1>11. CASE Combine(n)
  <2>1. /\ Moves(n, q) /\ ProcessOK(q) /\ UNCHANGED <<state, disk, live, started, history>>
        /\ p.script = "mapper" /\ q.got = <<>>
        /\ q.main = (IF p.main = "alive" THEN "alive" ELSE "over")
        /\ staging' = p.read \/ staging' = {Torn}
    BY <1>11, CombineIs DEF p, q
  <2> QED
    BY <1>1, <2>1, NoneInEmpty DEF history
<1> HIDE DEF Goal
<1> QED
  BY <1>4, <1>5, <1>7, <1>8, <1>9, <1>10, <1>11 DEF Script

LEMMA StartIs ==
  ASSUME ConstantsOK, TypeOK, ProcessesOK, NEW n \in Runs, Start(n)
  PROVE  LET q == run'[n] IN
         /\ Moves(n, q) /\ ProcessOK(q) /\ q.main = "alive" /\ q.script = "splunk" /\ q.got = <<>>
         /\ q.pc = "fetch" /\ q.todo = CustomersOf["splunk"] /\ q.read = run[n].read
<1> DEFINE p == run[n]
           m == [p EXCEPT !.main = "alive"]
           q == Launch(m, "splunk")
<1>1. p \in ProcessType(p.script)
  BY DEF ProcessesOK, ProcessOK
<1>2. m \in ProcessType(p.script) /\ m.main = "alive" /\ m.read = p.read
  BY <1>1 DEF ProcessType
<1>3. run' = [run EXCEPT ![n] = q]
  BY DEF Start
<1>4. Moves(n, q) /\ run'[n] = q
  BY <1>3, MovesBy DEF TypeOK, Moves
<1> HIDE DEF m
<1>5. /\ ProcessOK(q) /\ Keeps(m, q) /\ q.script = "splunk" /\ q.got = <<>> /\ q.pc = "fetch"
      /\ q.todo = CustomersOf["splunk"]
  BY <1>2, LaunchIs
<1> HIDE DEF q
<1> QED
  BY <1>2, <1>4, <1>5 DEF Keeps

LEMMA TimeoutIs ==
  ASSUME ConstantsOK, TypeOK, ProcessesOK, NEW n \in Runs, Timeout(n)
  PROVE  LET p == run[n]  q == run'[n] IN
         /\ Moves(n, q) /\ ProcessOK(q) /\ q.main = "over" /\ q.script = p.script /\ q.got = p.got
         /\ q.filter = p.filter /\ q.read = p.read
<1> DEFINE p == run[n]
           q == [p EXCEPT !.main = "over"]
<1>1. ProcessOK(p) /\ p \in ProcessType(p.script)
  BY DEF ProcessesOK, ProcessOK
<1>2. /\ q \in ProcessType(p.script) /\ q.main = "over" /\ q.script = p.script /\ q.got = p.got
      /\ q.filter = p.filter /\ q.read = p.read /\ q.todo = p.todo /\ q.pc = p.pc
  BY <1>1 DEF ProcessType
<1>3. run' = [run EXCEPT ![n] = q]
  BY DEF Timeout
<1>4. Moves(n, q) /\ run'[n] = q
  BY <1>3, MovesBy DEF TypeOK, Moves
<1> HIDE DEF q
<1>5. ProcessOK(q)
  BY <1>1, <1>2 DEF ProcessOK
<1> QED
  BY <1>2, <1>4, <1>5

LEMMA CollectIs ==
  ASSUME TypeOK, NEW n \in Runs, Collect(n)
  PROVE  Moves(n, Over) /\ run'[n] = Over
BY MovesBy DEF Collect, TypeOK, Moves

LEMMA RestartIs ==
  ASSUME Restart
  PROVE  /\ run' = [n \in Runs |-> run'[n]]
         /\ \A n \in Runs : run'[n] = (IF n =< started THEN Over ELSE Idle)
BY DEF Restart

----------------------------------------------------------------------------
(* Types. *)

LEMMA TypesInit ==
  ASSUME ConstantsOK, Init
  PROVE  TypeOK /\ ProcessesOK
<1>1. TypeOK
  <2>1. state \in [Rules -> States]
    BY DEF Init, States
  <2>2. started \in 0..MaxRuns /\ steady \in [Runs -> SUBSET Found] /\ crossed \subseteq Runs
    BY DEF Init, ConstantsOK
  <2>3. live \in [rules : SUBSET Found, due : SUBSET Found] /\ disk \in [Files -> Found \cup {NoFile, Torn}]
    BY DEF Init
  <2> QED
    BY <2>1, <2>2, <2>3 DEF Init, TypeOK
<1>2. ProcessesOK
  BY IdleOK DEF Init, ProcessesOK
<1> QED
  BY <1>1, <1>2

LEMMA TypesMoved ==
  ASSUME TypeOK, ProcessesOK, NEW n \in Runs, NEW q, Moves(n, q), ProcessOK(q)
  PROVE  ProcessesOK' /\ run' = [o \in Runs |-> run'[o]]
<1>1. ProcessesOK'
  BY DEF ProcessesOK, Moves, ProcessOK, ProcessType
<1>2. run' = [o \in Runs |-> run'[o]]
  BY DEF Moves, TypeOK
<1> QED
  BY <1>1, <1>2

LEMMA TypesNext ==
  ASSUME ConstantsOK, TypeOK, ProcessesOK, [Next]_vars
  PROVE  TypeOK' /\ ProcessesOK'
<1>1. CASE UNCHANGED vars
  BY <1>1 DEF vars, counters, history, TypeOK, ProcessesOK, ProcessOK, Found
<1>2. ASSUME NEW n \in Runs, Script(n) PROVE TypeOK' /\ ProcessesOK'
  <2>1. /\ Moves(n, run'[n]) /\ ProcessOK(run'[n]) /\ UNCHANGED <<state, live, started, steady,
                                                                  crossed>>
        /\ disk' \in [Files -> Found \cup {NoFile, Torn}]
        /\ staging' \in {{NoFile}, {Torn}} \cup SUBSET Found
        /\ fellback' \in BOOLEAN
    BY <1>2, ScriptIs
  <2>2. ProcessesOK' /\ run' = [o \in Runs |-> run'[o]]
    BY <2>1, TypesMoved
  <2> QED
    BY <2>1, <2>2 DEF TypeOK
<1>3. ASSUME NEW n \in Runs, Start(n) PROVE TypeOK' /\ ProcessesOK'
  <2>1. Moves(n, run'[n]) /\ ProcessOK(run'[n])
    BY <1>3, StartIs
  <2>2. ProcessesOK' /\ run' = [o \in Runs |-> run'[o]]
    BY <2>1, TypesMoved
  <2>3. Facts \in SUBSET Found /\ n \in 0..MaxRuns
    BY DEF TypeOK, Facts, Found, Runs, ConstantsOK
  <2>4. started' \in 0..MaxRuns /\ steady' \in [Runs -> SUBSET Found] /\ crossed' \subseteq Runs
    BY <1>3, <2>3 DEF TypeOK, Start
  <2> QED
    BY <1>3, <2>2, <2>4 DEF TypeOK, Start
<1>4. ASSUME NEW n \in Runs, Timeout(n) PROVE TypeOK' /\ ProcessesOK'
  <2>1. Moves(n, run'[n]) /\ ProcessOK(run'[n])
    BY <1>4, TimeoutIs
  <2>2. ProcessesOK' /\ run' = [o \in Runs |-> run'[o]]
    BY <2>1, TypesMoved
  <2> QED
    BY <1>4, <2>2 DEF TypeOK, Timeout
<1>5. ASSUME NEW n \in Runs, Collect(n) PROVE TypeOK' /\ ProcessesOK'
  <2>1. Moves(n, Over) /\ ProcessOK(Over)
    BY <1>5, CollectIs, IdleOK
  <2>2. ProcessesOK' /\ run' = [o \in Runs |-> run'[o]]
    BY <2>1, TypesMoved
  <2>3. live' \in [rules : SUBSET Found, due : SUBSET Found]
    BY <1>5 DEF TypeOK, Collect
  <2> QED
    BY <1>5, <2>2, <2>3 DEF TypeOK, Collect, counters
<1>6. CASE Restart
  <2>1. ProcessesOK' /\ run' = [o \in Runs |-> run'[o]]
    BY <1>6, RestartIs, IdleOK DEF ProcessesOK, ProcessOK
  <2> QED
    BY <1>6, <2>1 DEF TypeOK, Restart
<1>7. ASSUME NEW r \in Rules, NEW s \in States, Edit(r, s) PROVE TypeOK' /\ ProcessesOK'
  BY <1>7 DEF TypeOK, ProcessesOK, ProcessOK, Edit, Found
<1> QED
  BY <1>1, <1>2, <1>3, <1>4, <1>5, <1>6, <1>7 DEF Next

----------------------------------------------------------------------------
(* Which processes there are.                                                *)

\* A run that lives is the last one started, and has the files to itself unless it met an
\* orphan when it began.
OneAtATime ==
  \A n \in Runs :
    /\ run[n].main = "alive" => n = started
    /\ n > started => run[n] = Idle
    /\ run[n].main = "alive" /\ n \notin crossed => \A o \in Runs \ {n} : run[o].script = "none"

LEMMA OneAtATimeNext ==
  ASSUME ConstantsOK, TypeOK, ProcessesOK, OneAtATime, [Next]_vars
  PROVE  OneAtATime'
<1>1. \A n \in Runs : n \in Int /\ started \in Int
  BY DEF Runs, TypeOK, ConstantsOK
<1>2. CASE UNCHANGED vars
  BY <1>2 DEF vars, counters, history, OneAtATime
<1>3. ASSUME NEW n \in Runs, Script(n) PROVE OneAtATime'
  <2>1. /\ Moves(n, run'[n]) /\ UNCHANGED <<started, crossed>> /\ run[n].script # "none"
        /\ run'[n].main = (IF run[n].main = "alive" THEN "alive" ELSE "over")
    BY <1>3, ScriptIs
  <2>2. ~(n > started)
    BY <2>1, IdleOK DEF OneAtATime
  <2>3. ASSUME NEW o \in Runs, run'[o].main = "alive", o \notin crossed, NEW x \in Runs \ {o}
        PROVE  run'[x].script = "none"
    <3>1. run[o].main = "alive"
      BY <2>1, <2>3 DEF Moves
    <3>2. run[x].script = "none"
      BY <2>3, <3>1 DEF OneAtATime
    <3> QED
      BY <2>1, <3>2 DEF Moves
  <2> QED
    BY <2>1, <2>2, <2>3 DEF OneAtATime, Moves
<1>4. ASSUME NEW n \in Runs, Start(n) PROVE OneAtATime'
  <2>1. /\ Moves(n, run'[n]) /\ n = started + 1 /\ started' = n
        /\ \A o \in Runs : run[o].main # "alive"
        /\ n \notin crossed' => Orphans(n) = {}
    BY <1>4, StartIs DEF Start
  <2>2. ASSUME NEW o \in Runs \ {n}, n \notin crossed' PROVE run'[o].script = "none"
    <3>1. CASE o < n
      BY <2>1, <2>2, <3>1 DEF Orphans, Running, Moves
    <3>2. CASE o > n
      <4>1. run[o] = Idle
        BY <1>1, <2>1, <3>2 DEF OneAtATime
      <4> QED
        BY <2>1, <4>1, IdleOK DEF Moves
    <3> QED
      BY <1>1, <3>1, <3>2
  <2>3. ASSUME NEW o \in Runs, o > n PROVE run'[o] = Idle
    BY <1>1, <2>1, <2>3 DEF OneAtATime, Moves
  <2>4. ASSUME NEW o \in Runs, run'[o].main = "alive" PROVE o = n
    BY <2>1, <2>4 DEF Moves
  <2> QED
    BY <2>1, <2>2, <2>3, <2>4 DEF OneAtATime
<1>5. ASSUME NEW n \in Runs, Timeout(n) \/ Collect(n) PROVE OneAtATime'
  <2>1. /\ Moves(n, run'[n]) /\ UNCHANGED started /\ run[n].main = "alive" /\ run'[n].main = "over"
    BY <1>5, TimeoutIs, CollectIs, IdleOK DEF Timeout, Collect, counters
  <2>2. n = started
    BY <2>1 DEF OneAtATime
  <2>3. \A o \in Runs : run'[o].main # "alive"
    BY <2>1, <2>2 DEF OneAtATime, Moves
  <2>4. \A o \in Runs : o > started => o # n
    BY <1>1, <2>2
  <2> QED
    BY <2>1, <2>3, <2>4 DEF OneAtATime, Moves
<1>6. CASE Restart
  <2>1. \A o \in Runs : run'[o].main # "alive"
    BY <1>6, RestartIs, IdleOK
  <2>2. \A o \in Runs : o > started => run'[o] = Idle
    BY <1>1, <1>6, RestartIs
  <2>3. UNCHANGED started
    BY <1>6 DEF Restart
  <2> QED
    BY <2>1, <2>2, <2>3 DEF OneAtATime
<1>7. ASSUME NEW r \in Rules, NEW s \in States, Edit(r, s) PROVE OneAtATime'
  BY <1>7 DEF OneAtATime, Edit
<1> QED
  BY <1>2, <1>3, <1>4, <1>5, <1>6, <1>7 DEF Next

\* What has been so since a run began is so; what it has got of a rule that has not
\* changed is what the rule is.
SteadyOK ==
  \A n \in Runs :
    /\ steady[n] \subseteq Facts
    /\ run[n].main # "alive" => steady[n] = {}
    /\ \A e \in Found, d \in steady[n] : Has(run[n].got, e) /\ e[1] = d[1] => e = d

LEMMA SteadyNext ==
  ASSUME ConstantsOK, TypeOK, ProcessesOK, SteadyOK, [Next]_vars
  PROVE  SteadyOK'
<1>1. \A e, d \in Facts : e[1] = d[1] => e = d
  BY FactIs
<1>2. CASE UNCHANGED vars
  BY <1>2 DEF vars, counters, history, SteadyOK, Facts, Has
<1>3. ASSUME NEW n \in Runs, Script(n) PROVE SteadyOK'
  <2>1. /\ Moves(n, run'[n]) /\ UNCHANGED <<state, steady>>
        /\ run'[n].main = (IF run[n].main = "alive" THEN "alive" ELSE "over")
        /\ \A e : Has(run'[n].got, e) => Has(run[n].got, e) \/ e \in Facts
    BY <1>3, ScriptIs
  <2>2. Facts' = Facts
    BY <2>1 DEF Facts
  <2>3. ASSUME NEW e \in Found, NEW d \in steady[n], Has(run'[n].got, e), e[1] = d[1] PROVE e = d
    BY <1>1, <2>1, <2>3 DEF SteadyOK
  <2> QED
    BY <2>1, <2>2, <2>3 DEF SteadyOK, Moves
<1>4. ASSUME NEW n \in Runs, Start(n) PROVE SteadyOK'
  <2>1. /\ Moves(n, run'[n]) /\ UNCHANGED state /\ steady' = [steady EXCEPT ![n] = Facts]
        /\ run'[n].main = "alive" /\ run'[n].got = <<>>
    BY <1>4, StartIs DEF Start
  <2>2. Facts' = Facts
    BY <2>1 DEF Facts
  <2>3. \A e : ~Has(run'[n].got, e)
    BY <2>1, NoneInEmpty
  <2>4. steady'[n] = Facts /\ \A o \in Runs \ {n} : steady'[o] = steady[o] /\ run'[o] = run[o]
    BY <2>1 DEF TypeOK, Moves
  <2> QED
    BY <2>1, <2>2, <2>3, <2>4 DEF SteadyOK
<1>5. ASSUME NEW n \in Runs, Timeout(n) \/ Collect(n) PROVE SteadyOK'
  <2>1. /\ Moves(n, run'[n]) /\ UNCHANGED state /\ steady' = [steady EXCEPT ![n] = {}]
    BY <1>5, TimeoutIs, CollectIs, IdleOK DEF Timeout, Collect
  <2>2. Facts' = Facts
    BY <2>1 DEF Facts
  <2>3. steady'[n] = {} /\ \A o \in Runs \ {n} : steady'[o] = steady[o] /\ run'[o] = run[o]
    BY <2>1 DEF TypeOK, Moves
  <2> QED
    BY <2>2, <2>3 DEF SteadyOK
<1>6. CASE Restart
  BY <1>6 DEF Restart, SteadyOK
<1>7. ASSUME NEW r \in Rules, NEW s \in States, Edit(r, s) PROVE SteadyOK'
  <2>1. /\ UNCHANGED run /\ \A n \in Runs : steady'[n] = steady[n] \ {<<r, state[r]>>}
        /\ \A x \in Rules \ {r} : state'[x] = state[x]
    BY <1>7 DEF Edit, TypeOK
  <2>2. ASSUME NEW n \in Runs, NEW d \in steady'[n] PROVE d \in Facts'
    <3>1. d \in Facts /\ d # <<r, state[r]>>
      BY <2>1, <2>2 DEF SteadyOK
    <3>2. d[1] \in Rules \ {r} /\ d = <<d[1], state[d[1]]>>
      BY <3>1, FactIs
    <3>3. d = <<d[1], state'[d[1]]>>
      BY <2>1, <3>2
    <3> QED
      BY <3>2, <3>3 DEF Facts
  <2> QED
    BY <2>1, <2>2 DEF SteadyOK
<1> QED
  BY <1>2, <1>3, <1>4, <1>5, <1>6, <1>7 DEF Next

----------------------------------------------------------------------------
(* Whose rules they are.                                                     *)

ByTheAuthor(d) == Listing[d[1]].src = "falcon_edr" => Listing[d[1]].mine

HasMine(p) ==
  /\ p.script = "falcon_edr" => p.filter
  /\ \A d \in p.read : ByTheAuthor(d)
  /\ \A d \in Found : Has(p.got, d) => ByTheAuthor(d)

FilesAreMine ==
  /\ \A f \in Files : disk[f] \in Found => ByTheAuthor(disk[f])
  /\ \A d \in staging : d \in Found => ByTheAuthor(d)
  /\ \A d \in live.rules : ByTheAuthor(d)

\* While no request has been made for the rules of every author, falcon's are the author's
\* wherever they are.
OnlyMine ==
  Filtered /\ ~fellback => FilesAreMine /\ \A n \in Runs : HasMine(run[n])

LEMMA Next1IsMine ==
  ASSUME ConstantsOK, Filtered, NEW p, ProcessOK(p), p.script \in Sources, HasMine(p),
         NEW fine \in BOOLEAN
  PROVE  HasMine(Next1(p, fine))
<1>1. PICK q : q = Next1(p, fine)
  OBVIOUS
<1>2. q.got = <<>> /\ (q.script = "falcon_edr" => q.filter) /\ (q = Over \/ q.read = p.read)
  BY <1>1, Next1Is DEF AfterCustomer
<1> QED
  BY <1>1, <1>2, IdleOK, NoneInEmpty DEF HasMine

LEMMA ScriptKeepsMine ==
  ASSUME ConstantsOK, TypeOK, ProcessesOK, NEW n \in Runs, Script(n),
         Filtered, ~fellback', FilesAreMine, HasMine(run[n])
  PROVE  FilesAreMine' /\ HasMine(run'[n])
<1> DEFINE p == run[n]
           q == run'[n]
<1>1. ProcessOK(p) /\ HasMine(p) /\ UNCHANGED live /\ p \in ProcessType(p.script)
      /\ p.read \in SUBSET Found
      /\ disk \in [Files -> Found \cup {NoFile, Torn}]
  BY ScriptIs DEF ProcessOK, ProcessType, TypeOK
<1>2. \A r : ByTheAuthor(r)' <=> ByTheAuthor(r)
  BY DEF ByTheAuthor
<1>3. Torn \notin Found /\ NoFile \notin Found
  BY OfConstants DEF Torn, NoFile, Found, States
<1> SUFFICES FilesAreMine' /\ HasMine(q)
  OBVIOUS
<1> HIDE DEF p, q
<1>4. CASE FetchSplunk(n)
  <2>1. /\ SameBut(p, q) /\ UNCHANGED <<disk, staging>> /\ p.script = "splunk"
        /\ \A i \in 1..Len(q.got) : q.got[i][1] \in Offered(p, FALSE)
    BY <1>4, FetchSplunkIs DEF Still, p, q
  <2>2. \A d \in Found : Has(q.got, d) => ByTheAuthor(d)
    BY <2>1, OfferedIs DEF Has, ByTheAuthor
  <2> QED
    BY <1>1, <2>1, <2>2 DEF FilesAreMine, HasMine, SameBut, ByTheAuthor
<1>5. CASE FetchFalcon(n)
  <2>1. /\ SameBut(p, q) /\ UNCHANGED <<disk, staging>> /\ p.script = "falcon_edr"
        /\ q.filter = p.filter
        /\ \A i \in 1..Len(q.got) : Has(p.got, q.got[i]) \/ q.got[i][1] \in Offered(p, p.filter)
    BY <1>5, FetchFalconIs DEF Still, p, q
  <2>2. p.filter
    BY <1>1, <2>1 DEF HasMine
  <2>3. ASSUME NEW d \in Found, Has(q.got, d) PROVE ByTheAuthor(d)
    <3>1. Has(p.got, d) \/ d[1] \in Offered(p, p.filter)
      BY <2>1, <2>3 DEF Has
    <3>2. d[1] \in Offered(p, p.filter) => Listing[d[1]].mine
      BY <2>2 DEF Offered
    <3> QED
      BY <1>1, <3>1, <3>2 DEF HasMine, ByTheAuthor
  <2> QED
    BY <1>1, <2>1, <2>2, <2>3 DEF FilesAreMine, HasMine, SameBut, ByTheAuthor
<1>6. CASE FetchFails(n) \/ WriteFails(n)
  <2>1. UNCHANGED <<disk, staging>> /\ p.script \in Sources /\ q = Next1(p, FALSE)
    BY <1>6, FailureIs DEF Still, p, q
  <2>2. HasMine(q)
    BY <1>1, <2>1, Next1IsMine
  <2> QED
    BY <1>1, <2>1, <2>2 DEF FilesAreMine, ByTheAuthor
<1>7. CASE OpenFile(n)
  <2>1. /\ UNCHANGED staging /\ p.script \in Sources
        /\ \/ q = Next1(p, TRUE) /\ UNCHANGED disk
           \/ /\ p.got # <<>> /\ SameBut(p, q) /\ q.filter = p.filter /\ q.got = p.got
              /\ disk' = [disk EXCEPT ![FileOf(Head(p.got)[1])] = Torn]
    BY <1>7, OpenFileIs DEF Still, p, q
  <2>2. HasMine(q)
    BY <1>1, <2>1, Next1IsMine DEF HasMine, SameBut
  <2>3. \A f \in Files : disk'[f] \in Found => ByTheAuthor(disk'[f])
    BY <1>1, <1>3, <2>1 DEF FilesAreMine
  <2> QED
    BY <1>1, <2>1, <2>2, <2>3 DEF FilesAreMine, ByTheAuthor
<1>8. CASE WriteFile(n)
  <2>1. /\ UNCHANGED staging /\ p.script \in Sources
        /\ p.got # <<>> /\ SameBut(p, q) /\ q.filter = p.filter /\ q.got = Tail(p.got)
        /\ disk' = [disk EXCEPT ![FileOf(Head(p.got)[1])] = Head(p.got)]
    BY <1>8, WriteFileIs DEF Still, p, q
  <2>2. /\ Has(p.got, Head(p.got)) /\ Head(p.got) \in Found
        /\ \A e : Has(Tail(p.got), e) => Has(p.got, e)
    BY <1>1, <2>1, HeadOfGot
  <2>3. HasMine(q) /\ ByTheAuthor(Head(p.got))
    BY <1>1, <2>1, <2>2 DEF HasMine, SameBut
  <2>4. \A f \in Files : disk'[f] \in Found => ByTheAuthor(disk'[f])
    BY <1>1, <2>1, <2>3 DEF FilesAreMine
  <2> QED
    BY <1>1, <2>1, <2>3, <2>4 DEF FilesAreMine, ByTheAuthor
<1>9. CASE ReadDir(n)
  <2> DEFINE dir == Head(p.todo)
             here == {f \in Files : f[1] = dir[1] /\ f[2] = dir[2] /\ disk[f] \notin {NoFile, Torn}}
             more == {disk[f] : f \in here}
  <2>1. /\ UNCHANGED <<disk, staging>> /\ q.script = "mapper" /\ q.read = p.read \cup more
        /\ q.got = p.got
    BY <1>9, ReadDirIs DEF p, q
  <2>2. \A d \in more : ByTheAuthor(d)
    BY <1>1 DEF FilesAreMine
  <2> HIDE DEF more
  <2> QED
    BY <1>1, <2>1, <2>2 DEF FilesAreMine, HasMine, ByTheAuthor
<1>10. CASE Combine(n)
  <2>1. /\ UNCHANGED disk /\ q.got = <<>> /\ q.read = {} /\ q.script = "none"
        /\ staging' = p.read \/ staging' = {Torn}
    BY <1>10, CombineIs DEF p, q
  <2>2. HasMine(q)
    BY <2>1, NoneInEmpty DEF HasMine
  <2>3. \A d \in staging' : d \in Found => ByTheAuthor(d)
    BY <1>1, <1>3, <2>1 DEF HasMine
  <2> QED
    BY <1>1, <2>1, <2>2, <2>3 DEF FilesAreMine, ByTheAuthor
<1> QED
  BY <1>4, <1>5, <1>6, <1>7, <1>8, <1>9, <1>10 DEF Script

LEMMA OnlyMineNext ==
  ASSUME ConstantsOK, TypeOK, ProcessesOK, OneAtATime, OnlyMine, [Next]_vars
  PROVE  OnlyMine'
<1> SUFFICES ASSUME Filtered, ~fellback' PROVE FilesAreMine' /\ \A n \in Runs : HasMine(run[n])'
  BY DEF OnlyMine
<1>1. ASSUME UNCHANGED fellback PROVE FilesAreMine /\ \A n \in Runs : HasMine(run[n])
  BY <1>1 DEF OnlyMine
<1>2. HasMine(Idle) /\ HasMine(Over)
  BY IdleOK, NoneInEmpty DEF HasMine
<1>3. NoFile \notin Found
  BY OfConstants DEF NoFile, Found, States
<1>4. CASE UNCHANGED vars
  BY <1>1, <1>4 DEF vars, counters, history, FilesAreMine, HasMine, ByTheAuthor, Has, Found
<1>5. ASSUME NEW n \in Runs, NEW q, Moves(n, q), HasMine(q), \A o \in Runs : HasMine(run[o])
      PROVE  \A o \in Runs : HasMine(run[o])'
  BY <1>5 DEF Moves, HasMine, ByTheAuthor, Has, Found
<1>6. ASSUME NEW n \in Runs, Script(n) PROVE FilesAreMine' /\ \A o \in Runs : HasMine(run[o])'
  <2>1. Moves(n, run'[n]) /\ fellback \in BOOLEAN /\ (fellback => fellback')
    BY <1>6, ScriptIs DEF TypeOK
  <2>2. FilesAreMine /\ \A o \in Runs : HasMine(run[o])
    BY <2>1 DEF OnlyMine
  <2>3. FilesAreMine' /\ HasMine(run'[n])
    BY <1>6, <2>2, ScriptKeepsMine
  <2> QED
    BY <1>5, <2>1, <2>2, <2>3
<1>7. ASSUME NEW n \in Runs, Start(n) PROVE FilesAreMine' /\ \A o \in Runs : HasMine(run[o])'
  <2>1. UNCHANGED <<disk, live, fellback>> /\ staging' = {NoFile}
    BY <1>7 DEF Start
  <2>2. /\ Moves(n, run'[n]) /\ run'[n].script = "splunk" /\ run'[n].got = <<>>
        /\ run'[n].read = run[n].read
    BY <1>7, StartIs
  <2>3. HasMine(run'[n])
    BY <1>1, <2>1, <2>2, NoneInEmpty DEF HasMine
  <2>4. FilesAreMine'
    BY <1>1, <1>3, <2>1 DEF FilesAreMine, ByTheAuthor, Found
  <2> QED
    BY <1>1, <1>5, <2>1, <2>2, <2>3, <2>4
<1>8. ASSUME NEW n \in Runs, Timeout(n) PROVE FilesAreMine' /\ \A o \in Runs : HasMine(run[o])'
  <2>1. UNCHANGED <<disk, live, fellback>> /\ staging' = {NoFile}
    BY <1>8 DEF Timeout
  <2>2. /\ Moves(n, run'[n]) /\ run'[n].script = run[n].script /\ run'[n].got = run[n].got
        /\ run'[n].read = run[n].read /\ run'[n].filter = run[n].filter
    BY <1>8, TimeoutIs
  <2>3. HasMine(run'[n])
    BY <1>1, <2>1, <2>2 DEF HasMine
  <2>4. FilesAreMine'
    BY <1>1, <1>3, <2>1 DEF FilesAreMine, ByTheAuthor, Found
  <2> QED
    BY <1>1, <1>5, <2>1, <2>2, <2>3, <2>4
<1>9. ASSUME NEW n \in Runs, Collect(n) PROVE FilesAreMine' /\ \A o \in Runs : HasMine(run[o])'
  <2>1. UNCHANGED <<disk, fellback>> /\ staging' = {NoFile}
    BY <1>9 DEF Collect
  <2>2. Moves(n, Over)
    BY <1>9, CollectIs
  <2>3. live'.rules = live.rules \/ (live'.rules = staging /\ staging \subseteq Found)
    BY <1>9 DEF Collect, TypeOK
  <2>4. \A d \in live'.rules : ByTheAuthor(d)
    BY <1>1, <2>1, <2>3 DEF FilesAreMine
  <2>5. FilesAreMine'
    BY <1>1, <1>3, <2>1, <2>4 DEF FilesAreMine, ByTheAuthor, Found
  <2> QED
    BY <1>1, <1>2, <1>5, <2>1, <2>2, <2>5
<1>10. CASE Restart
  <2>1. UNCHANGED <<disk, staging, live, fellback>>
    BY <1>10 DEF Restart
  <2>2. \A o \in Runs : run'[o] = Over \/ run'[o] = Idle
    BY <1>10, RestartIs
  <2>3. FilesAreMine'
    BY <1>1, <2>1 DEF FilesAreMine, ByTheAuthor, Found
  <2> QED
    BY <1>2, <2>2, <2>3 DEF HasMine, ByTheAuthor, Has, Found
<1>11. ASSUME NEW r \in Rules, NEW s \in States, Edit(r, s)
       PROVE  FilesAreMine' /\ \A o \in Runs : HasMine(run[o])'
  BY <1>1, <1>11 DEF Edit, FilesAreMine, HasMine, ByTheAuthor, Has, Found
<1> QED
  BY <1>4, <1>6, <1>7, <1>8, <1>9, <1>10, <1>11 DEF Next

----------------------------------------------------------------------------
(* No rule is lost between its source and the portal.                        *)

Wanted(d, due) ==
  d \in due /\ Exportable(d[1], d[2]) /\ Alone(d[1]) /\ Unshifted(d[1], due)

OnDisk(d) == disk[FileOf(d[1])] = d

\* Of the list of its customer falcon has given the rule, once it has come to it.
Covered(p, d) ==
  LET list == InOrder(Offered(p, p.filter)) IN
  \A i \in 1..Len(list) : i =< p.offset /\ list[i] = d[1] => Has(p.got, d)

ExportedOf(p, d) ==
  LET customer == Listing[d[1]].customer IN
  /\ ~Has(p.todo, customer) => OnDisk(d)
  /\ customer = Head(p.todo) /\ p.pc # "fetch" => Has(p.got, d) \/ OnDisk(d)
  /\ customer = Head(p.todo) /\ p.pc = "fetch" /\ p.script = "falcon_edr" => Covered(p, d)

OnTheWay(p, d) ==
  LET rule == Listing[d[1]] IN
  /\ p.script \in Sources /\ rule.src = p.script => ExportedOf(p, d)
  /\ p.script = "falcon_edr" /\ rule.src = "splunk" => OnDisk(d)
  /\ p.script = "mapper" => OnDisk(d) /\ (Has(p.todo, <<rule.customer, rule.src>>) \/ d \in p.read)
  /\ p.script = "none" /\ staging \notin {{NoFile}, {Torn}} => d \in staging

Well(p) == p.ok /\ (p.script # "none" => p.exit)

NothingIsLost ==
  \A n \in Runs :
    run[n].main = "alive" /\ n \notin crossed /\ Well(run[n]) =>
      \A d \in steady[n] : Wanted(d, steady[n]) => OnTheWay(run[n], d)

LiveOK == \A d \in live.due : Wanted(d, live.due) => d \in live.rules

\* What there is to be said of a rule that the n-th run is to export.
DueIn(n, d) ==
  LET rule == Listing[d[1]] IN
  /\ d \in Found /\ d[1] \in Rules /\ d = <<d[1], state[d[1]]>> /\ FileOf(d[1]) \in Files
  /\ rule.src \in Sources /\ Has(CustomersOf[rule.src], rule.customer)
  /\ Has(Dirs, <<rule.customer, rule.src>>)
  /\ state[d[1]] # "absent" /\ (rule.src = "splunk" => state[d[1]] = "on")
  /\ rule.src = "falcon_edr" /\ Filtered => rule.mine
  /\ \A e \in Found : FileOf(e[1]) = FileOf(d[1]) => e[1] = d[1]
  /\ \A e \in Found : Has(run[n].got, e) /\ FileOf(e[1]) = FileOf(d[1]) => e = d

LEMMA DueIs ==
  ASSUME ConstantsOK, TypeOK, SteadyOK, NEW n \in Runs, NEW d \in steady[n], Wanted(d, steady[n])
  PROVE  DueIn(n, d)
<1> DEFINE r == d[1]
           rule == Listing[r]
<1>1. d \in Facts /\ d \in Found
  BY DEF SteadyOK, TypeOK
<1>2. r \in Rules /\ d = <<r, state[r]>> /\ FileOf(r) \in Files
  BY <1>1, FactIs, FilesOf
<1>3. d[2] = state[r]
  <2> HIDE DEF r
  <2> QED
    BY <1>2
<1>4. Exportable(r, state[r]) /\ Alone(r)
  BY <1>3 DEF Wanted
<1>5. rule \in Rule /\ CustomersOf[rule.src] \in Seq(STRING) /\ rule.src \in Sources
  BY <1>2, OfConstants DEF Rule
<1> HIDE DEF r, rule
<1>6. rule.customer \in Range(CustomersOf[rule.src])
  BY <1>4 DEF Exportable, rule
<1>7. Has(CustomersOf[rule.src], rule.customer)
  BY <1>5, <1>6, HasRange
<1>8. Has(Dirs, <<rule.customer, rule.src>>)
  <2>1. <<rule.customer, rule.src>> \in Range(Dirs)
    BY <1>5, <1>6 DEF ConstantsOK
  <2> QED
    BY <2>1, HasRange, OfConstants
<1>9. /\ state[r] # "absent" /\ (rule.src = "splunk" => state[r] = "on")
      /\ rule.src = "falcon_edr" /\ Filtered => rule.mine
  BY <1>4 DEF Exportable, rule
<1>10. \A e \in Found : FileOf(e[1]) = FileOf(r) => e[1] = r
  BY <1>4 DEF Alone, Found
<1>11. \A e \in Found : Has(run[n].got, e) /\ e[1] = r => e = d
  BY DEF SteadyOK, r
<1> QED
  BY <1>1, <1>2, <1>5, <1>7, <1>8, <1>9, <1>10, <1>11 DEF DueIn, r, rule

LEMMA FileIs ==
  \A r, x : FileOf(r) = FileOf(x) =>
    Listing[r].customer = Listing[x].customer /\ Listing[r].src = Listing[x].src
BY DEF FileOf

\* A customer that is over has all its rules on the disk.
LEMMA OnTheWayNext1 ==
  ASSUME ConstantsOK, NEW n \in Runs, NEW d, DueIn(n, d), NEW p, ProcessOK(p), p.script \in Sources,
         OnTheWay(p, d), p.pc # "fetch", p.got = <<>>,
         NEW q, AfterCustomer(p, q, TRUE), q.main = "alive", UNCHANGED disk
  PROVE  OnTheWay(q, d)'
<1> DEFINE rule == Listing[d[1]]
           c == rule.customer
<1>1. p.todo \in Seq(STRING) /\ p.todo # <<>>
  BY DEF ProcessOK, ProcessType, PlacesOf, Sources
<1>2. rule.src = p.script /\ ~Has(Tail(p.todo), c) => OnDisk(d)
  <2>1. Has(p.todo, c) => c = Head(p.todo) \/ Has(Tail(p.todo), c)
    BY <1>1, HasTail
  <2>2. ~Has(p.got, d)
    BY NoneInEmpty
  <2> QED
    BY <2>1, <2>2 DEF OnTheWay, ExportedOf
<1>3. p.script = "falcon_edr" /\ rule.src = "splunk" => OnDisk(d)
  BY DEF OnTheWay
<1>4. OnDisk(d)' <=> OnDisk(d)
  BY DEF OnDisk
<1>5. q.offset = 0
  BY DEF AfterCustomer
<1>6. Covered(q, d)'
  BY <1>5 DEF Covered
<1>7. CASE q.script = p.script /\ q.todo = Tail(p.todo) /\ q.pc = "fetch"
  <2>1. q.script # "mapper" /\ q.script # "none"
    BY <1>7 DEF Sources
  <2>2. ExportedOf(q, d)' \/ rule.src # q.script
    BY <1>2, <1>4, <1>6, <1>7 DEF ExportedOf
  <2> QED
    BY <1>3, <1>4, <1>7, <2>1, <2>2 DEF OnTheWay
<1>8. CASE /\ Tail(p.todo) = <<>> /\ q.script = After[p.script]
           /\ q.todo = (IF p.script = "falcon_edr" THEN Dirs ELSE CustomersOf["falcon_edr"])
           /\ q.pc = (IF p.script = "falcon_edr" THEN "read" ELSE "fetch")
  <2>1. rule.src = p.script => OnDisk(d)
    BY <1>2, <1>8, NoneInEmpty
  <2>2. CASE p.script = "splunk"
    <3>1. q.script = "falcon_edr" /\ q.todo = CustomersOf["falcon_edr"] /\ q.pc = "fetch"
      BY <1>8, <2>2 DEF After
    <3>2. rule.src = "falcon_edr" => Has(q.todo, c)
      BY <3>1 DEF DueIn
    <3>3. rule.src = "falcon_edr" => ExportedOf(q, d)'
      BY <1>6, <3>1, <3>2 DEF ExportedOf
    <3> QED
      BY <1>4, <2>1, <2>2, <3>1, <3>3 DEF OnTheWay
  <2>3. CASE p.script = "falcon_edr"
    <3>1. q.script = "mapper" /\ q.todo = Dirs
      BY <1>8, <2>3 DEF After
    <3>2. OnDisk(d) /\ Has(q.todo, <<rule.customer, rule.src>>)
      BY <1>3, <2>1, <2>3, <3>1 DEF DueIn, Sources
    <3> QED
      BY <1>4, <3>1, <3>2 DEF OnTheWay, Sources
  <2> QED
    BY <2>2, <2>3 DEF Sources
<1> QED
  BY <1>7, <1>8 DEF AfterCustomer

LEMMA OnTheWayFetchSplunk ==
  ASSUME ConstantsOK, TypeOK, ProcessesOK, NEW n \in Runs, NEW d, DueIn(n, d),
         NEW p, p = run[n], OnTheWay(p, d), NEW q, q = run'[n], FetchSplunk(n)
  PROVE  OnTheWay(q, d)'
<1> DEFINE rule == Listing[d[1]]
<1>1. /\ SameBut(p, q) /\ UNCHANGED disk /\ p.script = "splunk" /\ q.pc = "open"
      /\ \A r \in Offered(p, FALSE) : state[r] = "on" => Has(q.got, <<r, state[r]>>)
  BY FetchSplunkIs
<1>2. OnTheWay(p, d)
  OBVIOUS
<1>3. OnDisk(d)' <=> OnDisk(d)
  BY <1>1 DEF OnDisk
<1>4. rule.src = "splunk" /\ rule.customer = Head(p.todo) => Has(q.got, d)
  <2> SUFFICES ASSUME rule.src = "splunk", rule.customer = Head(p.todo) PROVE Has(q.got, d)
    OBVIOUS
  <2>1. d[1] \in Offered(p, FALSE) /\ state[d[1]] = "on" /\ d = <<d[1], state[d[1]]>>
    BY <1>1 DEF DueIn, Offered
  <2> QED
    BY <1>1, <2>1
<1>5. rule.src = "splunk" => ExportedOf(q, d)'
  BY <1>1, <1>2, <1>3, <1>4 DEF OnTheWay, ExportedOf, SameBut, Sources
<1> QED
  BY <1>1, <1>5 DEF OnTheWay, SameBut

LEMMA OnTheWayFetchFalcon ==
  ASSUME ConstantsOK, TypeOK, ProcessesOK, NEW n \in Runs, NEW d, DueIn(n, d),
         NEW p, p = run[n], OnTheWay(p, d), NEW q, q = run'[n], FetchFalcon(n)
  PROVE  OnTheWay(q, d)'
<1> DEFINE rule == Listing[d[1]]
           list == InOrder(Offered(p, p.filter))
<1>1. /\ SameBut(p, q) /\ Still /\ UNCHANGED disk /\ p.script = "falcon_edr" /\ p.pc = "fetch"
      /\ q.filter = p.filter /\ q.pc \in {"fetch", "open"} /\ ProcessOK(q) /\ ProcessOK(p)
      /\ \A e : Has(p.got, e) => Has(q.got, e)
      /\ \A i \in 1..Len(list) : p.offset < i /\ i =< q.offset => Has(q.got, <<list[i], state[list[i]]>>)
      /\ q.pc = "open" => \A i \in 1..Len(list) : i =< q.offset
  BY FetchFalconIs DEF ProcessesOK
<1>2. OnTheWay(p, d)
  OBVIOUS
<1>3. p.offset \in Nat /\ q.offset \in Nat
  BY <1>1 DEF ProcessOK, ProcessType
<1>4. OnDisk(d)' <=> OnDisk(d)
  BY <1>1 DEF OnDisk
<1>5. Offered(q, q.filter)' = Offered(p, p.filter)
  BY <1>1 DEF Offered, SameBut, Still
<1>6. ASSUME rule.src = "falcon_edr", rule.customer = Head(p.todo),
             NEW i \in 1..Len(list), i =< q.offset, list[i] = d[1]
      PROVE  Has(q.got, d)
  <2>1. CASE i =< p.offset
    <3>1. Covered(p, d)
      BY <1>1, <1>2, <1>6 DEF OnTheWay, ExportedOf, Sources
    <3>2. Has(p.got, d)
      BY <1>6, <2>1, <3>1 DEF Covered
    <3> QED
      BY <1>1, <3>2
  <2>2. CASE p.offset < i
    <3>1. Has(q.got, <<list[i], state[list[i]]>>)
      BY <1>1, <1>6, <2>2
    <3> QED
      BY <1>6, <3>1 DEF DueIn
  <2> QED
    BY <1>3, <2>1, <2>2
<1>7. rule.src = "falcon_edr" /\ rule.customer = Head(p.todo) => Covered(q, d)'
  BY <1>5, <1>6 DEF Covered
<1>8. rule.src = "falcon_edr" /\ rule.customer = Head(p.todo) /\ q.pc = "open" => Has(q.got, d)
  <2> SUFFICES ASSUME rule.src = "falcon_edr", rule.customer = Head(p.todo), q.pc = "open" PROVE Has(q.got, d)
    OBVIOUS
  <2>1. d[1] \in Offered(p, p.filter)
    <3>1. p.filter => Filtered
      BY <1>1 DEF ProcessOK, Sources
    <3> QED
      BY <1>1, <3>1 DEF DueIn, Offered
  <2>2. PICK i \in 1..Len(list) : list[i] = d[1]
    <3>1. PICK S : S = Offered(p, p.filter)
      OBVIOUS
    <3>2. S \in SUBSET Rules /\ d[1] \in S
      BY <2>1, <3>1, OfferedIs
    <3>3. \E i \in 1..Len(InOrder(S)) : InOrder(S)[i] = d[1]
      BY <3>2, InOrderIs
    <3> QED
      BY <3>1, <3>3
  <2>3. i =< q.offset
    BY <1>1, <2>2
  <2> QED
    BY <1>6, <2>2, <2>3
<1>9. rule.src = "falcon_edr" => ExportedOf(q, d)'
  BY <1>1, <1>2, <1>4, <1>7, <1>8 DEF OnTheWay, ExportedOf, SameBut, Sources
<1>10. rule.src = "splunk" => OnDisk(d)
  BY <1>1, <1>2 DEF OnTheWay
<1> QED
  BY <1>1, <1>4, <1>9, <1>10 DEF OnTheWay, SameBut

\* A rule file that is touched is of a rule at hand, and no rule but that one has its file.
LEMMA OthersStay ==
  ASSUME TypeOK, NEW n \in Runs, NEW d, DueIn(n, d), NEW p, p = run[n], ProcessOK(p),
         p.script \in Sources, p.got # <<>>, NEW e, disk' = [disk EXCEPT ![FileOf(Head(p.got)[1])] = e]
  PROVE  \/ /\ d = Head(p.got) /\ Listing[d[1]].customer = Head(p.todo) /\ Listing[d[1]].src = p.script
            /\ (OnDisk(d)' <=> e = d)
         \/ OnDisk(d)' <=> OnDisk(d)
<1> DEFINE f == FileOf(Head(p.got)[1])
<1>1. /\ Head(p.got) \in Found /\ f \in Files /\ Has(p.got, Head(p.got))
      /\ Listing[Head(p.got)[1]].customer = Head(p.todo) /\ Listing[Head(p.got)[1]].src = p.script
  BY HeadOfGot
<1>2. disk'[f] = e /\ \A x \in Files \ {f} : disk'[x] = disk[x]
  BY <1>1 DEF TypeOK
<1>3. FileOf(d[1]) \in Files
  BY DEF DueIn
<1>4. CASE FileOf(d[1]) = f
  <2>1. Head(p.got) = d
    BY <1>1, <1>4 DEF DueIn
  <2> QED
    BY <1>1, <1>2, <2>1 DEF OnDisk
<1>5. CASE FileOf(d[1]) # f
  BY <1>2, <1>3, <1>5 DEF OnDisk
<1> QED
  BY <1>4, <1>5

\* Of an exporter whose customer has been asked for all that it has.
LEMMA OnTheWayAtHand ==
  ASSUME NEW d, NEW p, NEW q, OnTheWay(p, d), SameBut(p, q),
         p.script \in Sources, p.todo \in Seq(STRING), p.todo # <<>>, p.pc # "fetch", q.pc # "fetch",
         \/ /\ Listing[d[1]].customer = Head(p.todo) /\ Listing[d[1]].src = p.script
            /\ Has(q.got, d) \/ OnDisk(d)'
         \/ /\ OnDisk(d)' <=> OnDisk(d)
            /\ Has(p.got, d) => Has(q.got, d)
  PROVE  OnTheWay(q, d)'
<1> DEFINE rule == Listing[d[1]]
<1>1. q.script = p.script /\ q.todo = p.todo
  BY DEF SameBut
<1>2. Has(p.todo, Head(p.todo))
  BY HasTail
<1>3. p.script # "mapper" /\ p.script # "none"
  BY DEF Sources
<1>4. rule.src = p.script => ExportedOf(q, d)'
  BY <1>1, <1>2 DEF OnTheWay, ExportedOf
<1>5. p.script = "falcon_edr" /\ rule.src = "splunk" => OnDisk(d)'
  BY DEF OnTheWay
<1> QED
  BY <1>1, <1>3, <1>4, <1>5 DEF OnTheWay

LEMMA OnTheWayOpenFile ==
  ASSUME ConstantsOK, TypeOK, ProcessesOK, NEW n \in Runs, NEW d, DueIn(n, d),
         NEW p, p = run[n], OnTheWay(p, d), NEW q, q = run'[n], q.main = "alive", OpenFile(n)
  PROVE  OnTheWay(q, d)'
<1>1. ProcessOK(p) /\ p.script \in Sources /\ p.pc = "open"
  BY OpenFileIs DEF ProcessesOK
<1>2. p.todo \in Seq(STRING) /\ p.todo # <<>>
  BY <1>1 DEF ProcessOK, ProcessType, PlacesOf, Sources
<1>3. CASE p.got = <<>> /\ q = Next1(p, TRUE) /\ UNCHANGED disk
  <2>1. AfterCustomer(p, q, TRUE)
    BY <1>1, <1>3, Next1Is
  <2> QED
    BY <1>1, <1>3, <2>1, OnTheWayNext1
<1>4. CASE /\ p.got # <<>> /\ SameBut(p, q) /\ q.got = p.got /\ q.pc = "write"
           /\ disk' = [disk EXCEPT ![FileOf(Head(p.got)[1])] = Torn]
  <2>1. Has(p.got, Head(p.got))
    BY <1>1, <1>4, HeadOfGot
  <2> QED
    BY <1>1, <1>2, <1>4, <2>1, OthersStay, OnTheWayAtHand
<1> QED
  BY <1>3, <1>4, OpenFileIs

LEMMA OnTheWayWriteFile ==
  ASSUME ConstantsOK, TypeOK, ProcessesOK, NEW n \in Runs, NEW d, DueIn(n, d),
         NEW p, p = run[n], OnTheWay(p, d), NEW q, q = run'[n], WriteFile(n)
  PROVE  OnTheWay(q, d)'
<1>1. /\ ProcessOK(p) /\ p.script \in Sources /\ p.pc = "write" /\ p.got # <<>> /\ SameBut(p, q)
      /\ q.got = Tail(p.got) /\ q.pc = "open"
      /\ disk' = [disk EXCEPT ![FileOf(Head(p.got)[1])] = Head(p.got)]
  BY WriteFileIs DEF ProcessesOK
<1>2. p.todo \in Seq(STRING) /\ p.todo # <<>>
  BY <1>1 DEF ProcessOK, ProcessType, PlacesOf, Sources
<1>3. Has(p.got, d) => d = Head(p.got) \/ Has(q.got, d)
  BY <1>1, HeadOfGot
<1>4. d = Head(p.got) => OnDisk(d)'
  <2>1. FileOf(Head(p.got)[1]) \in Files
    BY <1>1, HeadOfGot
  <2> QED
    BY <1>1, <2>1 DEF OnDisk, TypeOK
<1>5. d = Head(p.got) => Listing[d[1]].customer = Head(p.todo) /\ Listing[d[1]].src = p.script
  BY <1>1, HeadOfGot
<1> QED
  BY <1>1, <1>2, <1>3, <1>4, <1>5, OthersStay, OnTheWayAtHand

\* A failure is the end of a run that would be served, but for the request that is made
\* again.
LEMMA OnTheWayFailure ==
  ASSUME ConstantsOK, TypeOK, ProcessesOK, NEW n \in Runs, NEW d, DueIn(n, d),
         NEW p, p = run[n], OnTheWay(p, d), NEW q, q = run'[n], q.main = "alive", Well(q),
         FetchFails(n) \/ WriteFails(n)
  PROVE  OnTheWay(q, d)'
<1>1. /\ ProcessOK(p) /\ p.script \in Sources /\ UNCHANGED disk
      /\ \/ q = Next1(p, FALSE)
         \/ /\ p.filter /\ SameBut(p, q) /\ q.offset = 0 /\ q.pc = "fetch" /\ p.pc = "fetch"
  BY FailureIs DEF ProcessesOK
<1>2. ~(q = Next1(p, FALSE))
  <2> SUFFICES ASSUME AfterCustomer(p, q, FALSE) PROVE FALSE
    BY <1>1, Next1Is
  <2>1. ~(q.ok /\ q.exit)
    BY DEF AfterCustomer
  <2>2. q.script # "none"
    BY <1>1 DEF AfterCustomer, After, Sources
  <2> QED
    BY <2>1, <2>2 DEF Well
<1>3. q.offset = 0 /\ SameBut(p, q) /\ q.pc = "fetch" /\ p.pc = "fetch"
  BY <1>1, <1>2
<1>4. OnDisk(d)' <=> OnDisk(d)
  BY <1>1 DEF OnDisk
<1>5. Covered(q, d)'
  BY <1>3 DEF Covered
<1>6. Listing[d[1]].src = q.script => ExportedOf(q, d)'
  BY <1>1, <1>3, <1>4, <1>5 DEF OnTheWay, ExportedOf, SameBut
<1> QED
  BY <1>1, <1>3, <1>4, <1>6 DEF OnTheWay, SameBut, Sources

LEMMA OnTheWayReadDir ==
  ASSUME ConstantsOK, TypeOK, ProcessesOK, NEW n \in Runs, NEW d, DueIn(n, d),
         NEW p, p = run[n], OnTheWay(p, d), NEW q, q = run'[n], ReadDir(n)
  PROVE  OnTheWay(q, d)'
<1> DEFINE rule == Listing[d[1]]
           place == <<rule.customer, rule.src>>
           dir == Head(p.todo)
           here == {f \in Files : f[1] = dir[1] /\ f[2] = dir[2] /\ disk[f] \notin {NoFile, Torn}}
<1>1. /\ ProcessOK(p) /\ UNCHANGED disk /\ p.script = "mapper" /\ p.todo # <<>>
      /\ dir \in STRING \X Sources /\ q.script = "mapper"
      /\ q.todo = Tail(p.todo) /\ q.read = p.read \cup {disk[f] : f \in here}
  BY ReadDirIs DEF ProcessesOK
<1>2. p.todo \in Seq(STRING \X Sources)
  BY <1>1 DEF ProcessOK, ProcessType, PlacesOf
<1>3. OnDisk(d) /\ (Has(p.todo, place) \/ d \in p.read)
  BY <1>1 DEF OnTheWay
<1>4. OnDisk(d)'
  BY <1>1, <1>3 DEF OnDisk
<1>5. place = dir => d \in q.read
  <2> SUFFICES ASSUME place = dir PROVE d \in {disk[f] : f \in here}
    BY <1>1
  <2> DEFINE f == FileOf(d[1])
  <2>1. f \in Files /\ f[1] = rule.customer /\ f[2] = rule.src
    BY DEF DueIn, FileOf
  <2>2. disk[f] = d /\ d # NoFile /\ d # Torn
    BY <1>3, OfConstants DEF OnDisk, DueIn, Found, NoFile, Torn
  <2>3. f[1] = dir[1] /\ f[2] = dir[2]
    BY <2>1
  <2> HIDE DEF f
  <2>4. f \in here
    BY <2>1, <2>2, <2>3
  <2> QED
    BY <2>2, <2>4
<1>6. Has(p.todo, place) => place = dir \/ Has(q.todo, place)
  BY <1>1, <1>2, HasTail
<1>7. Has(q.todo, place) \/ d \in q.read
  BY <1>1, <1>3, <1>5, <1>6
<1> QED
  BY <1>1, <1>4, <1>7 DEF OnTheWay, Sources

LEMMA OnTheWayCombine ==
  ASSUME ConstantsOK, TypeOK, ProcessesOK, NEW n \in Runs, NEW d, DueIn(n, d),
         NEW p, p = run[n], OnTheWay(p, d), NEW q, q = run'[n], q.main = "alive", Well(q), Combine(n)
  PROVE  OnTheWay(q, d)'
<1>1. /\ p.script = "mapper" /\ p.todo = <<>> /\ q.script = "none"
      /\ staging' = p.read \/ ~q.ok
  BY CombineIs
<1>2. staging' = p.read
  BY <1>1 DEF Well
<1>3. d \in p.read
  BY <1>1, NoneInEmpty DEF OnTheWay
<1> QED
  BY <1>1, <1>2, <1>3 DEF OnTheWay, Sources

LEMMA OnTheWayScript ==
  ASSUME ConstantsOK, TypeOK, ProcessesOK, NEW n \in Runs, NEW d, DueIn(n, d),
         NEW p, p = run[n], Well(p) => OnTheWay(p, d),
         NEW q, q = run'[n], q.main = "alive", Well(q), Script(n)
  PROVE  OnTheWay(q, d)'
<1>1. ASSUME SameBut(p, q) PROVE Well(p)
  BY <1>1 DEF SameBut, Well
<1>2. ASSUME NEW fine \in BOOLEAN, ProcessOK(p), p.script \in Sources, q = Next1(p, fine) PROVE Well(p)
  <2>1. AfterCustomer(p, q, fine)
    BY <1>2, Next1Is
  <2>2. q.script # "none"
    BY <1>2, <2>1 DEF AfterCustomer, After, Sources
  <2>3. q.ok /\ q.exit => p.ok /\ p.exit
    BY <2>1 DEF AfterCustomer
  <2> QED
    BY <2>2, <2>3 DEF Well
<1>3. CASE FetchSplunk(n)
  <2>1. SameBut(p, q)
    BY <1>3, FetchSplunkIs
  <2> QED
    BY <1>1, <1>3, <2>1, OnTheWayFetchSplunk
<1>4. CASE FetchFalcon(n)
  <2>1. SameBut(p, q)
    BY <1>4, FetchFalconIs
  <2> QED
    BY <1>1, <1>4, <2>1, OnTheWayFetchFalcon
<1>5. CASE FetchFails(n) \/ WriteFails(n)
  <2>1. ProcessOK(p) /\ p.script \in Sources /\ (q = Next1(p, FALSE) \/ SameBut(p, q))
    BY <1>5, FailureIs DEF ProcessesOK
  <2>2. Well(p)
    BY <1>1, <1>2, <2>1
  <2> QED
    BY <1>5, <2>2, OnTheWayFailure
<1>6. CASE OpenFile(n)
  <2>1. ProcessOK(p) /\ p.script \in Sources /\ (q = Next1(p, TRUE) \/ SameBut(p, q))
    BY <1>6, OpenFileIs DEF ProcessesOK
  <2>2. Well(p)
    BY <1>1, <1>2, <2>1
  <2> QED
    BY <1>6, <2>2, OnTheWayOpenFile
<1>7. CASE WriteFile(n)
  <2>1. SameBut(p, q)
    BY <1>7, WriteFileIs
  <2> QED
    BY <1>1, <1>7, <2>1, OnTheWayWriteFile
<1>8. CASE ReadDir(n)
  <2>1. q.ok = p.ok /\ q.exit = p.exit /\ q.script = "mapper"
    BY <1>8, ReadDirIs
  <2>2. Well(p)
    BY <2>1 DEF Well
  <2> QED
    BY <1>8, <2>2, OnTheWayReadDir
<1>9. CASE Combine(n)
  <2>1. q.ok => p.ok /\ p.exit
    BY <1>9, CombineIs
  <2>2. Well(p)
    BY <2>1 DEF Well
  <2> QED
    BY <1>9, <2>2, OnTheWayCombine
<1> QED
  BY <1>3, <1>4, <1>5, <1>6, <1>7, <1>8, <1>9 DEF Script

\* An edit beside the pages that falcon has given would have left the rule out of due.
LEMMA OnTheWayEdit ==
  ASSUME ConstantsOK, TypeOK, SteadyOK, NEW n \in Runs, NEW d \in Found, NEW p, OnTheWay(p, d),
         NEW r \in Rules, NEW s \in States, Edit(r, s), Wanted(d, steady'[n])
  PROVE  OnTheWay(p, d)'
<1> DEFINE rule == Listing[d[1]]
<1>1. /\ UNCHANGED <<disk, staging>> /\ steady'[n] = steady[n] \ {<<r, state[r]>>}
      /\ \A x \in Rules \ {r} : state'[x] = state[x]
  BY DEF Edit, TypeOK
<1>2. ASSUME p.script = "falcon_edr", rule.src = "falcon_edr", rule.customer = Head(p.todo)
      PROVE  Offered(p, p.filter)' = Offered(p, p.filter)
  <2>1. ~(Listing[r].customer = Head(p.todo) /\ Listing[r].src = p.script)
    <3> SUFFICES ASSUME r \in Beside(d[1]) PROVE FALSE
      BY <1>2 DEF Beside
    <3>1. PICK x \in States : <<r, x>> \in steady'[n]
      BY <1>2 DEF Wanted, Unshifted
    <3>2. <<r, x>> \in Facts /\ <<r, x>> # <<r, state[r]>>
      BY <1>1, <3>1 DEF SteadyOK
    <3> QED
      BY <3>2 DEF Facts
  <2>2. \A x \in Rules :
          Listing[x].customer = Head(p.todo) /\ Listing[x].src = p.script => state'[x] = state[x]
    BY <1>1, <2>1
  <2> QED
    BY <2>2 DEF Offered
<1>3. OnDisk(d)' <=> OnDisk(d)
  BY <1>1 DEF OnDisk
<1>4. p.script = "falcon_edr" /\ rule.src = p.script /\ rule.customer = Head(p.todo) =>
        (Covered(p, d)' <=> Covered(p, d))
  BY <1>2 DEF Covered
<1>5. p.script \in Sources /\ rule.src = p.script => ExportedOf(p, d)'
  BY <1>3, <1>4 DEF OnTheWay, ExportedOf
<1> QED
  BY <1>1, <1>3, <1>5 DEF OnTheWay

\* A rule that is wanted is of a customer that is configured.
LEMMA WantedIs ==
  ASSUME ConstantsOK, NEW d \in Found, NEW due, Wanted(d, due)
  PROVE  Listing[d[1]].src \in Sources /\ Has(CustomersOf[Listing[d[1]].src], Listing[d[1]].customer)
<1> DEFINE rule == Listing[d[1]]
<1>1. d[1] \in Rules
  BY DEF Found
<1>2. rule \in Rule /\ CustomersOf[rule.src] \in Seq(STRING) /\ rule.src \in Sources
  BY <1>1, OfConstants DEF Rule
<1>3. rule.customer \in Range(CustomersOf[rule.src])
  BY DEF Wanted, Exportable
<1> HIDE DEF rule
<1> QED
  BY <1>2, <1>3, HasRange DEF rule

LEMMA OnTheWayOf ==
  ASSUME NEW n, NEW d, NEW q, q = run'[n], OnTheWay(q, d)'
  PROVE  OnTheWay(run[n], d)'
BY DEF OnTheWay, ExportedOf, Covered, OnDisk, Offered

LEMMA NothingIsLostNext ==
  ASSUME ConstantsOK, TypeOK, ProcessesOK, OneAtATime, SteadyOK, NothingIsLost, [Next]_vars
  PROVE  NothingIsLost'
<1> SUFFICES ASSUME NEW n \in Runs, NEW q, q = run'[n], q.main = "alive", n \notin crossed', Well(q),
                    NEW d \in steady'[n], Wanted(d, steady'[n])
             PROVE  OnTheWay(q, d)'
  <2>1. ASSUME NEW n \in Runs, NEW d, NEW q, q = run'[n],
               q.main = "alive", n \notin crossed', Well(q), d \in steady'[n], Wanted(d, steady'[n])
        PROVE  OnTheWay(run[n], d)'
    BY <2>1, OnTheWayOf
  <2>2. ASSUME NEW n \in Runs, (run[n].main = "alive" /\ n \notin crossed /\ Well(run[n]))',
               NEW d, d \in steady'[n], Wanted(d, steady'[n])
        PROVE  OnTheWay(run[n], d)'
    <3>1. PICK q : q = run'[n]
      OBVIOUS
    <3>2. q.main = "alive" /\ n \notin crossed' /\ Well(q)
      BY <2>2, <3>1 DEF Well
    <3> QED
      BY <2>1, <2>2, <3>1, <3>2
  <2> QED
    BY <2>2 DEF NothingIsLost, Wanted
<1>1. PICK p : p = run[n]
  OBVIOUS
<1>2. ASSUME p.main = "alive", n \notin crossed, Well(p), d \in steady[n], Wanted(d, steady[n])
      PROVE  OnTheWay(p, d)
  BY <1>1, <1>2 DEF NothingIsLost
<1>3. CASE UNCHANGED vars
  <2>1. OnTheWay(q, d)
    BY <1>1, <1>2, <1>3 DEF vars, counters, history
  <2> QED
    BY <1>3, <2>1 DEF vars, counters, history, OnTheWay, ExportedOf, Covered, OnDisk, Offered
<1>4. ASSUME NEW m \in Runs, Script(m) PROVE OnTheWay(q, d)'
  <2>1. /\ Moves(m, run'[m]) /\ UNCHANGED <<steady, crossed>> /\ run[m].script # "none"
        /\ run'[m].main = (IF run[m].main = "alive" THEN "alive" ELSE "over")
    BY <1>4, ScriptIs
  <2>2. p.main = "alive"
    BY <1>1, <2>1 DEF Moves
  <2>3. m = n
    BY <1>1, <2>1, <2>2 DEF OneAtATime
  <2>4. Well(p) => OnTheWay(p, d)
    BY <1>2, <2>1, <2>2
  <2>5. DueIn(n, d)
    BY <2>1, DueIs
  <2> QED
    BY <1>1, <1>4, <2>3, <2>4, <2>5, OnTheWayScript
<1>5. ASSUME NEW m \in Runs, Start(m) PROVE OnTheWay(q, d)'
  <2>1. /\ Moves(m, run'[m]) /\ run'[m].script = "splunk" /\ run'[m].pc = "fetch"
        /\ run'[m].todo = CustomersOf["splunk"] /\ \A o \in Runs : run[o].main # "alive"
        /\ steady'[m] = Facts
    BY <1>5, StartIs DEF Start, TypeOK
  <2>2. m = n
    BY <2>1 DEF Moves
  <2>3. d \in Found
    BY <2>1, <2>2 DEF Facts, Found, TypeOK
  <2>4. Listing[d[1]].src = "splunk" => Has(q.todo, Listing[d[1]].customer)
    BY <2>1, <2>2, <2>3, WantedIs
  <2>5. q.script = "splunk" /\ q.pc = "fetch"
    BY <2>1, <2>2
  <2>6. Listing[d[1]].src = "splunk" => ExportedOf(q, d)'
    BY <2>4, <2>5 DEF ExportedOf
  <2> QED
    BY <2>5, <2>6 DEF OnTheWay
<1>6. ASSUME NEW m \in Runs, Timeout(m) \/ Collect(m) PROVE FALSE
  <2>1. Moves(m, run'[m]) /\ run[m].main = "alive" /\ run'[m].main = "over"
    BY <1>6, TimeoutIs, CollectIs, IdleOK DEF Timeout, Collect
  <2>2. n # m /\ run[n].main = "alive"
    BY <2>1 DEF Moves
  <2> QED
    BY <2>1, <2>2 DEF OneAtATime
<1>7. CASE Restart
  BY <1>7, RestartIs, IdleOK
<1>8. ASSUME NEW r \in Rules, NEW s \in States, Edit(r, s) PROVE OnTheWay(q, d)'
  <2>1. /\ UNCHANGED <<run, crossed>> /\ steady'[n] = steady[n] \ {<<r, state[r]>>}
    BY <1>8 DEF Edit, TypeOK
  <2>2. d \in steady[n] /\ d \in Found
    BY <2>1 DEF TypeOK
  <2>3. Wanted(d, steady[n])
    BY <2>1, <2>2 DEF Wanted, Unshifted
  <2>4. OnTheWay(q, d)
    BY <1>1, <1>2, <2>1, <2>2, <2>3
  <2> QED
    BY <1>8, <2>2, <2>4, OnTheWayEdit
<1> QED
  BY <1>3, <1>4, <1>5, <1>6, <1>7, <1>8 DEF Next

LEMMA LiveNext ==
  ASSUME ConstantsOK, TypeOK, NothingIsLost, LiveOK, [Next]_vars
  PROVE  LiveOK'
<1>1. CASE UNCHANGED live
  BY <1>1 DEF LiveOK, Wanted
<1>2. ASSUME NEW n \in Runs, Collect(n) PROVE LiveOK'
  <2> DEFINE good == run[n].ok /\ staging \notin {{NoFile}, {Torn}}
  <2>1. /\ run[n].main = "alive" /\ run[n].script = "none"
        /\ live' = IF good THEN [rules |-> staging, due |-> IF n \in crossed THEN {} ELSE steady[n]] ELSE live
    BY <1>2 DEF Collect, Running
  <2>2. CASE good /\ n \notin crossed
    <3>1. live'.due = steady[n] /\ live'.rules = staging
      BY <2>1, <2>2
    <3>2. ASSUME NEW d \in steady[n], Wanted(d, steady[n]) PROVE d \in staging
      BY <2>1, <2>2, <3>2 DEF NothingIsLost, Well, OnTheWay
    <3> QED
      BY <3>1, <3>2 DEF LiveOK, Wanted
  <2>3. CASE good /\ n \in crossed
    BY <2>1, <2>3 DEF LiveOK
  <2>4. CASE ~good
    BY <1>1, <2>1, <2>4
  <2> QED
    BY <2>2, <2>3, <2>4
<1>3. ASSUME NEW n \in Runs, Script(n) PROVE UNCHANGED live
  BY <1>3 DEF Script, FetchSplunk, FetchFalcon, FetchFails, OpenFile, WriteFile, WriteFails, ReadDir,
              Combine, Step
<1> QED
  BY <1>1, <1>2, <1>3 DEF Next, Start, Timeout, Edit, Restart, vars

----------------------------------------------------------------------------
(* What holds of the pipeline. *)

PipelineOK ==
  TypeOK /\ ProcessesOK /\ OneAtATime /\ SteadyOK /\ OnlyMine /\ NothingIsLost /\ LiveOK

LEMMA PipelineInit ==
  ASSUME ConstantsOK, Init
  PROVE  PipelineOK
<1>1. TypeOK /\ ProcessesOK
  BY TypesInit
<1>2. \A n \in Runs : run[n] = Idle /\ steady[n] = {}
  BY DEF Init
<1>3. OneAtATime /\ SteadyOK /\ NothingIsLost
  BY <1>2, IdleOK DEF OneAtATime, SteadyOK, NothingIsLost
<1>4. OnlyMine
  <2>1. \A f \in Files : disk[f] = NoFile
    BY DEF Init
  <2>2. NoFile \notin Found
    BY OfConstants DEF NoFile, Found, States
  <2>3. FilesAreMine
    BY <2>1, <2>2 DEF Init, FilesAreMine
  <2> QED
    BY <1>2, <2>3, IdleOK, NoneInEmpty DEF OnlyMine, HasMine
<1>5. LiveOK
  BY DEF Init, LiveOK
<1> QED
  BY <1>1, <1>3, <1>4, <1>5 DEF PipelineOK

LEMMA PipelineNext ==
  ASSUME ConstantsOK, PipelineOK, [Next]_vars
  PROVE  PipelineOK'
BY TypesNext, OneAtATimeNext, SteadyNext, OnlyMineNext, NothingIsLostNext, LiveNext DEF PipelineOK

LEMMA PipelineAlways == Spec => []PipelineOK
<1>1. Init => PipelineOK
  BY PipelineInit, PipelineAssumption
<1>2. PipelineOK /\ [Next]_vars => PipelineOK'
  BY PipelineNext, PipelineAssumption
<1> QED
  BY <1>1, <1>2, PTL DEF Spec

\* The rules, the files, what is served and what each process has at hand keep their types.
THEOREM PipelineTypes == Spec => []TypeOK
<1>1. PipelineOK => TypeOK
  BY DEF PipelineOK
<1> QED
  BY <1>1, PipelineAlways, PTL

\* After a run of automatic.py that ends with 0 and leaves a good file, what is served has
\* every rule that was there to be exported while it ran, as it was, of every customer of
\* splunk-export.py and falcon-export.py and every page of falcon's; and falcon's rules are
\* those of the configured author unless a request for them was made again without it.
THEOREM ExportIsComplete == Spec => []LiveIsComplete
<1>1. PipelineOK => LiveIsComplete
  <2> SUFFICES ASSUME PipelineOK PROVE LiveIsComplete
    OBVIOUS
  <2>1. \A d \in live.due :
          Exportable(d[1], d[2]) /\ Alone(d[1]) /\ Unshifted(d[1], live.due) => d \in live.rules
    BY DEF PipelineOK, LiveOK, Wanted
  <2>2. Filtered /\ ~fellback =>
          \A d \in live.rules : Listing[d[1]].src = "falcon_edr" => Listing[d[1]].mine
    BY DEF PipelineOK, OnlyMine, FilesAreMine, ByTheAuthor
  <2> QED
    BY <2>1, <2>2 DEF LiveIsComplete
<1> QED
  BY <1>1, PipelineAlways, PTL

LEMMA ExportedIsFlat ==
  ASSUME ConstantsOK, TypeOK, NEW textual \in BOOLEAN
  PROVE  FlatRules(Flatten(Exported(textual)))
<1> DEFINE Told(d) == LET r == Listing[d[1]] IN
             [customer |-> r.customer, src |-> r.src, name |-> r.name, entries |-> r.entries,
              state |-> IF d[2] = "on" /\ r.src = "splunk" /\ textual THEN "zero" ELSE d[2],
              test |-> r.test, operational |-> r.operational]
           Flat(r) == [tenant |-> TenantOf[r.customer], src |-> r.src, name |-> r.name, enabled |-> Enabled(r),
                       entries |-> r.entries, kind |-> Kind(r)]
<1>1. live.rules \in SUBSET Found /\ IsFiniteSet(Found)
  <2>1. IsFiniteSet(States)
    <3>1. States = {"absent"} \cup {"on"} \cup {"off"}
      BY DEF States
    <3> QED
      BY <3>1, FS_Singleton, FS_Union
  <2>2. IsFiniteSet(Rules \X States)
    BY <2>1, OfConstants, FS_Product
  <2> QED
    BY <2>2 DEF TypeOK, Found
<1>2. IsFiniteSet(live.rules)
  BY <1>1, FS_Subset
<1>3. Exported(textual) = {Told(d) : d \in live.rules}
  BY DEF Exported
<1>4. IsFiniteSet(Exported(textual))
  <2> DEFINE F == [d \in live.rules |-> Told(d)]
  <2>1. F \in Surjection(live.rules, Exported(textual))
    BY <1>3 DEF Surjection
  <2> QED
    BY <1>2, <2>1, FS_Surjection
<1>5. Flatten(Exported(textual)) = {Flat(r) : r \in Exported(textual)}
  BY DEF Flatten
<1>6. IsFiniteSet(Flatten(Exported(textual)))
  <2> DEFINE F == [r \in Exported(textual) |-> Flat(r)]
  <2>1. F \in Surjection(Exported(textual), Flatten(Exported(textual)))
    BY <1>5 DEF Surjection
  <2> QED
    BY <1>4, <2>1, FS_Surjection
<1>7. ASSUME NEW r \in Exported(textual)
      PROVE  IsFiniteSet(r.entries) /\ Enabled(r) \in BOOLEAN
             /\ Kind(r) \in {"test", "operational", "detection", "unmapped"}
  <2>1. PICK d \in live.rules : r = Told(d)
    BY <1>3
  <2>2. d[1] \in Rules /\ r.entries = Listing[d[1]].entries
    BY <1>1, <2>1 DEF Found
  <2> QED
    BY <2>2 DEF Enabled, Kind, ConstantsOK
<1> QED
  BY <1>5, <1>6, <1>7 DEF FlatRules

\* Of whatever the pipeline leaves, adapter.py makes figures that agree with the rules behind
\* them, for every scope, and that the rules of no tenant out of the scope take part in.
THEOREM FiguresAgree == Spec => []ScopedFiguresAgree
<1>1. TypeOK => ScopedFiguresAgree
  <2> SUFFICES ASSUME TypeOK, NEW textual \in BOOLEAN, NEW scope
               PROVE  LET rules == Flatten(Exported(textual)) IN
                      CountsAgree(Dataset(rules, scope)) /\ SeesOnly(rules, scope)
    BY DEF ScopedFiguresAgree
  <2> QED
    BY ExportedIsFlat, DatasetAgrees, PipelineAssumption DEF ConstantsOK
<1> QED
  BY <1>1, PipelineTypes, PTL

----------------------------------------------------------------------------
(* The refresher.                                                            *)

\* A run that holds the lock is that of the last export started, so there is one.
OneRun ==
  /\ \A r \in Refresh!Runs : worker[r].pc # "idle" => lock /\ r = exports
  /\ lock => \E r \in Refresh!Runs : worker[r].pc # "idle"

\* What the run of the r-th export knows of the files at each point.
WorkAt(r) == LET t == worker[r] IN
  /\ t.pc \in {"idle", "clean", "export", "check", "discard"} => t.data = Refresh!Missing
  /\ t.pc \in {"retire", "install"} => nextFile = Refresh!Rules(r + 1) /\ t.data = nextFile
  /\ t.pc = "check" => nextFile = Refresh!Missing \/ nextFile.id = r + 1
  /\ t.pc = "save" /\ t.data # Refresh!Missing => combined = t.data
  /\ t.pc \in {"clean", "export", "check", "retire", "install"} => newest.id =< r
  /\ t.pc \in {"export", "check", "retire", "discard"} \/ (t.pc = "save" /\ t.data = Refresh!Missing)
       => t.kept = status.rules
  /\ t.pc = "install" => combined = Refresh!Missing

Work == \A r \in Refresh!Runs : WorkAt(r)

\* What the files hold whoever runs.
FilesTell ==
  /\ {combined, previous, newest} \subseteq Refresh!Loaded
  /\ newest.id =< exports + 1
  /\ Refresh!NewestIsKept
  /\ settled /\ (\A r \in Refresh!Runs : ~Refresh!Unsettling(r)) => status.rules = combined.id

RunsOK == Refresh!TypeOK /\ OneRun /\ Work /\ FilesTell

LEMMA SameCount == ASSUME NEW S PROVE Refresh!Cardinality(S) = Cardinality(S)
  BY DEF Refresh!Cardinality, Cardinality

----------------------------------------------------------------------------
(* Types of the refresher. *)

RunType == [pc : {"idle", "clean", "export", "check", "retire", "install", "discard", "save", "release"},
            exit : BOOLEAN, data : Refresh!Loaded, kept : 0..(MaxExports + 1)]

LEMMA LoadedContents ==
  ASSUME Refresh!ConstantsOK
  PROVE  /\ Refresh!Loaded \subseteq Refresh!Contents /\ Refresh!Missing \in Refresh!Loaded
         /\ \A n \in 1..(MaxExports + 1) : Refresh!Rules(n) \in Refresh!Loaded
         /\ \A c \in Refresh!Contents : c.kind = "rules" => c \in Refresh!Loaded /\ c # Refresh!Missing
         /\ \A c \in Refresh!Contents : c.id \in 0..(MaxExports + 1)
<1>1. MaxExports \in Nat
  BY DEF Refresh!ConstantsOK
<1>2. \A c \in Refresh!Contents : c.kind = "rules" => c = Refresh!Rules(c.id) /\ c.id \in 1..(MaxExports + 1)
  BY <1>1 DEF Refresh!Contents, Refresh!Missing, Refresh!Rules
<1>3. \A c \in Refresh!Contents : c.id \in 0..(MaxExports + 1)
  BY <1>1 DEF Refresh!Contents, Refresh!Missing
<1>4. Refresh!Loaded \subseteq Refresh!Contents
  BY DEF Refresh!Loaded, Refresh!Contents, Refresh!Missing, Refresh!Rules
<1>5. \A c : c.kind = "rules" => c # Refresh!Missing
  BY DEF Refresh!Missing
<1> QED
  BY <1>2, <1>3, <1>4, <1>5 DEF Refresh!Loaded

LEMMA TypeInit ==
  ASSUME Refresh!ConstantsOK
  PROVE  Refresh!Init => Refresh!TypeOK
<1> SUFFICES ASSUME Refresh!Init PROVE Refresh!TypeOK
  OBVIOUS
<1>1. MaxExports \in Nat /\ MaxRestarts \in Nat
  BY DEF Refresh!ConstantsOK
<1>2. combined \in Refresh!Loaded
  BY <1>1, LoadedContents DEF Refresh!Init
<1>3. {combined, previous, nextFile, newest} \subseteq Refresh!Contents
  BY <1>2, LoadedContents DEF Refresh!Init
<1>4. worker \in [Refresh!Runs -> RunType]
  BY <1>1, LoadedContents DEF Refresh!Init, Refresh!Idle, RunType
<1>5. cache \in [rules : Refresh!Contents, synced : 0..(MaxExports + 1)]
  BY <1>1, LoadedContents DEF Refresh!Init, Refresh!Unread
<1>6. reader \in [Readers -> [pc : {"away", "look", "load", "put", "stamp"},
                             synced : 0..(MaxExports + 1), rules : Refresh!Contents]]
  BY <1>1, LoadedContents DEF Refresh!Init, Refresh!Away
<1>7. settled \in BOOLEAN /\ {lock, settled, overlap} \subseteq BOOLEAN
  BY DEF Refresh!Init
<1>8. /\ status \in [ok : {"none", "yes", "no"}, rules : 0..(MaxExports + 1)]
      /\ sched \in {"boot", "daily"} /\ exports \in 0..MaxExports /\ restarts \in 0..MaxRestarts
  BY <1>1 DEF Refresh!Init
<1> QED
  BY <1>3, <1>4, <1>5, <1>6, <1>7, <1>8 DEF Refresh!TypeOK, RunType

\* A run's next step keeps its own record of the right type.
LEMMA RunTypeKept ==
  ASSUME Refresh!ConstantsOK, Refresh!TypeOK, NEW r \in Refresh!Runs, NEW t \in RunType,
         worker' = [worker EXCEPT ![r] = t]
  PROVE  worker' \in [Refresh!Runs -> RunType]
  BY DEF Refresh!TypeOK, RunType

\* Types of what only the serving side changes.
ServingType ==
  /\ cache \in [rules : Refresh!Contents, synced : 0..(MaxExports + 1)]
  /\ reader \in [Readers -> [pc : {"away", "look", "load", "put", "stamp"},
                             synced : 0..(MaxExports + 1), rules : Refresh!Contents]]
  /\ overlap \in BOOLEAN

LEMMA ReaderType ==
  ASSUME Refresh!ConstantsOK, Refresh!TypeOK, NEW d \in Readers, Refresh!ReaderStep(d)
  PROVE  ServingType'
<1>0. /\ reader[d] \in [pc : {"away", "look", "load", "put", "stamp"},
                       synced : 0..(MaxExports + 1), rules : Refresh!Contents]
      /\ combined \in Refresh!Contents /\ combined.id \in 0..(MaxExports + 1)
      /\ Refresh!Missing \in Refresh!Contents
      /\ cache \in [rules : Refresh!Contents, synced : 0..(MaxExports + 1)] /\ overlap \in BOOLEAN
      /\ 0 \in 0..(MaxExports + 1)
  BY LoadedContents DEF Refresh!TypeOK, Refresh!ConstantsOK
<1>1. cache' \in [rules : Refresh!Contents, synced : 0..(MaxExports + 1)]
  BY <1>0 DEF Refresh!ReaderStep, Refresh!Ask, Refresh!Look, Refresh!Load, Refresh!Put, Refresh!Stamp
<1>2. overlap' \in BOOLEAN
  BY <1>0 DEF Refresh!ReaderStep, Refresh!Ask, Refresh!Look, Refresh!Load, Refresh!Put, Refresh!Stamp
<1>3. \E t \in [pc : {"away", "look", "load", "put", "stamp"},
                synced : 0..(MaxExports + 1), rules : Refresh!Contents] : reader' = [reader EXCEPT ![d] = t]
  <2> DEFINE T == [pc : {"away", "look", "load", "put", "stamp"},
                   synced : 0..(MaxExports + 1), rules : Refresh!Contents]
             t == reader[d]
             asked == [Refresh!Away EXCEPT !.pc = "look", !.synced = combined.id]
  <2>1. Refresh!Away \in T /\ asked \in T /\ [t EXCEPT !.pc = "load"] \in T
    BY <1>0 DEF Refresh!Away
  <2>2. [t EXCEPT !.pc = "put", !.rules = combined] \in T /\ [t EXCEPT !.pc = "stamp"] \in T
    BY <1>0
  <2>3. CASE Refresh!Ask(d)
    BY <2>1, <2>3 DEF Refresh!Ask
  <2>4. CASE Refresh!Look(d)
    <3>1. \/ reader' = [reader EXCEPT ![d] = Refresh!Away]
          \/ reader' = [reader EXCEPT ![d] = [t EXCEPT !.pc = "load"]]
      BY <2>4 DEF Refresh!Look
    <3> QED
      BY <2>1, <3>1
  <2>5. CASE Refresh!Load(d)
    <3>1. \/ reader' = [reader EXCEPT ![d] = Refresh!Away]
          \/ reader' = [reader EXCEPT ![d] = [t EXCEPT !.pc = "put", !.rules = combined]]
      BY <2>5 DEF Refresh!Load
    <3> QED
      BY <2>1, <2>2, <3>1
  <2>6. CASE Refresh!Put(d)
    <3>1. reader' = [reader EXCEPT ![d] = [t EXCEPT !.pc = "stamp"]]
      BY <2>6 DEF Refresh!Put
    <3> QED
      BY <2>2, <3>1
  <2>7. CASE Refresh!Stamp(d)
    BY <2>1, <2>7 DEF Refresh!Stamp
  <2> QED
    BY <2>3, <2>4, <2>5, <2>6, <2>7 DEF Refresh!ReaderStep
<1> QED
  BY <1>1, <1>2, <1>3 DEF Refresh!TypeOK, ServingType

----------------------------------------------------------------------------
(* The steps of a run. *)

\* The types of what a run's steps change.
FilesType ==
  /\ {combined, previous, nextFile, newest} \subseteq Refresh!Contents
  /\ status \in [ok : {"none", "yes", "no"}, rules : 0..(MaxExports + 1)]
  /\ settled \in BOOLEAN

LEMMA TypeFromParts ==
  ASSUME Refresh!ConstantsOK, FilesType', ServingType', worker' \in [Refresh!Runs -> RunType],
         lock' \in BOOLEAN,
         sched' \in {"boot", "daily"}, exports' \in 0..MaxExports, restarts' \in 0..MaxRestarts
  PROVE  Refresh!TypeOK'
  BY DEF FilesType, ServingType, RunType, Refresh!TypeOK

LEMMA PartsFromType ==
  ASSUME Refresh!ConstantsOK, Refresh!TypeOK
  PROVE  /\ FilesType /\ ServingType /\ worker \in [Refresh!Runs -> RunType] /\ lock \in BOOLEAN
         /\ sched \in {"boot", "daily"} /\ exports \in 0..MaxExports /\ restarts \in 0..MaxRestarts
  BY DEF FilesType, ServingType, RunType, Refresh!TypeOK

\* A run at work is the only one.
LEMMA OnlyRun ==
  ASSUME Refresh!ConstantsOK, RunsOK, NEW r \in Refresh!Runs, worker[r].pc # "idle"
  PROVE  /\ lock /\ r = exports /\ r \in Nat
         /\ \A s \in Refresh!Runs \ {r} : worker[s].pc = "idle"
  BY DEF RunsOK, OneRun, Refresh!Runs

LEMMA GoFields ==
  ASSUME Refresh!ConstantsOK, Refresh!TypeOK, NEW r \in Refresh!Runs, NEW pc, Refresh!Go(r, pc),
         pc \in {"export", "check", "retire", "install", "discard", "save", "release"}
  PROVE  /\ worker' \in [Refresh!Runs -> RunType] /\ worker'[r].pc = pc /\ worker'[r].data = worker[r].data
         /\ worker'[r].kept = worker[r].kept /\ \A s \in Refresh!Runs \ {r} : worker'[s] = worker[s]
<1>1. worker \in [Refresh!Runs -> RunType]
  BY PartsFromType
<1>2. [worker[r] EXCEPT !.pc = pc] \in RunType
  BY <1>1 DEF RunType
<1>3. worker' = [worker EXCEPT ![r] = [worker[r] EXCEPT !.pc = pc]]
  BY DEF Refresh!Go
<1> HIDE DEF Refresh!Go
<1> QED
  BY <1>1, <1>2, <1>3 DEF RunType

\* It is enough to look at the run that moves, and at the files.
LEMMA RunMoves ==
  ASSUME Refresh!ConstantsOK, RunsOK, NEW r \in Refresh!Runs, worker[r].pc # "idle",
         worker' \in [Refresh!Runs -> RunType],
         \A s \in Refresh!Runs \ {r} : worker'[s] = worker[s],
         UNCHANGED <<sched, Refresh!serving, exports, restarts>>,
         lock' = (worker'[r].pc # "idle"), FilesType', WorkAt(r)', FilesTell'
  PROVE  RunsOK'
<1>1. /\ r = exports /\ \A s \in Refresh!Runs \ {r} : worker'[s].pc = "idle"
  BY OnlyRun
<1>2. OneRun'
  BY <1>1 DEF OneRun
<1>3. ASSUME NEW s \in Refresh!Runs PROVE WorkAt(s)'
  BY <1>1 DEF RunsOK, Work, WorkAt
<1>4. ServingType' /\ lock' \in BOOLEAN
  BY PartsFromType DEF RunsOK, Refresh!serving, ServingType
<1>5. Refresh!TypeOK'
  BY <1>4, PartsFromType, TypeFromParts DEF RunsOK
<1> QED
  BY <1>2, <1>3, <1>5 DEF RunsOK, Work

\* What a step that leaves the live file and the status alone must show of settled.
LEMMA FilesStay ==
  ASSUME Refresh!ConstantsOK, RunsOK, NEW r \in Refresh!Runs, worker[r].pc # "idle",
         UNCHANGED <<combined, previous, newest, status, exports>>,
         settled' => settled /\ ~Refresh!Unsettling(r)
  PROVE  FilesTell'
<1>1. settled' => \A s \in Refresh!Runs : ~Refresh!Unsettling(s)
  BY OnlyRun DEF Refresh!Unsettling
<1> QED
  BY <1>1 DEF RunsOK, FilesTell, Refresh!NewestIsKept

LEMMA CleanStep ==
  ASSUME Refresh!ConstantsOK, RunsOK, NEW r \in Refresh!Runs, Refresh!Clean(r)
  PROVE  RunsOK'
<1> DEFINE t == [worker[r] EXCEPT !.pc = "export", !.kept = status.rules]
<1>1. worker[r].pc = "clean" /\ worker[r].data = Refresh!Missing /\ newest.id =< r
  BY DEF Refresh!Clean, RunsOK, Work, WorkAt
<1>2. worker \in [Refresh!Runs -> RunType] /\ status.rules \in 0..(MaxExports + 1)
  BY PartsFromType DEF RunsOK, FilesType
<1>3. t \in RunType /\ t.pc = "export" /\ t.data = Refresh!Missing /\ t.kept = status.rules
  BY <1>1, <1>2 DEF RunType
<1>4. worker' = [worker EXCEPT ![r] = t]
  BY DEF Refresh!Clean
<1> HIDE DEF t
<1>5. /\ worker' \in [Refresh!Runs -> RunType] /\ worker'[r] = t
      /\ \A s \in Refresh!Runs \ {r} : worker'[s] = worker[s]
  BY <1>2, <1>3, <1>4
<1>6. /\ UNCHANGED <<combined, previous, status, settled, sched, Refresh!serving, exports, restarts,
                     newest, lock>>
      /\ nextFile' = Refresh!Missing
  BY DEF Refresh!Clean, Refresh!Quiet
<1>7. lock' = (worker'[r].pc # "idle")
  BY <1>1, <1>3, <1>5, <1>6, OnlyRun, PartsFromType DEF RunsOK
<1>8. FilesType'
  BY <1>6, PartsFromType, LoadedContents DEF RunsOK, FilesType
<1>9. WorkAt(r)'
  BY <1>1, <1>3, <1>5, <1>6 DEF WorkAt
<1>10. FilesTell'
  BY <1>1, <1>6, FilesStay DEF Refresh!Unsettling
<1> QED
  BY <1>1, <1>5, <1>6, <1>7, <1>8, <1>9, <1>10, RunMoves

LEMMA ExportStep ==
  ASSUME Refresh!ConstantsOK, RunsOK, NEW r \in Refresh!Runs, Refresh!Export(r)
  PROVE  RunsOK'
<1>1. PICK kind \in {"missing", "rules", "bad"}, exit \in BOOLEAN :
        /\ nextFile' = IF kind = "missing" THEN Refresh!Missing ELSE [kind |-> kind, id |-> r + 1]
        /\ worker' = [worker EXCEPT ![r] = [worker[r] EXCEPT !.pc = "check", !.exit = exit]]
  BY DEF Refresh!Export
<1> DEFINE t == [worker[r] EXCEPT !.pc = "check", !.exit = exit]
<1>2. /\ worker[r].pc = "export" /\ worker[r].data = Refresh!Missing /\ newest.id =< r
      /\ worker[r].kept = status.rules
  BY DEF Refresh!Export, RunsOK, Work, WorkAt
<1>3. worker \in [Refresh!Runs -> RunType]
  BY PartsFromType DEF RunsOK
<1>4. t \in RunType /\ t.pc = "check" /\ t.data = Refresh!Missing /\ t.kept = status.rules
  BY <1>2, <1>3 DEF RunType
<1>5. worker' = [worker EXCEPT ![r] = t]
  BY <1>1
<1> HIDE DEF t
<1>6. /\ worker' \in [Refresh!Runs -> RunType] /\ worker'[r] = t
      /\ \A s \in Refresh!Runs \ {r} : worker'[s] = worker[s]
  BY <1>3, <1>4, <1>5
<1>7. UNCHANGED <<combined, previous, status, settled, sched, Refresh!serving, exports, restarts,
                  newest, lock>>
  BY DEF Refresh!Export, Refresh!Quiet
<1>8. nextFile' \in Refresh!Contents /\ (nextFile' = Refresh!Missing \/ nextFile'.id = r + 1)
  <2>1. r + 1 \in 1..(MaxExports + 1)
    BY DEF Refresh!Runs, Refresh!ConstantsOK
  <2>2. CASE kind = "missing"
    BY <1>1, <2>2, LoadedContents
  <2>3. CASE kind # "missing"
    BY <1>1, <2>1, <2>3 DEF Refresh!Contents
  <2> QED
    BY <2>2, <2>3
<1>9. lock' = (worker'[r].pc # "idle")
  BY <1>2, <1>4, <1>6, <1>7, OnlyRun, PartsFromType DEF RunsOK
<1>10. FilesType'
  BY <1>7, <1>8, PartsFromType DEF RunsOK, FilesType
<1>11. WorkAt(r)'
  BY <1>2, <1>4, <1>6, <1>7, <1>8 DEF WorkAt
<1>12. FilesTell'
  BY <1>2, <1>7, FilesStay DEF Refresh!Unsettling
<1> QED
  BY <1>2, <1>6, <1>7, <1>9, <1>10, <1>11, <1>12, RunMoves

\* What passes is a file of rules, and this run's own.
LEMMA CheckStep ==
  ASSUME Refresh!ConstantsOK, RunsOK, NEW r \in Refresh!Runs, Refresh!Check(r)
  PROVE  RunsOK'
<1> DEFINE good == worker[r].exit /\ nextFile.kind = "rules"
           passed == [worker[r] EXCEPT !.pc = "retire", !.data = nextFile]
           failed == [worker[r] EXCEPT !.pc = "discard", !.exit = FALSE]
<1>1. /\ worker[r].pc = "check" /\ worker[r].data = Refresh!Missing /\ newest.id =< r
      /\ worker[r].kept = status.rules /\ (nextFile = Refresh!Missing \/ nextFile.id = r + 1)
  BY DEF Refresh!Check, RunsOK, Work, WorkAt
<1>2. worker \in [Refresh!Runs -> RunType] /\ nextFile \in Refresh!Contents
  BY PartsFromType DEF RunsOK, FilesType
<1>3. good => nextFile \in Refresh!Loaded /\ nextFile = Refresh!Rules(r + 1)
  BY <1>1, <1>2, LoadedContents DEF Refresh!Contents, Refresh!Rules, Refresh!Missing
<1>4. \/ good /\ worker' = [worker EXCEPT ![r] = passed]
      \/ ~good /\ worker' = [worker EXCEPT ![r] = failed]
  BY DEF Refresh!Check
<1>5. /\ good => passed \in RunType
      /\ passed.pc = "retire" /\ passed.data = nextFile /\ passed.kept = status.rules
  BY <1>1, <1>2, <1>3 DEF RunType
<1>6. failed \in RunType /\ failed.pc = "discard" /\ failed.data = Refresh!Missing
      /\ failed.kept = status.rules
  BY <1>1, <1>2 DEF RunType
<1> HIDE DEF good, passed, failed
<1>7. PICK t \in RunType : /\ worker' = [worker EXCEPT ![r] = t]
                           /\ (t = passed /\ good) \/ t = failed
  BY <1>4, <1>5, <1>6
<1>8. /\ t.pc \in {"retire", "discard"} /\ t.kept = status.rules
      /\ t.pc = "retire" => nextFile = Refresh!Rules(r + 1) /\ t.data = nextFile
      /\ t.pc = "discard" => t.data = Refresh!Missing
  <2>1. CASE t = passed /\ good
    BY <1>3, <1>5, <2>1
  <2>2. CASE t = failed
    BY <1>6, <2>2
  <2> QED
    BY <1>7, <2>1, <2>2
<1>9. /\ worker' \in [Refresh!Runs -> RunType] /\ worker'[r] = t
      /\ \A s \in Refresh!Runs \ {r} : worker'[s] = worker[s]
  BY <1>2, <1>7
<1>10. UNCHANGED <<combined, previous, nextFile, status, settled, sched, Refresh!serving, exports,
                   restarts, newest, lock>>
  BY DEF Refresh!Check, Refresh!Quiet, Refresh!files
<1>11. lock' = (worker'[r].pc # "idle")
  BY <1>1, <1>8, <1>9, <1>10, OnlyRun, PartsFromType DEF RunsOK
<1>12. FilesType'
  BY <1>10, PartsFromType DEF RunsOK, FilesType
<1>13. WorkAt(r)'
  BY <1>1, <1>8, <1>9, <1>10 DEF WorkAt
<1>14. FilesTell'
  BY <1>1, <1>10, FilesStay DEF Refresh!Unsettling
<1> QED
  BY <1>1, <1>9, <1>10, <1>11, <1>12, <1>13, <1>14, RunMoves

\* The live file becomes the previous one, so the newest rules are still there.
LEMMA RetireStep ==
  ASSUME Refresh!ConstantsOK, RunsOK, NEW r \in Refresh!Runs, Refresh!Retire(r)
  PROVE  RunsOK'
<1>1. /\ worker[r].pc = "retire" /\ nextFile = Refresh!Rules(r + 1) /\ worker[r].data = nextFile
      /\ newest.id =< r
      /\ worker[r].kept = status.rules
  BY DEF Refresh!Retire, RunsOK, Work, WorkAt
<1>2. /\ worker' \in [Refresh!Runs -> RunType] /\ worker'[r].pc = "install"
      /\ worker'[r].data = worker[r].data
      /\ worker'[r].kept = worker[r].kept /\ \A s \in Refresh!Runs \ {r} : worker'[s] = worker[s]
  BY GoFields DEF Refresh!Retire, RunsOK
<1>3. /\ previous' = (IF combined = Refresh!Missing THEN previous ELSE combined)
      /\ combined' = Refresh!Missing
      /\ UNCHANGED <<nextFile, status, settled, sched, Refresh!serving, exports, restarts, newest,
                     lock>>
  BY DEF Refresh!Retire, Refresh!Quiet
<1>4. lock' = (worker'[r].pc # "idle")
  BY <1>1, <1>2, <1>3, OnlyRun, PartsFromType DEF RunsOK
<1>5. FilesType'
  BY <1>3, PartsFromType, LoadedContents DEF RunsOK, FilesType
<1>6. WorkAt(r)'
  BY <1>1, <1>2, <1>3 DEF WorkAt
<1>7. FilesTell'
  <2>1. Refresh!Unsettling(r)'
    BY <1>2 DEF Refresh!Unsettling
  <2> QED
    BY <1>3, <2>1, LoadedContents DEF RunsOK, FilesTell, Refresh!NewestIsKept
<1> QED
  BY <1>1, <1>2, <1>3, <1>4, <1>5, <1>6, <1>7, RunMoves

LEMMA InstallStep ==
  ASSUME Refresh!ConstantsOK, RunsOK, NEW r \in Refresh!Runs, Refresh!Install(r)
  PROVE  RunsOK'
<1>1. worker[r].pc = "install" /\ nextFile = Refresh!Rules(r + 1) /\ worker[r].data = nextFile
  BY DEF Refresh!Install, RunsOK, Work, WorkAt
<1>2. /\ worker' \in [Refresh!Runs -> RunType] /\ worker'[r].pc = "save"
      /\ worker'[r].data = worker[r].data
      /\ worker'[r].kept = worker[r].kept /\ \A s \in Refresh!Runs \ {r} : worker'[s] = worker[s]
  BY GoFields DEF Refresh!Install, RunsOK
<1>3. /\ combined' = nextFile /\ nextFile' = Refresh!Missing /\ newest' = nextFile
      /\ UNCHANGED <<previous, status, settled, lock, sched, Refresh!serving, exports, restarts>>
  BY DEF Refresh!Install
<1>4. /\ r = exports /\ r + 1 \in 1..(MaxExports + 1) /\ Refresh!Rules(r + 1) \in Refresh!Loaded
      /\ Refresh!Rules(r + 1) # Refresh!Missing /\ Refresh!Rules(r + 1).id = r + 1 /\ r \in Nat
  BY <1>1, OnlyRun, LoadedContents DEF Refresh!Runs, Refresh!Rules, Refresh!Missing, Refresh!ConstantsOK
<1>5. lock' = (worker'[r].pc # "idle")
  BY <1>1, <1>2, <1>3, OnlyRun, PartsFromType DEF RunsOK
<1>6. FilesType'
  BY <1>1, <1>3, <1>4, PartsFromType, LoadedContents DEF RunsOK, FilesType
<1>7. WorkAt(r)'
  BY <1>1, <1>2, <1>3, <1>4 DEF WorkAt
<1>8. FilesTell'
  <2>1. Refresh!Unsettling(r)'
    BY <1>1, <1>2, <1>4 DEF Refresh!Unsettling
  <2>2. newest'.id =< exports' + 1 /\ {combined', newest'} \subseteq Refresh!Loaded
    BY <1>1, <1>3, <1>4
  <2> QED
    BY <1>3, <2>1, <2>2 DEF RunsOK, FilesTell, Refresh!NewestIsKept
<1> QED
  BY <1>1, <1>2, <1>3, <1>5, <1>6, <1>7, <1>8, RunMoves

LEMMA DiscardStep ==
  ASSUME Refresh!ConstantsOK, RunsOK, NEW r \in Refresh!Runs, Refresh!Discard(r)
  PROVE  RunsOK'
<1>1. worker[r].pc = "discard" /\ worker[r].data = Refresh!Missing /\ worker[r].kept = status.rules
  BY DEF Refresh!Discard, RunsOK, Work, WorkAt
<1>2. /\ worker' \in [Refresh!Runs -> RunType] /\ worker'[r].pc = "save"
      /\ worker'[r].data = worker[r].data
      /\ worker'[r].kept = worker[r].kept /\ \A s \in Refresh!Runs \ {r} : worker'[s] = worker[s]
  BY GoFields DEF Refresh!Discard, RunsOK
<1>3. /\ UNCHANGED <<combined, previous, status, settled, sched, Refresh!serving, exports, restarts,
                     newest, lock>>
      /\ nextFile' = Refresh!Missing
  BY DEF Refresh!Discard, Refresh!Quiet
<1>4. lock' = (worker'[r].pc # "idle")
  BY <1>1, <1>2, <1>3, OnlyRun, PartsFromType DEF RunsOK
<1>5. FilesType'
  BY <1>3, PartsFromType, LoadedContents DEF RunsOK, FilesType
<1>6. WorkAt(r)'
  BY <1>1, <1>2, <1>3 DEF WorkAt
<1>7. FilesTell'
  BY <1>1, <1>3, FilesStay DEF Refresh!Unsettling
<1> QED
  BY <1>1, <1>2, <1>3, <1>4, <1>5, <1>6, <1>7, RunMoves

\* The rules of the status are those installed, or those it told before.
LEMMA SaveStep ==
  ASSUME Refresh!ConstantsOK, RunsOK, NEW r \in Refresh!Runs, Refresh!Save(r)
  PROVE  RunsOK'
<1> DEFINE t == worker[r]
<1>1. /\ t.pc = "save" /\ (t.data # Refresh!Missing => combined = t.data)
      /\ (t.data = Refresh!Missing => t.kept = status.rules)
  BY DEF Refresh!Save, RunsOK, Work, WorkAt
<1>2. /\ worker' \in [Refresh!Runs -> RunType] /\ worker'[r].pc = "release"
      /\ \A s \in Refresh!Runs \ {r} : worker'[s] = worker[s]
  BY GoFields DEF Refresh!Save, RunsOK
<1>3. /\ status' = (IF t.data = Refresh!Missing THEN [ok |-> "no", rules |-> t.kept]
                   ELSE [ok |-> "yes", rules |-> t.data.id])
      /\ settled' = (settled \/ t.data # Refresh!Missing)
      /\ UNCHANGED <<combined, previous, nextFile, sched, Refresh!serving, exports, restarts,
                     newest, lock>>
  BY DEF Refresh!Save, Refresh!Quiet
<1>4. lock' = (worker'[r].pc # "idle")
  BY <1>1, <1>2, <1>3, OnlyRun, PartsFromType DEF RunsOK
<1>5. FilesType'
  <2>1. t.kept \in 0..(MaxExports + 1) /\ t.data \in Refresh!Contents
        /\ t.data.id \in 0..(MaxExports + 1)
    BY PartsFromType, LoadedContents DEF RunsOK, RunType
  <2>2. status' \in [ok : {"none", "yes", "no"}, rules : 0..(MaxExports + 1)]
    BY <1>3, <2>1
  <2>3. settled' \in BOOLEAN
    BY <1>3, PartsFromType DEF RunsOK, FilesType
  <2>4. {combined, previous, nextFile, newest}' \subseteq Refresh!Contents
    BY <1>3, PartsFromType DEF RunsOK, FilesType
  <2> QED
    BY <2>2, <2>3, <2>4 DEF FilesType
<1>6. WorkAt(r)'
  BY <1>2 DEF WorkAt
<1>7. FilesTell'
  <2>1. CASE t.data = Refresh!Missing
    <3>1. \A s \in Refresh!Runs : ~Refresh!Unsettling(s)
      BY <1>1, <2>1, OnlyRun DEF Refresh!Unsettling
    <3>2. status'.rules = status.rules /\ settled' = settled
      BY <1>1, <1>3, <2>1, PartsFromType DEF RunsOK, FilesType
    <3> QED
      BY <1>3, <3>1, <3>2 DEF RunsOK, FilesTell, Refresh!NewestIsKept
  <2>2. CASE t.data # Refresh!Missing
    BY <1>1, <1>3, <2>2 DEF RunsOK, FilesTell, Refresh!NewestIsKept
  <2> QED
    BY <2>1, <2>2
<1> QED
  BY <1>1, <1>2, <1>3, <1>4, <1>5, <1>6, <1>7, RunMoves

LEMMA FileErrorStep ==
  ASSUME Refresh!ConstantsOK, RunsOK, NEW r \in Refresh!Runs, Refresh!FileError(r)
  PROVE  RunsOK'
<1>1. worker[r].pc # "idle"
  BY DEF Refresh!FileError
<1>2. /\ worker' \in [Refresh!Runs -> RunType] /\ worker'[r].pc = "release"
      /\ \A s \in Refresh!Runs \ {r} : worker'[s] = worker[s]
  BY GoFields DEF Refresh!FileError, RunsOK
<1>3. /\ UNCHANGED <<combined, previous, nextFile, status, sched, Refresh!serving, exports,
                     restarts, newest, lock>>
      /\ settled' = (settled /\ ~Refresh!Unsettling(r))
  BY DEF Refresh!FileError, Refresh!Quiet, Refresh!files
<1>4. lock' = (worker'[r].pc # "idle")
  BY <1>1, <1>2, <1>3, OnlyRun, PartsFromType DEF RunsOK
<1>5. settled' \in BOOLEAN
  BY <1>3
<1>6. FilesType'
  BY <1>3, <1>5, PartsFromType DEF RunsOK, FilesType
<1>7. WorkAt(r)'
  BY <1>2 DEF WorkAt
<1>8. FilesTell'
  BY <1>1, <1>3, FilesStay
<1> QED
  BY <1>1, <1>2, <1>3, <1>4, <1>6, <1>7, <1>8, RunMoves

LEMMA ReleaseStep ==
  ASSUME Refresh!ConstantsOK, RunsOK, NEW r \in Refresh!Runs, Refresh!Release(r)
  PROVE  RunsOK'
<1>1. worker[r].pc = "release" /\ worker' = [worker EXCEPT ![r] = Refresh!Idle]
  BY DEF Refresh!Release
<1>2. Refresh!Idle \in RunType /\ Refresh!Idle.pc = "idle" /\ Refresh!Idle.data = Refresh!Missing
  BY LoadedContents DEF Refresh!Idle, RunType, Refresh!ConstantsOK
<1>3. /\ worker' \in [Refresh!Runs -> RunType] /\ worker'[r].pc = "idle"
      /\ worker'[r].data = Refresh!Missing
      /\ \A s \in Refresh!Runs \ {r} : worker'[s] = worker[s]
  BY <1>1, <1>2, PartsFromType DEF RunsOK
<1>4. /\ UNCHANGED <<combined, previous, nextFile, status, settled, sched, Refresh!serving, exports,
                     restarts, newest>>
      /\ lock' = FALSE
  BY DEF Refresh!Release, Refresh!files
<1>5. FilesType'
  BY <1>4, PartsFromType DEF RunsOK, FilesType
<1>6. WorkAt(r)'
  BY <1>3 DEF WorkAt
<1>7. FilesTell'
  BY <1>1, <1>4, FilesStay DEF Refresh!Unsettling
<1> QED
  BY <1>1, <1>3, <1>4, <1>5, <1>6, <1>7, RunMoves

----------------------------------------------------------------------------
(* The other steps. *)

\* With the lock free no run is at work, and the new one is the last.
LEMMA StartStep ==
  ASSUME Refresh!ConstantsOK, RunsOK, NEW r \in Refresh!Runs, Refresh!Start(r), sched' \in {"boot",
         "daily"}
  PROVE  RunsOK'
<1> DEFINE t == [worker[r] EXCEPT !.pc = "clean"]
<1>1. /\ r = exports + 1 /\ exports' = r /\ lock' = TRUE /\ worker' = [worker EXCEPT ![r] = t]
      /\ UNCHANGED <<Refresh!files, Refresh!serving, restarts, newest, settled>>
  BY DEF Refresh!Start
<1>2. /\ \A s \in Refresh!Runs : worker[s].pc = "idle"
      /\ worker \in [Refresh!Runs -> RunType]
  BY PartsFromType DEF RunsOK, OneRun, Refresh!Start
<1>3. t \in RunType /\ t.pc = "clean" /\ t.data = worker[r].data
  BY <1>2 DEF RunType
<1> HIDE DEF t
<1>4. /\ worker' \in [Refresh!Runs -> RunType] /\ worker'[r] = t
      /\ \A s \in Refresh!Runs \ {r} : worker'[s] = worker[s] /\ worker[s].pc = "idle"
  BY <1>1, <1>2, <1>3
<1>5. FilesType' /\ ServingType' /\ restarts' \in 0..MaxRestarts /\ exports' \in 0..MaxExports
  BY <1>1, PartsFromType DEF RunsOK, FilesType, ServingType, Refresh!files, Refresh!serving,
     Refresh!Runs
<1>6. Refresh!TypeOK'
  BY <1>1, <1>4, <1>5, TypeFromParts
<1>7. OneRun'
  BY <1>1, <1>3, <1>4 DEF OneRun
<1>8. newest'.id =< r /\ newest'.id =< exports' + 1
  <2>1. newest.id \in Nat /\ r \in Nat /\ newest.id =< exports + 1
    BY LoadedContents, PartsFromType DEF RunsOK, FilesTell, FilesType, Refresh!Runs, Refresh!ConstantsOK
  <2> QED
    BY <1>1, <2>1
<1>9. \A s \in Refresh!Runs : worker[s].data = Refresh!Missing
  BY <1>2 DEF RunsOK, Work, WorkAt
<1>10. Work'
  <2>1. WorkAt(r)'
    BY <1>1, <1>3, <1>4, <1>8, <1>9 DEF WorkAt
  <2>2. ASSUME NEW s \in Refresh!Runs \ {r} PROVE WorkAt(s)'
    BY <1>4, <1>9 DEF WorkAt
  <2> QED
    BY <2>1, <2>2 DEF Work
<1>11. FilesTell'
  <2>1. \A s \in Refresh!Runs : ~Refresh!Unsettling(s)
    BY <1>2 DEF Refresh!Unsettling
  <2> QED
    BY <1>1, <1>8, <2>1 DEF RunsOK, FilesTell, Refresh!NewestIsKept, Refresh!files
<1> QED
  BY <1>6, <1>7, <1>10, <1>11 DEF RunsOK

\* A process that comes back finds the files, and no run.
LEMMA RestartStep ==
  ASSUME Refresh!ConstantsOK, RunsOK, Refresh!Restart
  PROVE  RunsOK'
<1>1. /\ restarts < MaxRestarts /\ restarts' = restarts + 1 /\ lock' = FALSE
      /\ worker' = [r \in Refresh!Runs |-> Refresh!Idle] /\ sched' = "boot"
      /\ cache' = Refresh!Unread /\ reader' = [d \in Readers |-> Refresh!Away] /\ overlap' = FALSE
      /\ settled' = (settled /\ ~\E r \in Refresh!Running : Refresh!Unsettling(r))
      /\ UNCHANGED <<combined, previous, nextFile, status, exports, newest>>
  BY DEF Refresh!Restart, Refresh!files
<1>2. Refresh!Idle \in RunType /\ Refresh!Idle.pc = "idle" /\ Refresh!Idle.data = Refresh!Missing
  BY LoadedContents DEF Refresh!Idle, RunType, Refresh!ConstantsOK
<1>3. /\ worker' \in [Refresh!Runs -> RunType]
      /\ \A r \in Refresh!Runs : worker'[r].pc = "idle" /\ worker'[r].data = Refresh!Missing
  BY <1>1, <1>2
<1>4. FilesType' /\ ServingType'
  <2>1. settled' \in BOOLEAN
    BY <1>1
  <2>2. Refresh!Unread \in [rules : Refresh!Contents, synced : 0..(MaxExports + 1)]
    BY LoadedContents DEF Refresh!Unread, Refresh!ConstantsOK
  <2>3. Refresh!Away \in [pc : {"away", "look", "load", "put", "stamp"},
                synced : 0..(MaxExports + 1), rules : Refresh!Contents]
    BY LoadedContents DEF Refresh!Away, Refresh!ConstantsOK
  <2> QED
    BY <1>1, <2>1, <2>2, <2>3, PartsFromType DEF RunsOK, FilesType, ServingType
<1>5. restarts' \in 0..MaxRestarts /\ exports' \in 0..MaxExports
  BY <1>1, PartsFromType DEF RunsOK, Refresh!ConstantsOK
<1>6. Refresh!TypeOK'
  BY <1>1, <1>3, <1>4, <1>5, TypeFromParts
<1>7. OneRun' /\ Work'
  BY <1>1, <1>3 DEF OneRun, Work, WorkAt
<1>8. settled' => settled /\ \A r \in Refresh!Runs : ~Refresh!Unsettling(r)
  BY <1>1 DEF Refresh!Running, Refresh!Unsettling
<1>9. FilesTell'
  BY <1>1, <1>8 DEF RunsOK, FilesTell, Refresh!NewestIsKept
<1> QED
  BY <1>6, <1>7, <1>9 DEF RunsOK

LEMMA RunsInit ==
  ASSUME Refresh!ConstantsOK
  PROVE  Refresh!Init => RunsOK
<1> SUFFICES ASSUME Refresh!Init PROVE RunsOK
  OBVIOUS
<1>1. /\ \A r \in Refresh!Runs : worker[r].pc = "idle" /\ worker[r].data = Refresh!Missing
      /\ lock = FALSE /\ newest = combined /\ previous = Refresh!Missing /\ exports = 0
      /\ status.rules = 0 /\ settled = (combined = Refresh!Missing)
  BY DEF Refresh!Init, Refresh!Idle
<1>2. combined \in Refresh!Loaded /\ Refresh!Missing \in Refresh!Loaded /\ combined.id \in {0, 1}
  BY LoadedContents DEF Refresh!Init, Refresh!Missing, Refresh!Rules, Refresh!ConstantsOK
<1>3. OneRun /\ Work
  BY <1>1 DEF OneRun, Work, WorkAt
<1>4. settled => status.rules = combined.id
  <2>1. settled => combined = Refresh!Missing
    BY <1>1, Zenon
  <2>2. Refresh!Missing.id = 0
    BY DEF Refresh!Missing
  <2> QED
    BY <1>1, <2>1, <2>2
<1>5. newest.id =< exports + 1
  BY <1>1, <1>2
<1>6. Refresh!NewestIsKept /\ {combined, previous, newest} \subseteq Refresh!Loaded
  BY <1>1, <1>2 DEF Refresh!NewestIsKept
<1>7. FilesTell
  BY <1>4, <1>5, <1>6 DEF FilesTell
<1> QED
  BY <1>3, <1>7, TypeInit DEF RunsOK

LEMMA RunsStep ==
  ASSUME Refresh!ConstantsOK
  PROVE  RunsOK /\ [Refresh!Next]_(Refresh!vars) => RunsOK'
<1> SUFFICES ASSUME RunsOK, [Refresh!Next]_(Refresh!vars) PROVE RunsOK'
  OBVIOUS
<1>0. Refresh!TypeOK
  BY DEF RunsOK
<1>1. ASSUME NEW r \in Refresh!Runs, Refresh!RunStep(r) PROVE RunsOK'
  BY <1>1, CleanStep, ExportStep, CheckStep, RetireStep, InstallStep, DiscardStep, SaveStep,
     FileErrorStep, ReleaseStep DEF Refresh!RunStep
<1>2. ASSUME NEW r \in Refresh!Runs, Refresh!Refresh(r) \/ Refresh!CatchUp(r) PROVE RunsOK'
  <2>1. Refresh!Start(r) /\ sched' \in {"boot", "daily"}
    BY <1>0, <1>2, PartsFromType DEF Refresh!Refresh, Refresh!CatchUp
  <2> QED
    BY <2>1, StartStep
<1>3. ASSUME NEW d \in Readers, Refresh!ReaderStep(d) PROVE RunsOK'
  <2>1. UNCHANGED <<combined, previous, nextFile, status, lock, worker, sched, exports, restarts,
                    newest, settled>>
    BY <1>3 DEF Refresh!ReaderStep, Refresh!Ask, Refresh!Look, Refresh!Load, Refresh!Put,
       Refresh!Stamp, Refresh!Rest, Refresh!files
  <2>2. Refresh!TypeOK'
    BY <1>0, <1>3, <2>1, ReaderType, PartsFromType, TypeFromParts DEF FilesType
  <2> QED
    BY <2>1, <2>2 DEF RunsOK, OneRun, Work, WorkAt, FilesTell, Refresh!NewestIsKept, Refresh!Unsettling
<1>4. CASE Refresh!NoCatchUp \/ UNCHANGED Refresh!vars
  <2>1. /\ UNCHANGED <<combined, previous, nextFile, status, lock, worker, exports, restarts,
                       newest, settled>>
        /\ UNCHANGED <<cache, reader, overlap>> /\ sched' \in {"boot", "daily"}
    BY <1>0, <1>4, PartsFromType DEF Refresh!NoCatchUp, Refresh!vars, Refresh!files, Refresh!serving
  <2>2. Refresh!TypeOK'
    BY <1>0, <2>1, PartsFromType, TypeFromParts DEF FilesType, ServingType
  <2> QED
    BY <2>1, <2>2 DEF RunsOK, OneRun, Work, WorkAt, FilesTell, Refresh!NewestIsKept, Refresh!Unsettling
<1> QED
  BY <1>1, <1>2, <1>3, <1>4, RestartStep DEF Refresh!Next

----------------------------------------------------------------------------
(* What follows of the runs. *)

LEMMA RunsAlways ==
  ASSUME Refresh!ConstantsOK
  PROVE  Refresh!Spec => []RunsOK
  BY RunsInit, RunsStep, PTL DEF Refresh!Spec

\* Files, status, runs, cache and requests keep their types.
THEOREM RefreshTypes == RefreshSpec => []Refresh!TypeOK
<1>1. RunsOK => Refresh!TypeOK
  BY DEF RunsOK
<1> QED
  BY <1>1, RunsAlways, RefreshAssumption, PTL DEF RefreshSpec

\* Refresher.start lets nobody in while the lock is held: there is one export at most, and
\* the lock is held exactly while there is one, whatever errors and restarts come.
THEOREM OneExportAtATime == RefreshSpec => []OneExport
<1>1. RunsOK => Refresh!OneExport
  <2> SUFFICES ASSUME RunsOK PROVE Refresh!OneExport
    OBVIOUS
  <2>1. CASE Refresh!Running = {}
    BY <2>1, FS_EmptySet, SameCount DEF RunsOK, OneRun, Refresh!Running, Refresh!OneExport
  <2>2. ASSUME NEW r \in Refresh!Running PROVE Refresh!OneExport
    <3>1. Refresh!Running = {r} /\ lock
      BY <2>2 DEF RunsOK, OneRun, Refresh!Running
    <3>2. Cardinality(Refresh!Running) = 1 /\ Refresh!Running # {}
      BY <3>1, FS_Singleton
    <3>3. lock <=> Refresh!Running # {}
      BY <3>1, <3>2
    <3> QED
      BY <3>2, <3>3, SameCount DEF Refresh!OneExport
  <2> QED
    BY <2>1, <2>2
<1> QED
  BY <1>1, RunsAlways, RefreshAssumption, PTL DEF RefreshSpec, OneExport

\* The rules last served are live or kept as the previous file: no failure, file error or
\* restart loses them.
THEOREM NewestIsSafe == RefreshSpec => []NewestIsKept
<1>1. RunsOK => Refresh!NewestIsKept
  BY DEF RunsOK, FilesTell
<1> QED
  BY <1>1, RunsAlways, RefreshAssumption, PTL DEF RefreshSpec, NewestIsKept

\* While no export runs, and unless one was cut short since the last success, the saved
\* status tells the rules that are live.
THEOREM StatusIsTrue == RefreshSpec => []StatusTellsLive
<1>1. RunsOK => Refresh!StatusTellsLive
  <2> SUFFICES ASSUME RunsOK, ~lock, settled PROVE status.rules = combined.id
    BY DEF Refresh!StatusTellsLive
  <2>1. \A r \in Refresh!Runs : ~Refresh!Unsettling(r)
    BY DEF RunsOK, OneRun, Refresh!Unsettling
  <2> QED
    BY <2>1 DEF RunsOK, FilesTell
<1> QED
  BY <1>1, RunsAlways, RefreshAssumption, PTL DEF RefreshSpec, StatusTellsLive

----------------------------------------------------------------------------
(* The cache. *)

\* What a request holds was live, and not before the time it read.
Held ==
  /\ cache.rules \in Refresh!Loaded
  /\ \A d \in Readers : LET q == reader[d] IN
       /\ q.pc # "away" => q.synced =< newest.id
       /\ q.pc = "put" => q.rules \in Refresh!Loaded /\ q.rules.id >= q.synced

\* With one request loading at a time, the rules it put are still there when it sets the
\* time.
Paired ==
  /\ \A d, e \in Refresh!Loading : d = e
  /\ \A d \in Readers : reader[d].pc = "stamp" => cache.rules.id >= reader[d].synced
  /\ cache.rules = Refresh!Missing \/ cache.rules.id >= cache.synced
     \/ \E d \in Readers : reader[d].pc = "stamp"

CacheOK == RunsOK /\ Held /\ (~overlap => Paired)

LEMMA CacheInit ==
  ASSUME Refresh!ConstantsOK
  PROVE  Refresh!Init => CacheOK
<1> SUFFICES ASSUME Refresh!Init PROVE CacheOK
  OBVIOUS
<1>1. cache.rules = Refresh!Missing /\ \A d \in Readers : reader[d].pc = "away"
  BY DEF Refresh!Init, Refresh!Unread, Refresh!Away
<1> QED
  BY <1>1, RunsInit, LoadedContents DEF CacheOK, Held, Paired, Refresh!Loading

\* Whatever the runs do, the newest rules grow newer.
LEMMA RunsGrow ==
  ASSUME Refresh!ConstantsOK, CacheOK, RunsOK', UNCHANGED Refresh!serving,
         newest' = newest \/ \E r \in Refresh!Runs : Refresh!Install(r)
  PROVE  CacheOK'
<1>1. newest.id \in Nat /\ newest'.id \in Nat
  BY PartsFromType, LoadedContents DEF CacheOK, RunsOK, FilesTell, Refresh!ConstantsOK
<1>2. newest'.id >= newest.id
  <2>1. ASSUME NEW r \in Refresh!Runs, Refresh!Install(r) PROVE newest'.id >= newest.id
    <3>1. newest' = nextFile /\ nextFile = Refresh!Rules(r + 1) /\ newest.id =< r
      BY <2>1 DEF Refresh!Install, CacheOK, RunsOK, Work, WorkAt
    <3> QED
      BY <1>1, <3>1 DEF Refresh!Rules, Refresh!Runs
  <2> QED
    BY <1>1, <2>1
<1>3. \A d \in Readers : reader[d].synced \in Nat
  BY PartsFromType DEF CacheOK, RunsOK, ServingType, Refresh!ConstantsOK
<1> QED
  BY <1>1, <1>2, <1>3 DEF CacheOK, Held, Paired, Refresh!Loading, Refresh!serving

LEMMA ReaderHolds ==
  ASSUME Refresh!ConstantsOK, CacheOK, RunsOK', NEW d \in Readers, Refresh!ReaderStep(d)
  PROVE  CacheOK'
<1> DEFINE q == reader[d]
<1>1. /\ newest' = newest /\ newest.id \in Nat /\ combined \in Refresh!Loaded /\ combined.id \in Nat
      /\ combined # Refresh!Missing => combined = newest
      /\ combined.id =< newest.id
  <2>1. newest' = newest
    BY DEF Refresh!ReaderStep, Refresh!Ask, Refresh!Look, Refresh!Load, Refresh!Put, Refresh!Stamp,
       Refresh!Rest
  <2>2. newest.id \in Nat /\ combined \in Refresh!Loaded /\ combined.id \in Nat
    BY LoadedContents DEF CacheOK, RunsOK, FilesTell, Refresh!ConstantsOK
  <2>3. (combined # Refresh!Missing => combined = newest) /\ combined.id =< newest.id
    BY <2>2 DEF CacheOK, RunsOK, FilesTell, Refresh!NewestIsKept, Refresh!Missing
  <2> QED
    BY <2>1, <2>2, <2>3
<1>2. /\ cache.rules \in Refresh!Contents /\ cache.rules.id \in Nat /\ cache.synced \in Nat
      /\ \A e \in Readers : reader[e].synced \in Nat
      /\ reader \in [Readers -> [pc : {"away", "look", "load", "put", "stamp"},
                               synced : 0..(MaxExports + 1), rules : Refresh!Contents]]
      /\ cache \in [rules : Refresh!Contents, synced : 0..(MaxExports + 1)]
  BY PartsFromType, LoadedContents DEF CacheOK, RunsOK, ServingType, Refresh!ConstantsOK
<1>3. Held /\ (~overlap => Paired)
  BY DEF CacheOK
<1>4. CASE Refresh!Ask(d)
  <2>1. /\ reader'[d].pc = "look" /\ reader'[d].synced = combined.id /\ q.pc = "away"
        /\ \A e \in Readers \ {d} : reader'[e] = reader[e]
        /\ cache' = cache /\ overlap' = overlap
    BY <1>2, <1>4 DEF Refresh!Ask, Refresh!Away
  <2> QED
    BY <1>1, <1>2, <1>3, <2>1 DEF CacheOK, Held, Paired, Refresh!Loading
<1>5. CASE Refresh!Look(d)
  <2>1. /\ q.pc = "look" /\ cache' = cache
        /\ \A e \in Readers \ {d} : reader'[e] = reader[e]
    BY <1>2, <1>5 DEF Refresh!Look
  <2>2. \/ reader'[d].pc = "away" /\ (overlap' = overlap)
        \/ /\ reader'[d].pc = "load" /\ reader'[d].synced = q.synced
           /\ ~overlap' => ~overlap /\ Refresh!Loading = {}
    <3>1. CASE reader' = [reader EXCEPT ![d] = Refresh!Away] /\ overlap' = overlap
      BY <1>2, <3>1 DEF Refresh!Away
    <3>2. CASE /\ reader' = [reader EXCEPT ![d] =
                                  IF combined = Refresh!Missing THEN Refresh!Away ELSE [@ EXCEPT !.pc = "load"]]
               /\ overlap' = (overlap \/ (combined # Refresh!Missing /\ Refresh!Loading # {}))
      <4>1. CASE combined = Refresh!Missing
        <5>1. reader'[d].pc = "away"
          BY <1>2, <3>2, <4>1 DEF Refresh!Away
        <5>2. overlap' = overlap
          BY <3>2, <4>1, PartsFromType DEF CacheOK, RunsOK, ServingType
        <5> QED
          BY <5>1, <5>2
      <4>2. CASE combined # Refresh!Missing
        BY <1>2, <3>2, <4>2
      <4> QED
        BY <4>1, <4>2
    <3> QED
      BY <1>5, <3>1, <3>2 DEF Refresh!Look
  <2> QED
    BY <1>1, <1>2, <1>3, <2>1, <2>2 DEF CacheOK, Held, Paired, Refresh!Loading
<1>6. CASE Refresh!Load(d)
  <2>1. /\ q.pc = "load" /\ cache' = cache /\ overlap' = overlap
        /\ \A e \in Readers \ {d} : reader'[e] = reader[e]
    BY <1>2, <1>6 DEF Refresh!Load
  <2>2. \/ reader'[d].pc = "away"
        \/ /\ reader'[d].pc = "put" /\ reader'[d].synced = q.synced
           /\ reader'[d].rules = combined /\ combined = newest
    BY <1>1, <1>2, <1>6 DEF Refresh!Load, Refresh!Away
  <2> QED
    BY <1>1, <1>2, <1>3, <2>1, <2>2 DEF CacheOK, Held, Paired, Refresh!Loading
<1>7. CASE Refresh!Put(d)
  <2>1. /\ q.pc = "put" /\ cache'.rules = q.rules /\ overlap' = overlap
        /\ reader'[d].pc = "stamp" /\ reader'[d].synced = q.synced
        /\ \A e \in Readers \ {d} : reader'[e] = reader[e]
    BY <1>2, <1>7 DEF Refresh!Put
  <2> QED
    BY <1>1, <1>2, <1>3, <2>1 DEF CacheOK, Held, Paired, Refresh!Loading
<1>8. CASE Refresh!Stamp(d)
  <2>1. /\ q.pc = "stamp" /\ cache'.rules = cache.rules /\ cache'.synced = q.synced
        /\ overlap' = overlap /\ reader'[d].pc = "away"
        /\ \A e \in Readers \ {d} : reader'[e] = reader[e]
    BY <1>2, <1>8 DEF Refresh!Stamp, Refresh!Away
  <2> QED
    BY <1>1, <1>2, <1>3, <2>1 DEF CacheOK, Held, Paired, Refresh!Loading
<1> QED
  BY <1>4, <1>5, <1>6, <1>7, <1>8 DEF Refresh!ReaderStep

LEMMA CacheStep ==
  ASSUME Refresh!ConstantsOK
  PROVE  CacheOK /\ [Refresh!Next]_(Refresh!vars) => CacheOK'
<1> SUFFICES ASSUME CacheOK, [Refresh!Next]_(Refresh!vars) PROVE CacheOK'
  OBVIOUS
<1>0. RunsOK'
  BY RunsStep DEF CacheOK
<1>1. CASE Refresh!Restart
  <2>1. cache'.rules = Refresh!Missing /\ \A d \in Readers : reader'[d].pc = "away"
    BY <1>1 DEF Refresh!Restart, Refresh!Unread, Refresh!Away
  <2> QED
    BY <1>0, <2>1, LoadedContents DEF CacheOK, Held, Paired, Refresh!Loading
<1>2. ASSUME NEW d \in Readers, Refresh!ReaderStep(d) PROVE CacheOK'
  BY <1>0, <1>2, ReaderHolds
<1>3. ASSUME NEW r \in Refresh!Runs,
             Refresh!Refresh(r) \/ Refresh!CatchUp(r) \/ Refresh!RunStep(r) PROVE CacheOK'
  <2>1. UNCHANGED Refresh!serving /\ (newest' = newest \/ Refresh!Install(r))
    BY <1>3 DEF Refresh!Refresh, Refresh!CatchUp, Refresh!Start, Refresh!RunStep, Refresh!Clean,
       Refresh!Export, Refresh!Check, Refresh!Retire, Refresh!Install, Refresh!Discard,
                Refresh!Save, Refresh!FileError, Refresh!Release, Refresh!Quiet
  <2> QED
    BY <1>0, <2>1, RunsGrow
<1>4. CASE Refresh!NoCatchUp \/ UNCHANGED Refresh!vars
  BY <1>0, <1>4, RunsGrow DEF Refresh!NoCatchUp, Refresh!vars
<1> QED
  BY <1>1, <1>2, <1>3, <1>4 DEF Refresh!Next

\* Only files that were checked are live, kept or served, whatever the export leaves behind.
THEOREM OnlyCheckedIsServed == RefreshSpec => []LiveIsChecked
<1>1. CacheOK => Refresh!LiveIsChecked
  BY DEF CacheOK, RunsOK, FilesTell, Held, Refresh!LiveIsChecked
<1> QED
  BY <1>1, CacheInit, CacheStep, RefreshAssumption, PTL DEF RefreshSpec, Refresh!Spec, LiveIsChecked

\* Old rules stay cached under a newer time only after two requests have loaded the file at
\* the same time.
THEOREM CacheIsPaired == RefreshSpec => []StaleCacheIsARace
<1>1. CacheOK => Refresh!StaleCacheIsARace
  BY DEF CacheOK, Paired, Refresh!StaleCacheIsARace, Refresh!Loading
<1> QED
  BY <1>1, CacheInit, CacheStep, RefreshAssumption, PTL DEF RefreshSpec, Refresh!Spec, StaleCacheIsARace
==============================================================================
