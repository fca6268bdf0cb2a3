--------------------------- MODULE EvidenceProofs ----------------------------
(***************************************************************************)
(* Theorems about Evidence, for any number of launchers, any sequence of   *)
(* analysis inputs and any options.  The argument: a server goes by no     *)
(* promise of the stages before it.  Whatever the shared files hold when   *)
(* it reads them, it has compared every entry of the templates with the    *)
(* index it has itself loaded, and keeps both in its memory.               *)
(***************************************************************************)
EXTENDS Evidence, FiniteSetTheorems, WellFoundedInduction, TLAPS

(***************************************************************************)
(* Lists: what is put in some order, and back into a set.                  *)
(***************************************************************************)

(* What a function makes of a finite set is finite. *)
LEMMA ImageIsFinite ==
    ASSUME NEW S, IsFiniteSet(S), NEW f, S = DOMAIN f
    PROVE  IsFiniteSet({f[x] : x \in S})
<1> DEFINE T == {f[x] : x \in S}
           g == [x \in S |-> f[x]]
<1>1. g \in [S -> T]
  OBVIOUS
<1>2. \A t \in T : \E x \in S : g[x] = t
  OBVIOUS
<1>3. g \in Surjection(S, T)
  BY <1>1, <1>2 DEF Surjection
<1> QED
  BY <1>3, FS_Surjection

(* A list has finitely many places and elements. *)
LEMMA ListsAreFinite ==
    ASSUME NEW s, IsList(s)
    PROVE  /\ Len(s) \in Nat /\ DOMAIN s = 1..Len(s)
           /\ IsFiniteSet(DOMAIN s) /\ IsFiniteSet(All(s))
<1>1. Len(s) \in Nat /\ DOMAIN s = 1..Len(s)
  BY DEF IsList
<1>2. IsFiniteSet(DOMAIN s)
  BY <1>1, FS_Interval
<1> QED
  BY <1>1, <1>2, ImageIsFinite DEF All

(* Every sequence is a list of its elements. *)
LEMMA SequencesAreLists ==
    ASSUME NEW T, NEW s \in Seq(T)
    PROVE  IsList(s)
<1>1. Len(s) \in Nat /\ s = [i \in 1..Len(s) |-> s[i]] /\ DOMAIN s = 1..Len(s)
  OBVIOUS
<1>2. \A i \in 1..Len(s) : s[i] \in All(s)
  BY <1>1 DEF All
<1> QED
  BY <1>1, <1>2 DEF IsList

(* A finite set that is written in some order is read back as it was. *)
LEMMA InSomeOrder ==
    ASSUME NEW S, IsFiniteSet(S)
    PROVE  /\ Cardinality(S) \in Nat
           /\ SetToSeq(S) \in [1..Cardinality(S) -> S]
           /\ All(SetToSeq(S)) = S
<1> DEFINE n == Cardinality(S)
<1>1. n \in Nat /\ ExistsBijection(1..n, S)
  BY FS_CardinalityType
<1>2. \E f \in [1..n -> S] : IsInjective(f)
  BY <1>1 DEF ExistsBijection, Bijection, Injection, IsInjective
<1>3. SetToSeq(S) \in [1..n -> S] /\ IsInjective(SetToSeq(S))
  BY <1>2 DEF SetToSeq
<1>4. SetToSeq(S) \in Injection(1..n, S)
  BY <1>3 DEF Injection, IsInjective
<1>5. IsFiniteSet(1..n) /\ Cardinality(1..n) = n
  BY <1>1, FS_Interval
<1>6. SetToSeq(S) \in Surjection(1..n, S)
  BY <1>4, <1>5, FS_Injection
<1>7. All(SetToSeq(S)) = S
  BY <1>3, <1>6 DEF Surjection, All
<1> QED
  BY <1>1, <1>3, <1>7

(* The least of a set of numbers. *)
LEMMA MinIsLeast ==
    ASSUME NEW S \in SUBSET Nat, S # {}
    PROVE  Min(S) \in S /\ \A y \in S : Min(S) =< y
<1> DEFINE R == OpToRel(<, Nat)
<1>1. PICK x \in S : \A y \in S : ~ (<<y, x>> \in R)
  <2> HIDE DEF R
  <2>1. IsWellFoundedOn(R, Nat)
    BY NatLessThanWellFounded DEF R
  <2> QED
    BY <2>1, WFMin
<1>2. \A y \in S : x =< y
  <2> SUFFICES ASSUME NEW y \in S PROVE x =< y
    OBVIOUS
  <2>1. <<y, x>> \in R <=> y < x
    BY DEF OpToRel
  <2> HIDE DEF R
  <2>2. ~ (y < x)
    BY <1>1, <2>1
  <2> QED
    BY <2>2
<1> QED
  BY <1>2 DEF Min

(***************************************************************************)
(* The templates: from the rows of a catalog to the keys of a store.       *)
(***************************************************************************)

(* The document that compile_templates writes is read back with the same keys. *)
LEMMA DocumentKeepsKeys ==
    ASSUME NEW store, IsFiniteSet(Keys(store))
    PROVE  Keys(StoreOf(Document(store))) = Keys(store)
<1> DEFINE routes == SetToSeq(Keys(store))
<1>1. All(routes) = Keys(store)
  BY InSomeOrder
<1>2. \A n \in DOMAIN routes : Document(store).entries[n].route = routes[n]
  BY DEF Document
<1>3. DOMAIN Document(store).entries = DOMAIN routes
  BY DEF Document
<1>4. {e.route : e \in All(Document(store).entries)} = All(routes)
  BY <1>2, <1>3 DEF All
<1> QED
  BY <1>1, <1>4 DEF StoreOf, Keys

(* The rows of a catalog that a layer takes, and so the routes it answers, are finite. *)
LEMMA LayersAreFinite ==
    ASSUME NEW cat, IsFiniteSet(All(cat.routes))
    PROVE  IsFiniteSet(Keys(C15(cat))) /\ IsFiniteSet(Keys(C18(cat)))
<1>1. ASSUME NEW chosen \in SUBSET All(cat.routes)
      PROVE  IsFiniteSet(Keys(Layer(chosen)))
  <2> DEFINE route == [row \in chosen |-> row.route]
  <2>1. IsFiniteSet(chosen)
    BY FS_Subset
  <2>2. IsFiniteSet({route[row] : row \in chosen})
    BY <2>1, ImageIsFinite
  <2>3. {route[row] : row \in chosen} = {row.route : row \in chosen}
    OBVIOUS
  <2> QED
    BY <2>2, <2>3 DEF Layer, Keys
<1> QED
  BY <1>1 DEF C15, C18, ConservativeRows, OmissionRows

(* A merge has the keys of both. *)
LEMMA MergedKeys ==
    ASSUME NEW s, NEW t
    PROVE  Keys(Merged(s, t)) = Keys(s) \cup Keys(t)
BY DEF Merged, Keys

(* Finitely many routes of a catalog are compiled to finitely many templates. *)
LEMMA CompiledIsFinite ==
    ASSUME NEW cat, IsFiniteSet(All(cat.routes)), NEW o \in Options
    PROVE  IsFiniteSet(Keys(Compiled(cat, o.reports, o.explicit)))
<1> DEFINE zero   == Merged(C15(cat), C18(cat))
           static == StaticBaseline(cat, o.reports)
<1>1. IsFiniteSet(Keys(zero))
  <2>1. Keys(zero) = Keys(C15(cat)) \cup Keys(C18(cat))
    BY MergedKeys
  <2>2. IsFiniteSet(Keys(C15(cat)) \cup Keys(C18(cat)))
    BY LayersAreFinite, FS_Union
  <2> QED
    BY <2>1, <2>2
<1>2. IsFiniteSet(Keys(static))
  <2>1. CASE o.reports = {}
    BY <1>1, <2>1 DEF StaticBaseline
  <2>2. CASE o.reports # {}
    <3> DEFINE report == CHOOSE r \in o.reports : TRUE
    <3>1. Keys(DeadValueLayer(report)) = {report.route}
      BY DEF DeadValueLayer, Keys
    <3>2. Keys(static) = Keys(zero) \cup {report.route}
      BY <2>2, <3>1, MergedKeys DEF StaticBaseline
    <3> HIDE DEF zero, static, report
    <3> QED
      BY <1>1, <3>2, FS_AddElement
  <2> QED
    BY <2>1, <2>2
<1>3. CASE o.explicit = {}
  BY <1>2, <1>3 DEF Compiled
<1>4. CASE o.explicit # {}
  <2> DEFINE d == CHOOSE x \in o.explicit : TRUE
  <2>1. IsFiniteSet(All(d.entries))
    BY <1>4, EvidenceAssumption, ListsAreFinite
  <2>2. Keys(Compiled(cat, o.reports, o.explicit)) = Keys(static) \cup Keys(StoreOf(d))
    BY <1>4, MergedKeys DEF Compiled
  <2>3. Keys(StoreOf(d)) = {e.route : e \in All(d.entries)}
    BY DEF StoreOf, Keys
  <2> HIDE DEF d, static
  <2> DEFINE route == [e \in All(d.entries) |-> e.route]
  <2>4. IsFiniteSet({route[e] : e \in All(d.entries)})
    BY <2>1, ImageIsFinite
  <2>5. {route[e] : e \in All(d.entries)} = {e.route : e \in All(d.entries)}
    OBVIOUS
  <2>6. IsFiniteSet(Keys(static) \cup Keys(StoreOf(d)))
    BY <1>2, <2>3, <2>4, <2>5, FS_Union
  <2> QED
    BY <2>2, <2>6
<1> QED
  BY <1>3, <1>4

(* A route that no report and no explicit template answers comes from a row of
   the catalog that is eligible for one of the two layers of {}. *)
LEMMA InventedComesFromCatalog ==
    ASSUME NEW cat, NEW o \in Options,
           NEW r \in Keys(Compiled(cat, o.reports, o.explicit)), ~Elsewhere(o, r)
    PROVE  \E row \in All(cat.routes) : row.route = r /\ (ConservativeEligible(row) \/ OmissionEligible(row))
<1> DEFINE zero   == Merged(C15(cat), C18(cat))
           static == StaticBaseline(cat, o.reports)
<1>1. r \in Keys(static)
  <2>1. CASE o.explicit = {}
    BY <2>1 DEF Compiled
  <2>2. CASE o.explicit # {}
    <3> DEFINE d == CHOOSE x \in o.explicit : TRUE
    <3>1. r \notin Keys(StoreOf(d))
      BY <2>2 DEF Elsewhere
    <3>2. Keys(Compiled(cat, o.reports, o.explicit)) = Keys(static) \cup Keys(StoreOf(d))
      BY <2>2, MergedKeys DEF Compiled
    <3> QED
      BY <3>1, <3>2
  <2> QED
    BY <2>1, <2>2
<1>2. r \in Keys(zero)
  <2>1. CASE o.reports = {}
    BY <1>1, <2>1 DEF StaticBaseline
  <2>2. CASE o.reports # {}
    <3> DEFINE report == CHOOSE x \in o.reports : TRUE
    <3>1. r # report.route
      BY <2>2 DEF Elsewhere
    <3>2. Keys(DeadValueLayer(report)) = {report.route}
      BY DEF DeadValueLayer, Keys
    <3>3. Keys(static) = Keys(zero) \cup {report.route}
      BY <2>2, <3>2, MergedKeys DEF StaticBaseline
    <3> QED
      BY <1>1, <3>1, <3>3
  <2> QED
    BY <2>1, <2>2
<1>3. r \in Keys(C15(cat)) \cup Keys(C18(cat))
  BY <1>2, MergedKeys
<1> QED
  BY <1>3 DEF C15, C18, Layer, ConservativeRows, OmissionRows, Keys

(***************************************************************************)
(* The database and the catalog: from the inputs of the analysis to a row. *)
(***************************************************************************)

(* The endpoints and fields of the database are those of the inputs, and its
   mutations are those of the links. *)
LEMMA TablesOfInputs ==
    ASSUME NEW in
    PROVE  /\ BuildSemanticDb(in).endpoints = in.rows
           /\ BuildSemanticDb(in).fields = in.fields
           /\ BuildSemanticDb(in).mutations =
                [i \in DOMAIN SetToSeq(MutationLinks(in)) |-> SetToSeq(MutationLinks(in))[i][1]]
BY DEF BuildSemanticDb, C6Copy

(* The index of a database has one entry for each row of the input at most. *)
LEMMA IndexIsFinite ==
    ASSUME NEW in, Lists(in)
    PROVE  IsFiniteSet(SemanticIndex(BuildSemanticDb(in)))
<1> DEFINE D == BuildSemanticDb(in)
           contract == [row \in All(in.rows) |-> EndpointContract(D, row)]
<1>1. IsFiniteSet(All(in.rows))
  BY ListsAreFinite DEF Lists
<1>2. D.endpoints = in.rows
  BY TablesOfInputs
<1> HIDE DEF D
<1>3. IsFiniteSet({contract[row] : row \in All(in.rows)})
  BY <1>1, ImageIsFinite
<1>4. {contract[row] : row \in All(in.rows)} = SemanticIndex(D)
  BY <1>2 DEF SemanticIndex
<1>5. IsFiniteSet(SemanticIndex(D))
  BY <1>3, <1>4
<1> QED
  BY <1>5 DEF D

(* An endpoint that an input links with a mutation has one in the index. *)
LEMMA LinkedEndpointsMutate ==
    ASSUME NEW in, Lists(in), NEW link \in MutationLinks(in), NEW row, row.id = link[1]
    PROVE  EndpointContract(BuildSemanticDb(in), row).mutations # 0
<1> DEFINE ids   == [x \in All(in.rows) |-> x.id]
           pairs == {x.id : x \in All(in.rows)} \X (DOMAIN in.c7a)
           table == BuildSemanticDb(in).mutations
           of    == {i \in DOMAIN table : table[i] = row.id}
<1>1. IsFiniteSet(MutationLinks(in))
  <2>1. IsFiniteSet({ids[x] : x \in All(in.rows)})
    BY ListsAreFinite, ImageIsFinite DEF Lists
  <2>2. {ids[x] : x \in All(in.rows)} = {x.id : x \in All(in.rows)}
    OBVIOUS
  <2>3. IsFiniteSet(DOMAIN in.c7a)
    BY ListsAreFinite DEF Lists
  <2>4. IsFiniteSet(pairs)
    BY <2>1, <2>2, <2>3, FS_Product
  <2>5. MutationLinks(in) \subseteq pairs
    BY DEF MutationLinks, Matching
  <2> QED
    BY <2>4, <2>5, FS_Subset
<1> DEFINE links == SetToSeq(MutationLinks(in))
           n     == Cardinality(MutationLinks(in))
<1>2. n \in Nat /\ links \in [1..n -> MutationLinks(in)] /\ All(links) = MutationLinks(in)
  BY <1>1, InSomeOrder
<1>3. table = [i \in DOMAIN links |-> links[i][1]]
  BY TablesOfInputs
<1> HIDE DEF table, links, n
<1>4. PICK i \in DOMAIN links : links[i] = link
  BY <1>2 DEF All
<1>5. i \in of
  BY <1>3, <1>4
<1>6. IsFiniteSet(of)
  <2>1. DOMAIN table = 1..n
    BY <1>2, <1>3
  <2>2. IsFiniteSet(1..n)
    BY <1>2, FS_Interval
  <2> QED
    BY <2>1, <2>2, FS_Subset
<1>7. Cardinality(of) # 0
  BY <1>5, <1>6, FS_EmptySet
<1>8. EndpointContract(BuildSemanticDb(in), row).mutations = Cardinality(of)
  BY DEF EndpointContract, Times, table
<1> QED
  BY <1>7, <1>8

(* The rows of a catalog are one for each route, with an endpoint for each that
   has the route. *)
LEMMA RowsOfCatalog ==
    ASSUME NEW ix, IsFiniteSet(ix), NEW doc
    PROVE  /\ IsFiniteSet(All(EffectiveCatalog(ix, doc).routes))
           /\ \A row \in All(EffectiveCatalog(ix, doc).routes) :
                LET of == SetToSeq(RouteCandidates(ix, row.route)) IN
                row.endpoints = [i \in DOMAIN of |-> EffectiveEndpoint(of[i], doc)]
<1> DEFINE routes == SetToSeq(RoutesOf(ix))
           rows   == EffectiveCatalog(ix, doc).routes
           route  == [e \in ix |-> e.route]
<1>1. IsFiniteSet(RoutesOf(ix))
  <2>1. IsFiniteSet({route[e] : e \in ix})
    BY ImageIsFinite
  <2>2. {route[e] : e \in ix} = RoutesOf(ix)
    BY DEF RoutesOf
  <2> QED
    BY <2>1, <2>2
<1>2. Cardinality(RoutesOf(ix)) \in Nat /\ DOMAIN routes = 1..Cardinality(RoutesOf(ix))
  BY <1>1, InSomeOrder
<1>3. DOMAIN rows = DOMAIN routes
  BY DEF EffectiveCatalog
<1>4. IsFiniteSet(All(rows))
  <2>1. IsFiniteSet(DOMAIN rows)
    BY <1>2, <1>3, FS_Interval
  <2> HIDE DEF rows
  <2> QED
    BY <2>1, ImageIsFinite DEF All
<1>5. ASSUME NEW row \in All(rows)
      PROVE  LET of == SetToSeq(RouteCandidates(ix, row.route)) IN
             row.endpoints = [i \in DOMAIN of |-> EffectiveEndpoint(of[i], doc)]
  BY DEF EffectiveCatalog, All
<1> QED
  BY <1>4, <1>5

(* A row that is not ambiguous is of the one endpoint of its route. *)
LEMMA RowOfOneEndpoint ==
    ASSUME NEW ix, IsFiniteSet(ix), NEW doc,
           NEW row \in All(EffectiveCatalog(ix, doc).routes), ~Ambiguous(row),
           NEW e \in RouteCandidates(ix, row.route)
    PROVE  /\ RouteCandidates(ix, row.route) = {e}
           /\ row.endpoints[1] = EffectiveEndpoint(e, doc)
<1> DEFINE S  == RouteCandidates(ix, row.route)
           n  == Cardinality(S)
           of == SetToSeq(S)
<1>1. IsFiniteSet(S)
  BY FS_Subset DEF RouteCandidates
<1>2. n \in Nat /\ of \in [1..n -> S] /\ All(of) = S
  BY <1>1, InSomeOrder
<1>3. row.endpoints = [i \in 1..n |-> EffectiveEndpoint(of[i], doc)]
  BY <1>2, RowsOfCatalog
<1> HIDE DEF S, n, of
<1>4. Len(row.endpoints) = n
  BY <1>2, <1>3
<1>5. n # 0
  BY <1>1, FS_EmptySet DEF S, n
<1>6. n = 1
  BY <1>2, <1>4, <1>5 DEF Ambiguous
<1>7. S = {of[1]}
  BY <1>2, <1>6 DEF All
<1>8. of[1] = e
  BY <1>7 DEF S
<1> QED
  BY <1>3, <1>6, <1>7, <1>8 DEF S

(***************************************************************************)
(* The overlays: no base parser of the inputs is lost on the way to a row. *)
(***************************************************************************)

(* C13 has every kept relation of C11 and every one of C12 as a source. *)
LEMMA SourcesCover ==
    ASSUME NEW in, Lists(in)
    PROVE  /\ IsList(Sources(in))
           /\ \A s \in All(in.c12) \cup Kept(in.c11) :
                \E t \in All(Sources(in)) : t.endpoint = s.endpoint /\ BaseParser(t) = BaseParser(s)
<1> DEFINE base      == RefineBase(in.c11)
           n         == Cardinality(base)
           inherited == in.c12
           direct    == SetToSeq(base)
           refine    == [r \in Kept(in.c11) |->
                            [endpoint |-> r.endpoint, task |-> r.task, method |-> r.method, rva |-> r.rva,
                             fields |-> r.fields, callers |-> Callers(in.c11, OverlayKey(r))]]
<1>1. IsFiniteSet(base)
  <2>1. IsFiniteSet(Kept(in.c11))
    BY ListsAreFinite, FS_Subset DEF Lists, Kept
  <2>2. IsFiniteSet({refine[r] : r \in Kept(in.c11)})
    BY <2>1, ImageIsFinite
  <2>3. {refine[r] : r \in Kept(in.c11)} = base
    BY DEF RefineBase
  <2> QED
    BY <2>2, <2>3
<1>2. n \in Nat /\ direct \in [1..n -> base] /\ All(direct) = base
  BY <1>1, InSomeOrder
<1>3. Len(inherited) \in Nat /\ DOMAIN inherited = 1..Len(inherited)
  BY ListsAreFinite DEF Lists
<1>4. \A s \in Kept(in.c11) : \E r \in base : r.endpoint = s.endpoint /\ BaseParser(r) = BaseParser(s)
  <2> SUFFICES ASSUME NEW s \in Kept(in.c11)
               PROVE  \E r \in base : r.endpoint = s.endpoint /\ BaseParser(r) = BaseParser(s)
    OBVIOUS
  <2>1. refine[s] \in base
    BY DEF RefineBase
  <2>2. refine[s].endpoint = s.endpoint /\ BaseParser(refine[s]) = BaseParser(s)
    BY DEF BaseParser
  <2> QED
    BY <2>1, <2>2
<1> HIDE DEF base, n, inherited, direct
<1> DEFINE first  == [i \in 1..n |-> Source(direct[i], "direct-BL")]
           second == [i \in 1..Len(inherited) |-> Source(inherited[i], "inherited-no-override")]
           T      == {first[i] : i \in 1..n} \cup {second[i] : i \in 1..Len(inherited)}
<1>5. Sources(in) = first \o second
  BY <1>2, <1>3 DEF Sources, direct, base, inherited
<1>6. first \in Seq(T) /\ second \in Seq(T) /\ Len(first) = n /\ Len(second) = Len(inherited)
  BY <1>2, <1>3
<1>7. /\ \A i \in 1..n : first[i].endpoint = direct[i].endpoint /\ BaseParser(first[i]) = BaseParser(direct[i])
      /\ \A i \in 1..Len(inherited) : /\ second[i].endpoint = inherited[i].endpoint
                                      /\ BaseParser(second[i]) = BaseParser(inherited[i])
  BY DEF Source, BaseParser
<1> HIDE DEF first, second, T
<1>8. /\ first \o second \in Seq(T)
      /\ DOMAIN (first \o second) = 1..(n + Len(inherited))
      /\ \A i \in 1..n : (first \o second)[i] = first[i]
      /\ \A i \in 1..Len(inherited) : (first \o second)[n + i] = second[i]
  BY <1>2, <1>3, <1>6
<1>9. IsList(Sources(in))
  BY <1>5, <1>8, SequencesAreLists
<1>10. ASSUME NEW s \in Kept(in.c11)
       PROVE  \E t \in All(Sources(in)) : t.endpoint = s.endpoint /\ BaseParser(t) = BaseParser(s)
  <2>1. PICK i \in 1..n : direct[i].endpoint = s.endpoint /\ BaseParser(direct[i]) = BaseParser(s)
    BY <1>2, <1>4 DEF All
  <2>2. i \in DOMAIN Sources(in) /\ Sources(in)[i] = first[i]
    BY <1>2, <1>3, <1>5, <1>8
  <2>3. first[i] \in All(Sources(in))
    BY <2>2 DEF All
  <2> QED
    BY <1>7, <2>1, <2>3
<1>11. ASSUME NEW s \in All(in.c12)
       PROVE  \E t \in All(Sources(in)) : t.endpoint = s.endpoint /\ BaseParser(t) = BaseParser(s)
  <2>1. PICK i \in 1..Len(inherited) : inherited[i] = s
    BY <1>3 DEF All, inherited
  <2>2. n + i \in DOMAIN Sources(in) /\ Sources(in)[n + i] = second[i]
    BY <1>2, <1>3, <1>5, <1>8
  <2>3. second[i] \in All(Sources(in))
    BY <2>2 DEF All
  <2> QED
    BY <1>7, <2>1, <2>3
<1> QED
  BY <1>9, <1>10, <1>11

(* Without drift, the overlay that C13 makes of a key is of the endpoint and the
   parser of every source that has the key. *)
LEMMA OverlaysCover ==
    ASSUME NEW in, Lists(in), NoDrift(in), NEW t \in All(Sources(in))
    PROVE  /\ IsFiniteSet(All(OverlayDocument(in).overlays))
           /\ \E o \in All(OverlayDocument(in).overlays) : o.endpoint = t.endpoint /\ BaseParser(o) = BaseParser(t)
<1> DEFINE src     == Sources(in)
           keys    == {OverlayKey(s) : s \in All(src)}
           keyOf   == [s \in All(src) |-> OverlayKey(s)]
           overlay == [key \in keys |->
                        [endpoint |-> FirstOf(src, key).endpoint, task |-> FirstOf(src, key).task,
                         method |-> FirstOf(src, key).method, rva |-> FirstOf(src, key).rva,
                         fields |-> FirstOf(src, key).fields, provenance |-> Provenance(src, key)]]
<1>1. IsList(src)
  BY SourcesCover
<1>2. DOMAIN src \subseteq Nat /\ IsFiniteSet(All(src))
  BY <1>1, ListsAreFinite
<1>3. EffectiveOverlays(src) = {overlay[key] : key \in keys}
  BY DEF EffectiveOverlays
<1>4. IsFiniteSet(EffectiveOverlays(src))
  <2>1. IsFiniteSet({keyOf[s] : s \in All(src)})
    BY <1>2, ImageIsFinite
  <2>2. {keyOf[s] : s \in All(src)} = keys
    OBVIOUS
  <2>3. IsFiniteSet(keys)
    BY <2>1, <2>2
  <2> HIDE DEF keys
  <2>4. IsFiniteSet({overlay[key] : key \in keys})
    BY <2>3, ImageIsFinite
  <2> QED
    BY <1>3, <2>4
<1>5. All(OverlayDocument(in).overlays) = EffectiveOverlays(src)
  BY <1>4, InSomeOrder DEF OverlayDocument
<1> DEFINE places == {i \in DOMAIN src : OverlayKey(src[i]) = OverlayKey(t)}
<1>6. PICK j \in DOMAIN src : src[j] = t
  BY DEF All
<1>7. Min(places) \in places
  BY <1>2, <1>6, MinIsLeast
<1>8. FirstOf(src, OverlayKey(t)) = src[Min(places)]
  BY DEF FirstOf
<1>9. src[Min(places)].endpoint = t.endpoint /\ BaseParser(src[Min(places)]) = BaseParser(t)
  BY <1>6, <1>7 DEF NoDrift, EffectiveDrift
<1>10. overlay[OverlayKey(t)] \in EffectiveOverlays(src)
  BY <1>3
<1>11. /\ overlay[OverlayKey(t)].endpoint = FirstOf(src, OverlayKey(t)).endpoint
       /\ BaseParser(overlay[OverlayKey(t)]) = BaseParser(FirstOf(src, OverlayKey(t)))
  BY DEF BaseParser
<1> QED
  BY <1>4, <1>5, <1>8, <1>9, <1>10, <1>11

(* The rows that get an invented {}: their route has one endpoint in the inputs,
   whose fields are all optional, that mutates nothing and has no parser beyond
   the envelope, if overlays and catalog come from the inputs that the build
   has confirmed. *)
LEMMA EligibleRowsAreHarmless ==
    ASSUME NEW v \in DOMAIN Versions, Combines(<<v, v>>), ResultOK(Versions[v], Versions[v].expected),
           NEW row \in All(CatalogFrom(<<v, v>>).routes), ConservativeEligible(row) \/ OmissionEligible(row)
    PROVE  /\ ~Mutates(Versions[v], row.route)
           /\ ~MustHave(Versions[v], row.route)
           /\ ~BeyondEnvelope(Versions[v], row.route)
<1> DEFINE in    == Versions[v]
           D     == BuildSemanticDb(in)
           ix    == SemanticIndex(D)
           doc   == OverlayDocument(in)
           r     == row.route
           first == row.endpoints[1]
<1>1. Lists(in) /\ NoDrift(in) /\ OverlaysAccept(doc, ix, {})
  BY EvidenceAssumption DEF Combines, IndexOf, All
<1>2. IsFiniteSet(ix)
  BY <1>1, IndexIsFinite
<1>3. row \in All(EffectiveCatalog(ix, doc).routes)
  BY DEF CatalogFrom, IndexOf
<1>4. ~Ambiguous(row) /\ first.mutations = 0 /\ OnlyEnvelope(first)
  BY DEF ConservativeEligible, OmissionEligible, Servable
<1>5. \A f \in All(first.concrete) : f.req \in Optional
  BY DEF ConservativeEligible, OmissionEligible, All
<1>6. ASSUME NEW e \in RouteCandidates(ix, r)
      PROVE  RouteCandidates(ix, r) = {e} /\ first = EffectiveEndpoint(e, doc)
  BY <1>2, <1>3, <1>4, <1>6, RowOfOneEndpoint
<1>7. ASSUME NEW x \in All(in.rows), x.route = r
      PROVE  EndpointContract(D, x) \in RouteCandidates(ix, r)
  BY <1>7, TablesOfInputs DEF RouteCandidates, SemanticIndex, EndpointContract
<1>8. ASSUME Mutates(in, r) PROVE FALSE
  <2>1. PICK n \in DOMAIN in.c7a : \E c \in All(in.c7a[n].candidates) : c.route = r
    BY <1>8 DEF Mutates, All
  <2>2. PICK i \in DOMAIN in.c7a[n].candidates : in.c7a[n].candidates[i].route = r
    BY <2>1 DEF All
  <2> DEFINE c == in.c7a[n].candidates[i]
  <2>3. Matching(in, c) # {}
    <3>1. UnmatchedCandidates(in) = {}
      BY DEF ResultOK
    <3>2. Matching(in, c) = {} => <<n, i>> \in UnmatchedCandidates(in)
      BY DEF UnmatchedCandidates
    <3> QED
      BY <3>1, <3>2
  <2>4. PICK x \in All(in.rows) : Identity(x) = Identity(c)
    BY <2>3 DEF Matching
  <2>5. x.route = r
    BY <2>2, <2>4 DEF Identity
  <2>6. <<x.id, n>> \in MutationLinks(in)
    BY <2>2, <2>4 DEF MutationLinks, Matching, All
  <2>7. EndpointContract(D, x).mutations # 0
    BY <1>1, <2>6, LinkedEndpointsMutate
  <2>8. first = EffectiveEndpoint(EndpointContract(D, x), doc)
    BY <1>6, <1>7, <2>5
  <2>9. first.mutations = EndpointContract(D, x).mutations
    BY <2>8 DEF EffectiveEndpoint
  <2> QED
    BY <1>4, <2>7, <2>9
<1>9. ASSUME MustHave(in, r) PROVE FALSE
  <2>1. PICK f \in All(in.fields), x \in All(in.rows) : x.route = r /\ f.endpoint = x.id /\ f.req \notin Optional
    BY <1>9 DEF MustHave
  <2>2. PICK k \in DOMAIN in.fields : in.fields[k] = f
    BY DEF All
  <2>3. D.fields = in.fields
    BY TablesOfInputs
  <2> HIDE DEF D
  <2>4. EndpointContract(D, x).fields = [i \in {j \in DOMAIN D.fields : D.fields[j].endpoint = x.id} |-> D.fields[i]]
    BY DEF EndpointContract, RestrictValues, Restrict
  <2>5. f \in All(EndpointContract(D, x).fields)
    BY <2>1, <2>2, <2>3, <2>4 DEF All
  <2>6. first = EffectiveEndpoint(EndpointContract(D, x), doc)
    BY <1>6, <1>7, <2>1
  <2>7. first.concrete = EndpointContract(D, x).fields
    BY <2>6 DEF EffectiveEndpoint
  <2> QED
    BY <1>5, <2>1, <2>5, <2>7
<1>10. ASSUME BeyondEnvelope(in, r) PROVE FALSE
  <2> DEFINE envelope == [task |-> "Stage.BaseTask", method |-> "Stage.BaseTask$$Parse"]
  <2>1. PICK s \in All(in.c12) \cup Kept(in.c11) : s.endpoint.route = r /\ BaseParser(s) # envelope
    BY <1>10 DEF BeyondEnvelope
  <2>2. PICK t \in All(Sources(in)) : t.endpoint = s.endpoint /\ BaseParser(t) = BaseParser(s)
    BY <1>1, SourcesCover
  <2>3. PICK o \in All(doc.overlays) : o.endpoint = t.endpoint /\ BaseParser(o) = BaseParser(t)
    BY <1>1, OverlaysCover
  <2>4. {e.route : e \in {f \in ix : f.id = o.endpoint.id}} = {o.endpoint.route}
    <3> HIDE DEF doc, ix
    <3> QED
      BY <1>1, <2>3 DEF OverlaysAccept, Unique
  <2>5. PICK e \in ix : e.id = o.endpoint.id /\ e.route = r
    BY <2>1, <2>2, <2>3, <2>4
  <2> DEFINE S   == EndpointOverlays(doc, e.id)
             own == SetToSeq(S)
  <2>6. o \in S
    BY <2>5 DEF EndpointOverlays
  <2>7. IsFiniteSet(S)
    BY <1>1, OverlaysCover, FS_Subset DEF EndpointOverlays
  <2>8. All(own) = S
    BY <2>7, InSomeOrder
  <2>9. PICK i \in DOMAIN own : own[i] = o
    BY <2>6, <2>8 DEF All
  <2>10. first = EffectiveEndpoint(e, doc)
    BY <1>6, <2>5 DEF RouteCandidates
  <2>11. i \in DOMAIN first.parsers /\ first.parsers[i].scope = ResponseScope(o)
    BY <2>9, <2>10 DEF EffectiveEndpoint
  <2>12. ResponseScope(o) # "common-envelope"
    BY <2>1, <2>2, <2>3 DEF ResponseScope
  <2> QED
    BY <1>4, <2>11, <2>12 DEF OnlyEnvelope, All
<1> QED
  BY <1>8, <1>9, <1>10

(* What ResponseTemplateStore.load and the check of main accept dispatches by
   path alone: the CHOOSE of StoreOf takes an entry that has been compared. *)
LEMMA AcceptedStoreDispatches ==
    ASSUME NEW doc, NEW ix, StoreAccepts(doc, ix),
           Keys(StoreOf(doc)) \cap BootstrapRoutes = {},
           NEW r \in Keys(StoreOf(doc))
    PROVE  /\ {e.id : e \in RouteCandidates(ix, r)} = {StoreOf(doc)[r].id}
           /\ r \notin BootstrapRoutes
<1> DEFINE entry == CHOOSE f \in All(doc.entries) : f.route = r
<1>1. r \in {f.route : f \in All(doc.entries)}
  BY DEF StoreOf, Keys
<1>2. entry \in All(doc.entries) /\ entry.route = r
  BY <1>1
<1>3. SameIdentity(ix, r, entry.id)
  BY <1>2 DEF StoreAccepts, Unique
<1>4. StoreOf(doc)[r] = Template(entry.id, entry.data)
  BY <1>1 DEF StoreOf
<1>5. StoreOf(doc)[r].id = entry.id
  BY <1>4 DEF Template
<1> QED
  BY <1>3, <1>5 DEF SameIdentity

(* An index that a reader has accepted holds no empty route. *)
LEMMA AcceptedIndexHasRoutes ==
    ASSUME NEW content, IndexAccepts(content, {})
    PROVE  \A e \in SemanticIndex(content) : e.route # "/"
<1>1. \A row \in All(content.endpoints) : row.route # "/"
  BY DEF IndexAccepts, Unique
<1>2. \A row : EndpointContract(content, row).route = row.route
  BY DEF EndpointContract
<1> QED
  BY <1>1, <1>2 DEF SemanticIndex

(* What a step that leaves launchers and their memory alone keeps of them. *)
LEMMA StagesKeepMemory ==
    ASSUME IInv, UNCHANGED <<templates, pc, index, held>>
    PROVE  Memory' /\ DispatchIsUnambiguous' /\ TemplatesMade'
<1>1. Memory' /\ DispatchIsUnambiguous'
  BY DEF IInv, Memory, DispatchIsUnambiguous, Serving
<1>2. TemplatesMade'
  BY DEF IInv, TemplatesMade, CompiledBy, Serving
<1> QED
  BY <1>1, <1>2

(* The inputs are a sequence, so that the next one exists. *)
LEMMA InputsAreNumbered == DOMAIN Versions = 1..Len(Versions) /\ Len(Versions) \in Nat \ {0}
BY EvidenceAssumption

(* The start. *)
LEMMA InitHolds == Init => IInv
<1> SUFFICES ASSUME Init PROVE IInv
  OBVIOUS
<1>1. TypeOK
  BY InputsAreNumbered DEF Init, TypeOK, Nothing
<1>2. Shapes
  BY DEF Init, Shapes
<1>3. Memory
  BY DEF Init, Memory
<1>4. DispatchIsUnambiguous
  BY DEF Init, DispatchIsUnambiguous, Serving
<1>5. FilesMade
  BY DEF Init, FilesMade, Torn
<1>6. TemplatesMade
  BY DEF Init, TemplatesMade, Serving
<1> QED
  BY <1>1, <1>2, <1>3, <1>4, <1>5, <1>6 DEF IInv

(* The stages, each of which another run of it or a kill may cut off. *)
LEMMA StagesHold ==
    ASSUME IInv, Stage
    PROVE  IInv'
<1>0. TypeOK /\ Shapes /\ FilesMade
  BY DEF IInv
<1>1. CASE Advance
  <2>1. TypeOK'
    BY <1>0, <1>1, InputsAreNumbered DEF TypeOK, Advance, files
  <2>2. Shapes'
    BY <1>0, <1>1 DEF Shapes, Advance, files
  <2>3. FilesMade'
    BY <1>0, <1>1 DEF FilesMade, Advance, files
  <2> QED
    BY <1>1, <2>1, <2>2, <2>3, StagesKeepMemory DEF IInv, Advance, files
<1>2. CASE CopyDb
  <2>1. TypeOK'
    BY <1>0, <1>2, InputsAreNumbered DEF TypeOK, CopyDb
  <2>2. Shapes'
    BY <1>0, <1>2, InputsAreNumbered DEF TypeOK, Shapes, CopyDb
  <2>3. ~(SchemaObjects \subseteq db'.content.objects)
    BY <1>2 DEF CopyDb, C6Copy, C6Objects, SchemaObjects
  <2>4. FilesMade'
    BY <1>0, <1>2, <2>3 DEF FilesMade, CopyDb
  <2> QED
    BY <1>2, <2>1, <2>2, <2>4, StagesKeepMemory DEF IInv, CopyDb
<1>3. CASE MakeTables
  <2>1. db' = [made |-> db.made, content |-> WithTables(Input)]
    BY <1>0, <1>3 DEF Shapes, MakeTables
  <2>2. TypeOK'
    BY <1>0, <1>3, <2>1 DEF TypeOK, MakeTables
  <2>3. Shapes'
    BY <1>0, <1>3, <2>1, InputsAreNumbered DEF TypeOK, Shapes, MakeTables
  <2>4. ~(SchemaObjects \subseteq db'.content.objects)
    BY <2>1 DEF WithTables, C6Copy, SchemaObjects
  <2>5. FilesMade'
    BY <1>0, <1>3, <2>4 DEF FilesMade, MakeTables
  <2> QED
    BY <1>3, <2>2, <2>3, <2>5, StagesKeepMemory DEF IInv, MakeTables
<1>4. CASE FailDb
  <2>1. TypeOK'
    BY <1>0, <1>4 DEF TypeOK, FailDb, files
  <2>2. Shapes'
    BY <1>0, <1>4 DEF Shapes, FailDb, files
  <2>3. FilesMade'
    BY <1>0, <1>4 DEF FilesMade, FailDb, files
  <2> QED
    BY <1>4, <2>1, <2>2, <2>3, StagesKeepMemory DEF IInv, FailDb, files
<1>5. CASE CommitDb
  <2>1. db' = [made |-> db.made, content |-> BuildSemanticDb(Input)]
    BY <1>0, <1>5 DEF Shapes, CommitDb
  <2>2. TypeOK'
    BY <1>0, <1>5, <2>1, InputsAreNumbered DEF TypeOK, CommitDb
  <2>3. Shapes'
    BY <1>0, <1>5, <2>1, InputsAreNumbered DEF TypeOK, Shapes, CommitDb
  <2>4. db'.content = BuildSemanticDb(Versions[db'.made])
    BY <1>0, <1>5, <2>1 DEF TypeOK, CommitDb, Input
  <2>5. \A v \in confirmed' : ResultOK(Versions[v], Versions[v].expected)
    BY <1>0, <1>5 DEF FilesMade, CommitDb, Input
  <2>6. FilesMade'
    BY <1>0, <1>5, <2>4, <2>5 DEF FilesMade, CommitDb
  <2> QED
    BY <1>5, <2>2, <2>3, <2>6, StagesKeepMemory DEF IInv, CommitDb
<1>6. CASE KillDb
  <2>1. PICK left \in {db.content, Torn} : db' = [made |-> db.made, content |-> left]
    BY <1>0, <1>6 DEF Shapes, KillDb
  <2>2. TypeOK'
    BY <1>0, <1>6, <2>1 DEF TypeOK, KillDb
  <2>3. Shapes'
    BY <1>0, <1>6, <2>1, InputsAreNumbered DEF TypeOK, Shapes, KillDb
  <2>4. db'.content.quick => db' = db
    BY <1>0, <2>1 DEF Shapes, Torn
  <2>5. FilesMade'
    BY <1>0, <1>6, <2>4 DEF FilesMade, KillDb
  <2> QED
    BY <1>6, <2>2, <2>3, <2>5, StagesKeepMemory DEF IInv, KillDb
<1>7. CASE BuildOverlays
  <2>1. TypeOK'
    BY <1>0, <1>7, InputsAreNumbered DEF TypeOK, BuildOverlays
  <2>2. Shapes'
    BY <1>0, <1>7 DEF Shapes, BuildOverlays
  <2>3. NoDrift(Versions[overlays'.made]) /\ overlays'.content = OverlayDocument(Versions[overlays'.made])
    BY <1>7 DEF BuildOverlays, NoDrift, Input
  <2>4. FilesMade'
    BY <1>0, <1>7, <2>3 DEF FilesMade, BuildOverlays
  <2> QED
    BY <1>7, <2>1, <2>2, <2>4, StagesKeepMemory DEF IInv, BuildOverlays
<1>8. CASE ExportCatalog
  <2>1. db.made \in 1..version
    <3>1. db.content.quick
      BY <1>8 DEF ExportCatalog, Readable
    <3>2. db.made # 0
      BY <1>0, <3>1 DEF Shapes, Torn
    <3> QED
      BY <1>0, <3>2, InputsAreNumbered DEF TypeOK
  <2>2. overlays.made \in 1..version
    BY <1>0, <1>8 DEF TypeOK, ExportCatalog
  <2>3. TypeOK'
    BY <1>0, <1>8, <2>1, <2>2 DEF TypeOK, ExportCatalog
  <2>4. Shapes'
    BY <1>0, <1>8 DEF Shapes, ExportCatalog
  <2>5. db.content = BuildSemanticDb(Versions[db.made])
    BY <1>0, <1>8 DEF FilesMade, ExportCatalog, Readable, IndexAccepts, Unique
  <2>6. /\ NoDrift(Versions[overlays.made])
        /\ overlays.content = OverlayDocument(Versions[overlays.made])
    BY <1>0, <1>8 DEF FilesMade, ExportCatalog
  <2>7. catalog' = [made |-> <<db.made, overlays.made>>, content |-> CatalogFrom(<<db.made, overlays.made>>)]
    BY <1>8, <2>5, <2>6 DEF ExportCatalog, CatalogFrom, IndexOf
  <2>8. Combines(<<db.made, overlays.made>>)
    <3>1. db.made \in DOMAIN Versions /\ overlays.made \in DOMAIN Versions
      BY <1>0, <2>1, <2>2, InputsAreNumbered DEF TypeOK
    <3>2. OverlaysAccept(OverlayDocument(Versions[overlays.made]), IndexOf(db.made), {})
      BY <1>8, <2>5, <2>6 DEF ExportCatalog, IndexOf
    <3> QED
      BY <2>6, <3>1, <3>2 DEF Combines
  <2>9. FilesMade'
    BY <1>0, <1>8, <2>7, <2>8 DEF FilesMade, ExportCatalog
  <2> QED
    BY <1>8, <2>3, <2>4, <2>9, StagesKeepMemory DEF IInv, ExportCatalog
<1> QED
  BY <1>1, <1>2, <1>3, <1>4, <1>5, <1>6, <1>7, <1>8 DEF Stage

(* A launcher's step leaves the versions of the stages' files alone. *)
LEMMA LaunchersKeepFiles ==
    ASSUME NEW l \in Launchers, Launch(l)
    PROVE  UNCHANGED <<version, build, confirmed, db, overlays, catalog>>
BY DEF Launch, Compile, CompileFails, Truncate, Write, LoadIndexFile, Serve, Refuse, Kill, files

(* TypeOK, by the place of one launcher: where it may be, that it writes to a
   file that exists, and that its index has no empty route. *)
Place(m) ==
    /\ pc[m] \in {"start", "compiled", "writing", "launched", "indexed", "serving", "end"}
    /\ pc[m] = "writing" => templates.state # "none"
    /\ pc[m] \in {"indexed", "serving"} => \A e \in index[m].content : e.route # "/"
OnePort == \A l, m \in Launchers : pc[l] = "serving" /\ pc[m] = "serving" => l = m

(* A step of one launcher moves it to a place it may be in, and nobody else. *)
LEMMA LaunchersKeepTypes ==
    ASSUME IInv, NEW l \in Launchers, Launch(l)
    PROVE  TypeOK'
<1>0. TypeOK /\ Shapes /\ Memory
  BY DEF IInv
<1>1. (\A m \in Launchers : Place(m)) /\ OnePort
  BY <1>0 DEF TypeOK, Place, OnePort
<1>2. ASSUME NEW m \in Launchers PROVE Place(m)'
  <2>0. Place(m)
    BY <1>1
  <2>1. CASE Compile(l)
    BY <1>0, <2>0, <2>1 DEF Memory, Place, Compile, Goto, files
  <2>2. CASE CompileFails(l)
    BY <1>0, <2>0, <2>2 DEF Memory, Place, CompileFails, Goto, files
  <2>3. CASE Truncate(l)
    BY <1>0, <2>0, <2>3 DEF Memory, Place, Truncate, Goto
  <2>4. CASE Write(l)
    BY <1>0, <2>0, <2>4 DEF Memory, Place, Write, Goto
  <2>5. CASE LoadIndexFile(l)
    <3>1. \A e \in SemanticIndex(db.content) : e.route # "/"
      BY <2>5, AcceptedIndexHasRoutes DEF LoadIndexFile, Readable
    <3>2. index'[m] = IF m = l THEN [made |-> db.made, content |-> SemanticIndex(db.content)] ELSE index[m]
      BY <1>0, <2>5 DEF Memory, LoadIndexFile
    <3> QED
      BY <1>0, <2>0, <2>5, <3>1, <3>2 DEF Memory, Place, LoadIndexFile, Goto, files
  <2>6. CASE Serve(l)
    BY <1>0, <2>0, <2>6 DEF Memory, Place, Serve, Goto, files
  <2>7. CASE Refuse(l)
    BY <1>0, <2>0, <2>7 DEF Memory, Place, Refuse, files
  <2>8. CASE Kill(l)
    BY <1>0, <2>0, <2>8 DEF Memory, Place, Kill, files
  <2> QED
    BY <2>1, <2>2, <2>3, <2>4, <2>5, <2>6, <2>7, <2>8 DEF Launch
<1>3. OnePort'
  <2>1. CASE Serve(l)
    BY <1>0, <1>1, <2>1 DEF Memory, OnePort, Serve, Goto
  <2>2. CASE ~Serve(l)
    <3>1. \A m \in Launchers : pc'[m] = "serving" => pc[m] = "serving"
      BY <1>0, <2>2 DEF Memory, Launch, Compile, CompileFails, Truncate, Write, LoadIndexFile, Refuse, Kill, Goto
    <3> QED
      BY <1>1, <3>1 DEF OnePort
  <2> QED
    BY <2>1, <2>2
<1> QED
  BY <1>0, <1>2, <1>3, LaunchersKeepFiles DEF TypeOK, Place, OnePort

(* A whole document in the shared file has a content, and memory is kept for
   every launcher. *)
LEMMA LaunchersKeepShapes ==
    ASSUME IInv, NEW l \in Launchers, Launch(l)
    PROVE  Shapes' /\ Memory'
<1>0. Shapes /\ Memory
  BY DEF IInv
<1>1. db' = db
  BY LaunchersKeepFiles
<1>2. CASE Compile(l)
  <2>1. PICK compiled : held' = [held EXCEPT ![l] = compiled]
    BY <1>2 DEF Compile
  <2> QED
    BY <1>0, <1>1, <1>2, <2>1 DEF Shapes, Memory, Compile, Goto, files
<1>3. CASE CompileFails(l)
  BY <1>0, <1>1, <1>3 DEF Shapes, Memory, CompileFails, Goto, files
<1>4. CASE Truncate(l)
  BY <1>0, <1>1, <1>4 DEF Shapes, Memory, Truncate, Goto
<1>5. CASE Write(l)
  BY <1>0, <1>1, <1>5 DEF Shapes, Memory, Write, Goto
<1>6. CASE LoadIndexFile(l)
  BY <1>0, <1>1, <1>6 DEF Shapes, Memory, LoadIndexFile, Goto, files
<1>7. CASE Serve(l)
  <2>1. PICK served : held' = [held EXCEPT ![l] = served]
    BY <1>7 DEF Serve
  <2> QED
    BY <1>0, <1>1, <1>7, <2>1 DEF Shapes, Memory, Serve, Goto, files
<1>8. CASE Refuse(l)
  BY <1>0, <1>1, <1>8 DEF Shapes, Memory, Refuse, files
<1>9. CASE Kill(l)
  BY <1>0, <1>1, <1>9 DEF Shapes, Memory, Kill, files
<1> QED
  BY <1>2, <1>3, <1>4, <1>5, <1>6, <1>7, <1>8, <1>9 DEF Launch

(* Who serves after a step served before it, with the same memory, or has just
   been accepted. *)
LEMMA LaunchersKeepDispatch ==
    ASSUME IInv, NEW l \in Launchers, Launch(l)
    PROVE  DispatchIsUnambiguous'
<1>0. Shapes /\ Memory /\ DispatchIsUnambiguous
  BY DEF IInv
<1> SUFFICES ASSUME NEW m \in Launchers, Serving(m)', NEW r \in Keys(held'[m].content)
             PROVE  /\ {e.id : e \in RouteCandidates(index'[m].content, r)} = {held'[m].content[r].id}
                    /\ r \notin BootstrapRoutes
  BY DEF DispatchIsUnambiguous
<1>1. CASE Serve(l) /\ m = l
  <2>1. held'[l].content = StoreOf(templates.content)
    BY <1>0, <1>1 DEF Shapes, Memory, Serve, TemplatesAccepted
  <2>2. index'[l].content = index[l].content
    BY <1>1 DEF Serve
  <2>3. StoreAccepts(templates.content, index[l].content) /\ Keys(StoreOf(templates.content)) \cap BootstrapRoutes = {}
    BY <1>1 DEF Serve, TemplatesAccepted
  <2> QED
    BY <1>1, <2>1, <2>2, <2>3, AcceptedStoreDispatches
<1>2. CASE ~(Serve(l) /\ m = l)
  <2>1. pc[m] = "serving" /\ held'[m] = held[m] /\ index'[m] = index[m]
    BY <1>0, <1>2 DEF Memory, Serving, Launch, Compile, CompileFails, Truncate, Write, LoadIndexFile, Serve, Refuse, Kill, Goto
  <2> QED
    BY <1>0, <2>1 DEF DispatchIsUnambiguous, Serving
<1> QED
  BY <1>1, <1>2

(* What a launcher compiles has the catalog that it has read for its origin; it
   is the same on the way through the file and into a server. *)
LEMMA LaunchersKeepOrigins ==
    ASSUME IInv, NEW l \in Launchers, Launch(l)
    PROVE  FilesMade' /\ TemplatesMade'
<1> DEFINE Waits(m)   == CompiledBy(held[m])
                         /\ held[m].content = Document(CompiledFrom(held[m].made[2], held[m].given))
           Serves(m)  == CompiledBy(held[m])
                         /\ held[m].content = StoreOf(Document(CompiledFrom(held[m].made[2], held[m].given)))
           Written    == templates.state = "whole" =>
                            CompiledBy(templates)
                            /\ templates.content = Document(CompiledFrom(templates.made[2], templates.given))
           Holds(m)   == (pc[m] \in {"compiled", "writing"} => Waits(m)) /\ (pc[m] = "serving" => Serves(m))
<1>0. Shapes /\ Memory /\ FilesMade /\ Written /\ \A m \in Launchers : Holds(m)
  BY DEF IInv, TemplatesMade, Serving
<1>1. FilesMade'
  BY <1>0, LaunchersKeepFiles DEF FilesMade
<1>2. ASSUME Written', \A m \in Launchers : Holds(m)'
      PROVE  TemplatesMade'
  BY <1>2 DEF TemplatesMade, Serving
<1>3. CASE Compile(l)
  <2>1. PICK o \in Options :
           held' = [held EXCEPT ![l] =
              [made |-> <<db.made, catalog.made>>, given |-> o,
               content |-> Document(Compiled(catalog.content, o.reports, o.explicit))]]
    BY <1>3 DEF Compile
  <2>2. Combines(catalog.made) /\ catalog.content = CatalogFrom(catalog.made)
    BY <1>0, <1>3 DEF FilesMade, Compile
  <2>3. held'[l] = [made |-> <<db.made, catalog.made>>, given |-> o,
                    content |-> Document(CompiledFrom(catalog.made, o))]
    BY <1>0, <2>1, <2>2 DEF Memory, CompiledFrom
  <2>4. Waits(l)'
    BY <2>2, <2>3 DEF CompiledBy
  <2>5. pc'[l] = "compiled" /\ \A m \in Launchers : m # l => pc'[m] = pc[m] /\ held'[m] = held[m]
    BY <1>0, <1>3, <2>1 DEF Memory, Compile, Goto
  <2>6. \A m \in Launchers : Holds(m)'
    BY <1>0, <2>4, <2>5 DEF CompiledBy
  <2>7. Written'
    BY <1>0, <1>3 DEF Compile, files, CompiledBy
  <2> QED
    BY <1>1, <1>2, <2>6, <2>7
<1>4. CASE Write(l)
  <2>1. \/ templates' = [state |-> "whole", made |-> held[l].made, given |-> held[l].given, content |-> held[l].content]
        \/ templates' = [state |-> "torn", mixed |-> TRUE]
    BY <1>4 DEF Write
  <2>2. Waits(l)
    BY <1>0, <1>4 DEF Write, Goto
  <2>3. Written'
    <3>1. CASE templates'.state = "whole"
      BY <2>1, <2>2, <3>1 DEF CompiledBy
    <3> QED
      BY <3>1
  <2>4. \A m \in Launchers : Holds(m)'
    BY <1>0, <1>4 DEF Memory, Write, Goto, CompiledBy
  <2> QED
    BY <1>1, <1>2, <2>3, <2>4
<1>5. CASE Serve(l)
  <2>1. templates = [state |-> "whole", made |-> templates.made, given |-> templates.given, content |-> templates.content]
    BY <1>0, <1>5 DEF Serve, TemplatesAccepted, Shapes
  <2>2. held'[l] = [templates EXCEPT !.content = StoreOf(templates.content)]
    BY <1>0, <1>5 DEF Memory, Serve
  <2>3. /\ held'[l].made = templates.made /\ held'[l].given = templates.given
        /\ held'[l].content = StoreOf(templates.content)
    BY <2>1, <2>2
  <2>4. CompiledBy(templates) /\ templates.content = Document(CompiledFrom(templates.made[2], templates.given))
    BY <1>0, <2>1
  <2>5. Serves(l)'
    BY <2>3, <2>4 DEF CompiledBy
  <2>6. pc'[l] = "serving" /\ \A m \in Launchers : m # l => pc'[m] = pc[m] /\ held'[m] = held[m]
    BY <1>0, <1>5 DEF Memory, Serve, Goto
  <2>7. \A m \in Launchers : Holds(m)'
    BY <1>0, <2>5, <2>6 DEF CompiledBy
  <2>8. Written'
    BY <1>0, <1>5 DEF Serve, files, CompiledBy
  <2> QED
    BY <1>1, <1>2, <2>7, <2>8
<1>6. CASE Truncate(l)
  <2>1. Written'
    BY <1>6 DEF Truncate
  <2>2. \A m \in Launchers : Holds(m)'
    BY <1>0, <1>6 DEF Memory, Truncate, Goto, CompiledBy
  <2> QED
    BY <1>1, <1>2, <2>1, <2>2
<1>7. CASE CompileFails(l) \/ LoadIndexFile(l) \/ Refuse(l) \/ Kill(l)
  <2>1. templates' = templates /\ held' = held
    BY <1>7 DEF CompileFails, LoadIndexFile, Refuse, Kill, files
  <2>2. \A m \in Launchers : pc'[m] \in {"compiled", "writing", "serving"} => pc'[m] = pc[m]
    BY <1>0, <1>7 DEF Memory, CompileFails, LoadIndexFile, Refuse, Kill, Goto
  <2>3. Written' /\ \A m \in Launchers : Holds(m)'
    BY <1>0, <2>1, <2>2 DEF CompiledBy
  <2> QED
    BY <1>1, <1>2, <2>3
<1> QED
  BY <1>3, <1>4, <1>5, <1>6, <1>7 DEF Launch

(* The invariant of the pipeline, for any inputs, options and number of launchers. *)
THEOREM InductiveInvariant == Spec => []IInv
<1>1. Init => IInv
  BY InitHolds
<1>2. IInv /\ [Next]_vars => IInv'
  <2> SUFFICES ASSUME IInv, [Next]_vars
               PROVE  IInv'
    OBVIOUS
  <2>1. CASE Stage
    BY <2>1, StagesHold
  <2>2. ASSUME NEW l \in Launchers, Launch(l) PROVE IInv'
    BY <2>2, LaunchersKeepTypes, LaunchersKeepShapes, LaunchersKeepDispatch, LaunchersKeepOrigins DEF IInv
  <2>3. CASE UNCHANGED vars
    <3>1. TypeOK' /\ Shapes' /\ FilesMade'
      BY <2>3 DEF vars, files, IInv, TypeOK, Shapes, FilesMade
    <3> QED
      BY <2>3, <3>1, StagesKeepMemory DEF vars, files, IInv
  <2> QED
    BY <2>1, <2>2, <2>3 DEF Next
<1> QED
  BY <1>1, <1>2, PTL DEF Spec

(* The types, and the one port. *)
THEOREM TypeCorrect == Spec => []TypeOK
<1>1. IInv => TypeOK
  BY DEF IInv
<1> QED
  BY <1>1, InductiveInvariant, PTL

(* Every answer from a template goes to the one endpoint of its path in the
   database of that server, and to no bootstrap endpoint. *)
THEOREM ServersDispatch == Spec => []DispatchIsUnambiguous
<1>1. IInv => DispatchIsUnambiguous
  BY DEF IInv
<1> QED
  BY <1>1, InductiveInvariant, PTL

(* An invented {} is harmless where the catalog was made of confirmed inputs. *)
THEOREM InventedAnswersAreHarmless == Spec => []EmptyIsHarmless
<1>1. IInv => EmptyIsHarmless
  <2> SUFFICES ASSUME IInv, NEW l \in Launchers, NEW v \in confirmed, Serving(l), held[l].made[2] = <<v, v>>,
                      NEW r \in Keys(held[l].content), ~Elsewhere(held[l].given, r)
               PROVE  ~Mutates(Versions[v], r) /\ ~MustHave(Versions[v], r) /\ ~BeyondEnvelope(Versions[v], r)
    BY DEF EmptyIsHarmless
  <2> DEFINE m     == <<v, v>>
             o     == held[l].given
             store == Compiled(CatalogFrom(m), o.reports, o.explicit)
  <2>1. /\ Combines(m) /\ o \in Options
        /\ held[l].content = StoreOf(Document(store))
    BY DEF IInv, TemplatesMade, CompiledBy, CompiledFrom
  <2>2. v \in DOMAIN Versions /\ ResultOK(Versions[v], Versions[v].expected)
    BY <2>1 DEF IInv, FilesMade, Combines
  <2>3. IsFiniteSet(All(CatalogFrom(m).routes))
    <3>1. Lists(Versions[v])
      BY <2>2, EvidenceAssumption DEF All
    <3>2. IsFiniteSet(IndexOf(v))
      BY <3>1, IndexIsFinite DEF IndexOf
    <3> QED
      BY <3>2, RowsOfCatalog DEF CatalogFrom
  <2>4. IsFiniteSet(Keys(store))
    BY <2>1, <2>3, CompiledIsFinite
  <2>5. r \in Keys(store)
    BY <2>1, <2>4, DocumentKeepsKeys
  <2>6. PICK row \in All(CatalogFrom(m).routes) : row.route = r /\ (ConservativeEligible(row) \/ OmissionEligible(row))
    BY <2>1, <2>5, InventedComesFromCatalog
  <2> QED
    BY <2>1, <2>2, <2>6, EligibleRowsAreHarmless
<1> QED
  BY <1>1, InductiveInvariant, PTL
=============================================================================
