------------------------- MODULE BoundaryLoaderProofs ------------------------
(***************************************************************************)
(* What keeps the loads of administrative areas apart, and what they may   *)
(* do to the chain of a report, for any number of reports, points,         *)
(* countries and failures.  First the in-flight set and the gates: a       *)
(* country has one loader, so what its gate saw of the layer stays true.   *)
(* Then the ranks: what a loader resolved for a report at a point that     *)
(* only its own country has areas at is still the best when it stores it,  *)
(* because only this loader adds areas there.  Reports at the points of    *)
(* other countries, and on a border, have no such guarantee.               *)
(***************************************************************************)
EXTENDS BoundaryLoader, TLAPS

\* A country has one loader.
OneLoader ==
  \A p, q \in Processes : p # q /\ country[p] # NoCountry => country[p] # country[q]

\* The baseline and the seed are never removed.
BaseInv == {a \in Atlas : a.chain \in {"country", "seed"}} \subseteq areas

\* The chains of the layer that p is storing.
Wanted(p) == IF pc[p] = "codrows" THEN COD ELSE IF pc[p] = "gbrows" THEN GB ELSE {}

RowsOK(p) == rows[p] \subseteq Layer(country[p], Wanted(p))

\* What the gates saw, while nothing fails.
GateOK(p) ==
  faults = 0 =>
    /\ pc[p] \in {"fetchcod", "gb", "fetchgb"} => ~Covered(country[p], COD)
    /\ pc[p] = "fetchgb" => ~Covered(country[p], COD \union GB)

\* What p resolved is for a report it will store it with.
HeldOK(p) == held[p] # "absent" => (pc[p] = "insert") \/ (Regeocoding(p) /\ todo[p] # {})

\* A report that is not inserted yet has no row.
NewOK(p) == pc[p] \in {"new", "insert"} =>
              /\ p \in ReportIds /\ chain[p] = "absent"
              /\ pc[p] = "insert" => held[p] # "absent"

LoaderInv ==
  /\ TypeOK /\ OneLoader /\ BaseInv
  /\ \A p \in Processes : RowsOK(p) /\ GateOK(p) /\ HeldOK(p) /\ NewOK(p)

------------------------------------------------------------------------------
(* Ranks *)

\* No report has more than the best area at its point.
ChainOK(r) == Rank[chain[r]] <= Rank[Resolve(At[r])]

\* No other country has an area of a layer at the point.
Own(c, point) == \A a \in Atlas : a.point = point /\ a.chain \in COD \union GB => a.of = c

\* What p is about to store.
StoreOK(p) ==
  /\ pc[p] = "insert" => Rank[held[p]] <= Rank[Resolve(At[p])]
  /\ Regeocoding(p) /\ held[p] # "absent" =>
       LET r == First(todo[p]) IN
       /\ held[p] # "none"
       /\ Rank[held[p]] <= Rank[Resolve(At[r])]
       /\ Own(country[p], At[r]) => held[p] = Resolve(At[r])

RankInv == LoaderInv /\ (\A r \in ReportIds : ChainOK(r)) /\ (\A p \in Processes : StoreOK(p))

\* The loader that will resolve r again.
Tends(p, r) ==
  \/ pc[p] = "codrows" /\ loaded[p] /\ r \in InCountry(country[p])
  \/ pc[p] = "gbrows" /\ loaded[p] /\ r \in MissingRegion
  \/ Regeocoding(p) /\ r \in todo[p]

\* A report inside an outline has a chain.
Placed(r) == chain[r] = "none" => \A a \in Atlas : a.point = At[r] => a.chain # "country"

\* A report whose chain is not the best any more has a loader.
FreshInv ==
  faults = 0 =>
    \A r \in Stored \ late :
      /\ Placed(r)
      /\ Listed(r) => chain[r] = Resolve(At[r]) \/ \E p \in Processes : Tends(p, r)

\* The action property that the ranks give: only a loader replaces a chain by a
\* lesser one, and only where another country has areas.
OwnOnly == [][\A r \in ReportIds :
                \/ Rank[chain'[r]] >= Rank[chain[r]]
                \/ \E p \in Processes : Regeocoding(p) /\ ~Own(country[p], At[r])]_vars

------------------------------------------------------------------------------
(* Helpers: sets of processes, layers, and the steps of a loader *)

USE DEF Chains, Rank, COD, GB

\* What p does leaves the others as they are.
SameOthers(p) ==
  \A q \in Processes \ {p} :
    /\ pc'[q] = pc[q] /\ country'[q] = country[q] /\ rows'[q] = rows[q]
    /\ held'[q] = held[q] /\ todo'[q] = todo[q] /\ loaded'[q] = loaded[q]

LEMMA ReportsAreProcesses == ReportIds \subseteq Processes /\ Boot \in Processes
  BY DEF Processes

\* The layer of a country is the country's.
LEMMA LayerOfCountry ==
  ASSUME NEW c, NEW ks
  PROVE  /\ Layer(c, ks) \subseteq Atlas
         /\ \A a \in Layer(c, ks) : a.of = c /\ a.chain \in ks
         /\ \A a \in Atlas : a.chain \in ks /\ a.of = c => a \in Layer(c, ks)
  BY DEF Layer

\* Only the seed is of no country.
LEMMA AreasOfAtlas ==
  ASSUME NEW a \in Atlas
  PROVE  /\ a.point \in Points
         /\ a.chain \in {"country", "gb", "seed", "cod1", "cod2"}
         /\ a.of \in Countries \union {NoCountry}
         /\ a.chain # "seed" => a.of \in Countries
         /\ a = [chain |-> a.chain, of |-> a.of, point |-> a.point]
  BY PlacesAssumption DEF Area

\* No outline is added or removed.
LEMMA Outlines ==
  ASSUME LoaderInv, NEW c \in Countries, NEW point \in Points
  PROVE  Outlined(c, point) <=> [chain |-> "country", of |-> c, point |-> point] \in Atlas
  BY DEF Outlined, LoaderInv, TypeOK, BaseInv

\* What other processes count on survives a step that adds areas only in its
\* own country.
LEMMA OthersKeep ==
  ASSUME LoaderInv, NEW p \in Processes, SameOthers(p),
         faults' = 0 => faults = 0,
         areas \subseteq areas',
         \A a \in areas' \ areas : country[p] # NoCountry /\ a.of = country[p],
         \A r \in ReportIds \ {p} : pc[r] \in {"new", "insert"} => chain'[r] = chain[r]
  PROVE  \A q \in Processes \ {p} : RowsOK(q)' /\ GateOK(q)' /\ HeldOK(q)' /\ NewOK(q)'
  <1> SUFFICES ASSUME NEW q \in Processes \ {p}
               PROVE  RowsOK(q)' /\ GateOK(q)' /\ HeldOK(q)' /\ NewOK(q)'
    OBVIOUS
  <1>1. RowsOK(q) /\ GateOK(q) /\ HeldOK(q) /\ NewOK(q)
    BY DEF LoaderInv
  <1>2. /\ pc'[q] = pc[q] /\ country'[q] = country[q] /\ rows'[q] = rows[q]
        /\ held'[q] = held[q] /\ todo'[q] = todo[q]
    BY DEF SameOthers
  <1>3. RowsOK(q)'
    BY <1>1, <1>2 DEF RowsOK, Wanted, Layer
  <1>4. HeldOK(q)'
    BY <1>1, <1>2 DEF HeldOK, Regeocoding
  <1>5. NewOK(q)'
    BY <1>1, <1>2 DEF NewOK
  <1>6. GateOK(q)'
    <2> SUFFICES ASSUME faults' = 0, pc'[q] \in {"fetchcod", "gb", "fetchgb"},
                        NEW ks, ~Covered(country[q], ks)
                 PROVE  ~Covered(country[q], ks)'
      BY <1>1, <1>2 DEF GateOK, Covered
    <2>1. country[q] # NoCountry
      BY <1>2 DEF LoaderInv, TypeOK, Loading
    <2>2. \A a \in areas' \ areas : a \notin Layer(country[q], ks)
      BY <2>1, LayerOfCountry DEF LoaderInv, OneLoader
    <2> QED BY <2>2, <1>2 DEF Covered, Layer
  <1> QED BY <1>3, <1>4, <1>5, <1>6

\* Nothing but what the loader p works with changes.
SameTables == UNCHANGED <<published, areas, chain, late, boot>>

LEMMA SameStored == ASSUME SameTables PROVE Stored' = Stored
  BY DEF SameTables, Stored

\* Failures only add up.
FaultStep == faults' \in 0 .. MaxFaults /\ (faults' = 0 => faults = 0)

\* p goes on with nothing in hand.
LEMMA ProceedKeeps ==
  ASSUME LoaderInv, SameTables, FaultStep, NEW p \in Processes, pc[p] \in Loading,
         NEW label \in {"fetchcod", "covered", "gb", "fetchgb"}, Proceed(p, label),
         rows[p] = {}, held[p] = "absent", GateOK(p)'
  PROVE  LoaderInv'
  <1> USE PlacesAssumption
  <1>1. SameOthers(p)
    BY DEF SameOthers, Proceed, Goto, work, LoaderInv, TypeOK
  <1>2. /\ pc'[p] = label /\ pc' = [pc EXCEPT ![p] = label]
        /\ UNCHANGED <<inflight, country, held, rows, loaded, todo>>
    BY DEF Proceed, Goto, work, LoaderInv, TypeOK
  <1>3. TypeOK'
    BY <1>2 DEF LoaderInv, TypeOK, SameTables, FaultStep, boot, Stored, Loading
  <1>4. OneLoader' /\ BaseInv'
    BY <1>2 DEF LoaderInv, OneLoader, BaseInv, SameTables
  <1>5. RowsOK(p)' /\ HeldOK(p)' /\ NewOK(p)'
    BY <1>2 DEF RowsOK, HeldOK, NewOK, Loading
  <1>6. \A q \in Processes \ {p} : RowsOK(q)' /\ GateOK(q)' /\ HeldOK(q)' /\ NewOK(q)'
    <2>1. areas' = areas /\ chain' = chain
      BY DEF SameTables, LoaderInv, TypeOK
    <2> QED BY <1>1, <2>1, OthersKeep DEF FaultStep
  <1> QED BY <1>3, <1>4, <1>5, <1>6 DEF LoaderInv

\* p is through with its country.
LEMMA LeaveKeeps ==
  ASSUME LoaderInv, SameTables, FaultStep, NEW p \in Processes, pc[p] \in Loading, Leave(p)
  PROVE  LoaderInv'
  <1> USE PlacesAssumption
  <1>1. SameOthers(p)
    BY DEF SameOthers, Leave, Goto, LoaderInv, TypeOK
  <1>2. /\ pc'[p] \in {"visit", "done"} /\ country'[p] = NoCountry
        /\ held'[p] = "absent" /\ rows'[p] = {} /\ todo'[p] = {}
    BY DEF Leave, Goto, LoaderInv, TypeOK
  <1>3. TypeOK'
    <2>1. /\ pc' \in [Processes -> Loading \union {"new", "insert", "point", "done", "list", "visit"}]
          /\ held' \in [Processes -> Chains]
          /\ country' \in [Processes -> Countries \union {NoCountry}]
          /\ rows' \in [Processes -> SUBSET Atlas]
          /\ loaded' \in [Processes -> BOOLEAN]
      BY DEF Leave, Goto, LoaderInv, TypeOK
    <2>2. todo' \in [Processes -> SUBSET Stored']
      BY DEF Leave, LoaderInv, TypeOK, SameTables, Stored
    <2>3. \A q \in Processes : country'[q] # NoCountry <=> pc'[q] \in Loading
      BY <1>1, <1>2 DEF SameOthers, LoaderInv, TypeOK, Loading
    <2>4. inflight' = {country'[q] : q \in Processes} \ {NoCountry}
      <3>1. country[p] # NoCountry
        BY DEF LoaderInv, TypeOK
      <3>2. \A q \in Processes \ {p} : country'[q] = country[q] /\ country[q] # country[p]
        BY <1>1, <3>1 DEF SameOthers, LoaderInv, OneLoader
      <3>3. inflight = {country[q] : q \in Processes} \ {NoCountry} /\ inflight' = inflight \ {country[p]}
        BY DEF LoaderInv, TypeOK, Leave
      <3> QED BY <3>2, <3>3, <1>2
    <2> QED BY SameStored, <2>1, <2>2, <2>3, <2>4 DEF LoaderInv, TypeOK, SameTables, FaultStep, boot
  <1>4. OneLoader' /\ BaseInv'
    BY <1>1, <1>2 DEF LoaderInv, OneLoader, BaseInv, SameTables, SameOthers
  <1>5. RowsOK(p)' /\ GateOK(p)' /\ HeldOK(p)' /\ NewOK(p)'
    BY <1>2 DEF RowsOK, GateOK, HeldOK, NewOK
  <1>6. \A q \in Processes \ {p} : RowsOK(q)' /\ GateOK(q)' /\ HeldOK(q)' /\ NewOK(q)'
    <2>1. areas' = areas /\ chain' = chain
      BY DEF SameTables, LoaderInv, TypeOK
    <2> QED BY <1>1, <2>1, OthersKeep DEF FaultStep
  <1> QED BY <1>3, <1>4, <1>5, <1>6 DEF LoaderInv

\* p begins to resolve reports again.
LEMMA AgainKeeps ==
  ASSUME LoaderInv, SameTables, FaultStep, NEW p \in Processes, pc[p] \in {"codrows", "gbrows"},
         rows[p] = {}, NEW S \in SUBSET Stored,
         NEW label \in {"regeo", "regeomissing"}, Again(p, S, label)
  PROVE  LoaderInv'
  <1> USE PlacesAssumption
  <1>1. SameOthers(p)
    BY DEF SameOthers, Again, Goto, LoaderInv, TypeOK
  <1>2. /\ pc' = [pc EXCEPT ![p] = label] /\ todo' = [todo EXCEPT ![p] = S]
        /\ pc'[p] = label /\ UNCHANGED <<inflight, country, held, rows, loaded>>
        /\ held[p] = "absent"
    BY DEF Again, Goto, LoaderInv, TypeOK, HeldOK, Regeocoding
  <1>3. TypeOK'
    <2>1. todo' \in [Processes -> SUBSET Stored']
      BY <1>2 DEF LoaderInv, TypeOK, SameTables, Stored
    <2> QED BY SameStored, <1>2, <2>1 DEF LoaderInv, TypeOK, SameTables, FaultStep, boot, Loading
  <1>4. OneLoader' /\ BaseInv'
    BY <1>2 DEF LoaderInv, OneLoader, BaseInv, SameTables
  <1>5. RowsOK(p)' /\ GateOK(p)' /\ HeldOK(p)' /\ NewOK(p)'
    BY <1>2 DEF RowsOK, GateOK, HeldOK, NewOK
  <1>6. \A q \in Processes \ {p} : RowsOK(q)' /\ GateOK(q)' /\ HeldOK(q)' /\ NewOK(q)'
    <2>1. areas' = areas /\ chain' = chain
      BY DEF SameTables, LoaderInv, TypeOK
    <2> QED BY <1>1, <2>1, OthersKeep DEF FaultStep
  <1> QED BY <1>3, <1>4, <1>5, <1>6 DEF LoaderInv

\* p has a layer in hand.
LEMMA DownloadKeeps ==
  ASSUME LoaderInv, SameTables, FaultStep, NEW p \in Processes, pc[p] \in {"fetchcod", "fetchgb"},
         NEW ks, NEW label, (ks = COD /\ label = "codrows") \/ (ks = GB /\ label = "gbrows"),
         Download(p, ks, label)
  PROVE  LoaderInv'
  <1> USE PlacesAssumption
  <1>1. SameOthers(p)
    BY DEF SameOthers, Download, Goto, LoaderInv, TypeOK
  <1>2. /\ pc' = [pc EXCEPT ![p] = label] /\ rows' = [rows EXCEPT ![p] = Layer(country[p], ks)]
        /\ pc'[p] = label /\ rows'[p] = Layer(country[p], ks)
        /\ UNCHANGED <<inflight, country, held, loaded, todo>>
        /\ held[p] = "absent"
    BY DEF Download, Goto, LoaderInv, TypeOK, HeldOK, Regeocoding
  <1>3. TypeOK'
    <2>1. rows' \in [Processes -> SUBSET Atlas]
      BY <1>2, LayerOfCountry DEF LoaderInv, TypeOK
    <2>2. todo' \in [Processes -> SUBSET Stored']
      BY <1>2 DEF LoaderInv, TypeOK, SameTables, Stored
    <2>3. /\ pc' \in [Processes -> Loading \union {"new", "insert", "point", "done", "list", "visit"}]
          /\ \A q \in Processes : country'[q] # NoCountry <=> pc'[q] \in Loading
      BY <1>2 DEF LoaderInv, TypeOK, Loading
    <2> QED BY SameStored, <1>2, <2>1, <2>2, <2>3 DEF LoaderInv, TypeOK, SameTables, FaultStep, boot
  <1>4. OneLoader' /\ BaseInv'
    BY <1>2 DEF LoaderInv, OneLoader, BaseInv, SameTables
  <1>5. RowsOK(p)' /\ GateOK(p)' /\ HeldOK(p)' /\ NewOK(p)'
    BY <1>2 DEF RowsOK, GateOK, HeldOK, NewOK, Wanted, Layer
  <1>6. \A q \in Processes \ {p} : RowsOK(q)' /\ GateOK(q)' /\ HeldOK(q)' /\ NewOK(q)'
    <2>1. areas' = areas /\ chain' = chain
      BY DEF SameTables, LoaderInv, TypeOK
    <2> QED BY <1>1, <2>1, OthersKeep DEF FaultStep
  <1> QED BY <1>3, <1>4, <1>5, <1>6 DEF LoaderInv

\* p begins to load c, or does not because c is being loaded.
LEMMA EnterKeeps ==
  ASSUME LoaderInv, FaultStep, UNCHANGED <<published, areas, chain, late, work, phase>>,
         plan' \subseteq Countries, left' \subseteq Stored,
         NEW p \in Processes, NEW c \in Countries, NEW skip,
         (pc[p] = "point" /\ skip = "done") \/ (pc[p] = "visit" /\ skip = "visit"),
         Enter(p, c, skip)
  PROVE  LoaderInv'
  <1> USE PlacesAssumption
  <1>0. /\ country[p] = NoCountry /\ held[p] = "absent" /\ rows[p] = {}
        /\ UNCHANGED <<published, areas, chain, late, held, rows, loaded, todo, phase>>
    <2>1. rows[p] = {}
      BY DEF LoaderInv, RowsOK, Wanted, Layer
    <2> QED BY <2>1 DEF LoaderInv, TypeOK, Loading, HeldOK, Regeocoding, work
  <1>1. SameOthers(p)
    BY <1>0 DEF SameOthers, Enter, Goto, LoaderInv, TypeOK
  <1>2. \/ pc' = [pc EXCEPT ![p] = skip] /\ UNCHANGED <<inflight, country>>
        \/ /\ pc' = [pc EXCEPT ![p] = "cod"] /\ c \notin inflight
           /\ inflight' = inflight \union {c} /\ country' = [country EXCEPT ![p] = c]
    BY DEF Enter, Goto
  <1>3. TypeOK'
    <2>1. pc' \in [Processes -> Loading \union {"new", "insert", "point", "done", "list", "visit"}]
      BY <1>2 DEF LoaderInv, TypeOK, Loading
    <2>2. country' \in [Processes -> Countries \union {NoCountry}]
      BY <1>2 DEF LoaderInv, TypeOK
    <2>3. \A q \in Processes : country'[q] # NoCountry <=> pc'[q] \in Loading
      BY <1>0, <1>2 DEF LoaderInv, TypeOK, Loading
    <2>4. inflight' = {country'[q] : q \in Processes} \ {NoCountry}
      BY <1>0, <1>2 DEF LoaderInv, TypeOK
    <2> QED BY <1>0, <2>1, <2>2, <2>3, <2>4 DEF LoaderInv, TypeOK, Stored, FaultStep
  <1>4. OneLoader' /\ BaseInv'
    <2>1. BaseInv'
      BY <1>0 DEF LoaderInv, BaseInv
    <2>2. \A q \in Processes : country[q] # NoCountry => country[q] \in inflight
      BY DEF LoaderInv, TypeOK
    <2>3. OneLoader'
      BY <1>2, <2>2 DEF LoaderInv, TypeOK, OneLoader
    <2> QED BY <2>1, <2>3
  <1>5. RowsOK(p)' /\ GateOK(p)' /\ HeldOK(p)' /\ NewOK(p)'
    <2>1. pc'[p] \in {"done", "visit", "cod"}
      BY <1>2 DEF LoaderInv, TypeOK
    <2> QED BY <1>0, <2>1 DEF RowsOK, GateOK, HeldOK, NewOK
  <1>6. \A q \in Processes \ {p} : RowsOK(q)' /\ GateOK(q)' /\ HeldOK(q)' /\ NewOK(q)'
    BY <1>0, <1>1, OthersKeep DEF FaultStep
  <1> QED BY <1>3, <1>4, <1>5, <1>6 DEF LoaderInv

------------------------------------------------------------------------------
(* What a point resolves to *)

\* Resolve, as an operator of the areas.
Best(A, point) ==
  LET hits == {"none"} \union {a.chain : a \in {x \in A : x.point = point}}
  IN CHOOSE c \in hits : \A d \in hits : Rank[d] <= Rank[c]

LEMMA ResolveIsBest == \A point : Resolve(point) = Best(areas, point)
  BY DEF Resolve, Best

\* Of the areas at a point, one is of the highest rank, and no other is.
LEMMA BestExists ==
  ASSUME NEW A \in SUBSET Atlas, NEW point
  PROVE  /\ Best(A, point) \in Chains \ {"absent"}
         /\ Best(A, point) # "none" => \E a \in A : a.point = point /\ a.chain = Best(A, point)
         /\ \A a \in A : a.point = point => Rank[a.chain] <= Rank[Best(A, point)]
  <1> DEFINE hits == {"none"} \union {a.chain : a \in {x \in A : x.point = point}}
             IsBest(c) == c \in hits /\ \A d \in hits : Rank[d] <= Rank[c]
  <1>1. hits \subseteq Chains \ {"absent"} /\ "none" \in hits
    BY AreasOfAtlas
  <1>r. /\ Rank["none"] = 0 /\ Rank["country"] = 1 /\ Rank["gb"] = 2 /\ Rank["seed"] = 3
        /\ Rank["cod1"] = 4 /\ Rank["cod2"] = 5
    OBVIOUS
  <1>s. \A d \in hits : d \in {"none", "country", "gb", "seed", "cod1", "cod2"}
    BY <1>1
  <1>2. \E c \in hits : IsBest(c)
    <2> HIDE DEF hits
    <2> HIDE DEF Rank
    <2>1. CASE "cod2" \in hits
      BY <1>r, <1>s, <2>1
    <2>2. CASE "cod2" \notin hits /\ "cod1" \in hits
      BY <1>r, <1>s, <2>2
    <2>3. CASE hits \intersect {"cod1", "cod2"} = {} /\ "seed" \in hits
      BY <1>r, <1>s, <2>3
    <2>4. CASE hits \intersect {"cod1", "cod2", "seed"} = {} /\ "gb" \in hits
      BY <1>r, <1>s, <2>4
    <2>5. CASE hits \intersect {"cod1", "cod2", "seed", "gb"} = {} /\ "country" \in hits
      BY <1>r, <1>s, <2>5
    <2>6. CASE hits \intersect {"cod1", "cod2", "seed", "gb", "country"} = {}
      BY <1>r, <1>s, <1>1, <2>6
    <2> QED BY <2>1, <2>2, <2>3, <2>4, <2>5, <2>6
  <1>3. IsBest(Best(A, point))
    BY <1>2 DEF Best
  <1> QED BY <1>1, <1>3

\* What a point resolves to is there and has no better.
LEMMA ResolveTyped ==
  ASSUME LoaderInv, NEW point
  PROVE  /\ Resolve(point) \in Chains \ {"absent"}
         /\ Resolve(point) # "none" => \E a \in areas : a.point = point /\ a.chain = Resolve(point)
         /\ \A a \in areas : a.point = point => Rank[a.chain] <= Rank[Resolve(point)]
  <1>1. areas \subseteq Atlas
    BY DEF LoaderInv, TypeOK
  <1> QED BY <1>1, BestExists, ResolveIsBest

\* An area that a query for a point returns.
LEMMA HitsTyped ==
  ASSUME LoaderInv, NEW point, NEW a \in Hits(point)
  PROVE  a \in Atlas /\ (a.of # NoCountry => a.of \in Countries)
  BY AreasOfAtlas DEF Hits, LoaderInv, TypeOK

------------------------------------------------------------------------------
(* The actions keep the loaders apart *)

LEMMA InitLoader ==
  ASSUME Init PROVE LoaderInv
  <1> USE PlacesAssumption
  <1>1. TypeOK
    <2>1. areas \subseteq Atlas
      BY DEF Init
    <2>2. Processes # {}
      BY DEF Processes
    <2>3. inflight = {country[p] : p \in Processes} \ {NoCountry}
      BY DEF Init
    <2>4. pc \in [Processes -> Loading \union {"new", "insert", "point", "done", "list", "visit"}]
      BY DEF Init
    <2>5. \A p \in Processes : country[p] = NoCountry /\ pc[p] \notin Loading
      BY DEF Init, Loading
    <2>6. todo \in [Processes -> SUBSET Stored]
      BY DEF Init
    <2> QED BY <2>1, <2>3, <2>4, <2>5, <2>6 DEF Init, TypeOK
  <1>2. OneLoader /\ BaseInv
    BY DEF Init, OneLoader, BaseInv
  <1>3. \A p \in Processes : RowsOK(p) /\ GateOK(p) /\ HeldOK(p) /\ NewOK(p)
    BY DEF Init, RowsOK, GateOK, HeldOK, NewOK, Processes
  <1> QED BY <1>1, <1>2, <1>3 DEF LoaderInv

\* ResolveReport, ResolveAgain and SkipReport change nothing but what p holds
\* and has to do.
LEMMA HoldKeeps ==
  ASSUME LoaderInv, SameTables, FaultStep, NEW p \in Processes, SameOthers(p),
         UNCHANGED <<inflight, country, rows, loaded>>,
         \/ pc' = pc /\ Regeocoding(p)
         \/ pc[p] = "new" /\ pc' = [pc EXCEPT ![p] = "insert"],
         held' \in [Processes -> Chains], todo' \in [Processes -> SUBSET Stored],
         held'[p] = "absent" => Regeocoding(p),
         held'[p] # "absent" => todo'[p] # {} \/ pc[p] = "new"
  PROVE  LoaderInv'
  <1> USE PlacesAssumption
  <1>3. TypeOK'
    <2>1. todo' \in [Processes -> SUBSET Stored']
      BY DEF SameTables, Stored
    <2>3. /\ pc' \in [Processes -> Loading \union {"new", "insert", "point", "done", "list", "visit"}]
          /\ \A q \in Processes : country'[q] # NoCountry <=> pc'[q] \in Loading
      BY DEF LoaderInv, TypeOK, Loading
    <2> QED BY SameStored, <2>1, <2>3 DEF LoaderInv, TypeOK, SameTables, FaultStep, boot
  <1>4. OneLoader' /\ BaseInv'
    BY DEF LoaderInv, OneLoader, BaseInv, SameTables
  <1>5. RowsOK(p) /\ GateOK(p) /\ HeldOK(p) /\ NewOK(p)
    BY DEF LoaderInv
  <1>6. RowsOK(p)' /\ GateOK(p)' /\ HeldOK(p)' /\ NewOK(p)'
    <2>1. CASE pc' = pc /\ Regeocoding(p)
      BY <1>5, <2>1 DEF RowsOK, GateOK, HeldOK, NewOK, Wanted, Layer, Regeocoding
    <2>2. CASE pc[p] = "new" /\ pc' = [pc EXCEPT ![p] = "insert"]
      <3>1. pc'[p] = "insert" /\ held'[p] # "absent"
        BY <2>2 DEF LoaderInv, TypeOK, Regeocoding
      <3> QED BY <1>5, <2>2, <3>1 DEF RowsOK, GateOK, HeldOK, NewOK, Wanted, Layer, SameTables
    <2> QED BY <2>1, <2>2
  <1>7. \A q \in Processes \ {p} : RowsOK(q)' /\ GateOK(q)' /\ HeldOK(q)' /\ NewOK(q)'
    <2>1. areas' = areas /\ chain' = chain
      BY DEF SameTables, LoaderInv, TypeOK
    <2> QED BY <2>1, OthersKeep DEF FaultStep
  <1> QED BY <1>3, <1>4, <1>6, <1>7 DEF LoaderInv

LEMMA ResolveReportKeeps ==
  ASSUME LoaderInv, NEW r \in ReportIds, ResolveReport(r)
  PROVE  LoaderInv'
  <1>0. r \in Processes
    BY ReportsAreProcesses
  <1>1. Resolve(At[r]) \in Chains \ {"absent"} /\ "none" \in Chains \ {"absent"}
    BY ResolveTyped
  <1>2. /\ \/ held' = [held EXCEPT ![r] = Resolve(At[r])]
           \/ held' = [held EXCEPT ![r] = "none"]
        /\ todo' = todo
        /\ pc[r] = "new" /\ pc' = [pc EXCEPT ![r] = "insert"]
        /\ UNCHANGED <<inflight, country, rows, loaded>>
    BY DEF ResolveReport, Goto
  <1>3. SameTables /\ FaultStep
    BY PlacesAssumption DEF ResolveReport, Fault, SameTables, FaultStep, LoaderInv, TypeOK
  <1>4. SameOthers(r) /\ held' \in [Processes -> Chains] /\ held'[r] # "absent"
    BY <1>0, <1>1, <1>2 DEF SameOthers, LoaderInv, TypeOK
  <1>5. todo' \in [Processes -> SUBSET Stored]
    BY <1>2 DEF LoaderInv, TypeOK
  <1> QED BY <1>0, <1>2, <1>3, <1>4, <1>5, HoldKeeps

LEMMA FirstOfSome == ASSUME NEW S, S # {} PROVE First(S) \in S
  BY DEF First

LEMMA ResolveAgainKeeps ==
  ASSUME LoaderInv, NEW p \in Processes, ResolveAgain(p)
  PROVE  LoaderInv'
  <1> DEFINE r == First(todo[p])
  <1>1. Regeocoding(p) /\ r \in todo[p] /\ r \in ReportIds /\ held[p] = "absent" /\ todo[p] \subseteq Stored
    BY FirstOfSome DEF ResolveAgain, LoaderInv, TypeOK, Stored
  <1>2. Resolve(At[r]) \in Chains \ {"absent"}
    BY ResolveTyped
  <1>3. SameTables /\ FaultStep /\ pc' = pc /\ UNCHANGED <<inflight, country, rows, loaded>>
    BY DEF ResolveAgain, data, SameTables, FaultStep, LoaderInv, TypeOK
  <1>4. \/ held' = [held EXCEPT ![p] = "absent"] /\ todo' = [todo EXCEPT ![p] = todo[p] \ {r}]
        \/ held' = [held EXCEPT ![p] = Resolve(At[r])] /\ todo' = [todo EXCEPT ![p] = todo[p]]
    BY <1>1 DEF ResolveAgain, LoaderInv, TypeOK
  <1>5. SameOthers(p) /\ todo' \in [Processes -> SUBSET Stored]
    BY <1>1, <1>3, <1>4 DEF SameOthers, LoaderInv, TypeOK
  <1>6. held' \in [Processes -> Chains] /\ (held'[p] # "absent" => todo'[p] # {})
    BY <1>1, <1>2, <1>4 DEF LoaderInv, TypeOK
  <1> QED BY <1>1, <1>3, <1>5, <1>6, HoldKeeps

LEMMA SkipReportKeeps ==
  ASSUME LoaderInv, NEW p \in Processes, SkipReport(p)
  PROVE  LoaderInv'
  <1>1. SameTables /\ FaultStep /\ pc' = pc /\ UNCHANGED <<inflight, country, rows, loaded>>
    BY PlacesAssumption DEF SkipReport, Fault, SameTables, FaultStep, LoaderInv, TypeOK
  <1>2. /\ SameOthers(p) /\ Regeocoding(p)
        /\ held' \in [Processes -> Chains] /\ held'[p] = "absent"
        /\ todo' \in [Processes -> SUBSET Stored]
    BY DEF SkipReport, SameOthers, LoaderInv, TypeOK
  <1> QED BY <1>1, <1>2, HoldKeeps

\* A loader's step between statements is one of four kinds.  The last conjuncts
\* say what it leaves undone.
Proceeds(p) ==
  /\ SameTables /\ FaultStep /\ rows[p] = {} /\ held[p] = "absent" /\ GateOK(p)'
  /\ pc[p] \in {"cod", "covered", "gb", "fetchcod", "codrows"}
  /\ \E label \in {"fetchcod", "covered", "gb", "fetchgb"} : Proceed(p, label)
  /\ pc[p] = "codrows" => ~loaded[p]

Leaves(p) ==
  /\ SameTables /\ FaultStep /\ pc[p] \in Loading /\ Leave(p)
  /\ faults' = 0 =>
       /\ pc[p] \in {"covered", "gb", "gbrows", "regeo", "regeomissing"}
       /\ pc[p] = "gbrows" => ~loaded[p]
       /\ Regeocoding(p) => todo[p] = {}

Relists(p) ==
  /\ SameTables /\ FaultStep /\ rows[p] = {}
  /\ \/ pc[p] = "codrows" /\ Again(p, InCountry(country[p]), "regeo")
     \/ pc[p] = "gbrows" /\ Again(p, MissingRegion, "regeomissing")

Downloads(p) ==
  /\ SameTables /\ FaultStep
  /\ \/ pc[p] = "fetchcod" /\ Download(p, COD, "codrows")
     \/ pc[p] = "fetchgb" /\ Download(p, GB, "gbrows")

LEMMA BetweenRows ==
  ASSUME LoaderInv, NEW p \in Processes, pc[p] \in Loading
  PROVE  /\ ~Regeocoding(p) => held[p] = "absent"
         /\ pc[p] \notin {"codrows", "gbrows"} => rows[p] = {}
  BY DEF LoaderInv, HeldOK, Loading, RowsOK, Wanted, Layer

LEMMA StepKinds ==
  ASSUME LoaderInv, NEW p \in Processes, EnsureCountry(p)
  PROVE  \/ Proceeds(p) \/ Leaves(p) \/ Relists(p) \/ Downloads(p)
         \/ \E a \in rows[p] : Ingest(p, a)
         \/ ResolveAgain(p) \/ UpdateReportAdmin(p) \/ SkipReport(p)
  <1> USE DEF SameTables, FaultStep, data
  <1>g. GateOK(p) /\ faults \in 0 .. MaxFaults /\ MaxFaults \in Nat
    BY PlacesAssumption DEF LoaderInv, TypeOK
  <1>p. \A label : Proceed(p, label) => pc'[p] = label /\ country' = country /\ UNCHANGED work
    BY DEF Proceed, Goto, LoaderInv, TypeOK
  <1>1. CountCOD(p) => Proceeds(p)
    <2> SUFFICES ASSUME CountCOD(p) PROVE Proceeds(p)
      OBVIOUS
    <2>1. pc[p] = "cod" /\ areas' = areas /\ country' = country
      BY <1>p DEF CountCOD
    <2>2. \/ Covered(country[p], COD) /\ Proceed(p, "covered")
          \/ ~Covered(country[p], COD) /\ Proceed(p, "fetchcod")
      BY DEF CountCOD
    <2>3. GateOK(p)'
      BY <1>p, <2>1, <2>2 DEF GateOK, Covered, Layer
    <2> QED BY <1>g, <2>1, <2>2, <2>3, BetweenRows DEF CountCOD, Proceeds, Loading, Regeocoding
  <1>2. CountFails(p) => Proceeds(p)
    <2> SUFFICES ASSUME CountFails(p) PROVE Proceeds(p)
      OBVIOUS
    <2>1. faults' # 0 /\ FaultStep
      BY <1>g DEF CountFails, Fault
    <2>2. GateOK(p)'
      BY <2>1 DEF GateOK
    <2>3. \E label \in {"fetchcod", "covered", "gb", "fetchgb"} : Proceed(p, label)
      BY DEF CountFails
    <2> QED BY <2>1, <2>2, <2>3, BetweenRows DEF CountFails, Proceeds, Loading, Regeocoding
  <1>3. FetchCOD(p) => Proceeds(p) \/ Downloads(p)
    <2> SUFFICES ASSUME FetchCOD(p) PROVE Proceeds(p) \/ Downloads(p)
      OBVIOUS
    <2>1. FaultStep /\ UNCHANGED <<published, areas, chain, late>> /\ pc[p] = "fetchcod"
      BY <1>g DEF FetchCOD, Fault
    <2>2. CASE Download(p, COD, "codrows")
      BY <2>1, <2>2 DEF Downloads, Download
    <2>3. CASE Proceed(p, "covered") /\ UNCHANGED boot
      <3>1. GateOK(p)'
        BY <1>p, <2>3 DEF GateOK
      <3> QED BY <2>1, <2>3, <3>1, BetweenRows DEF Proceeds, Loading, Regeocoding
    <2> QED BY <2>2, <2>3 DEF FetchCOD
  <1>4. ListAfterCOD(p) => Relists(p) \/ Proceeds(p)
    <2> SUFFICES ASSUME ListAfterCOD(p) PROVE Relists(p) \/ Proceeds(p)
      OBVIOUS
    <2>1. pc[p] = "codrows" /\ rows[p] = {} /\ FaultStep /\ SameTables
      BY <1>g DEF ListAfterCOD
    <2>2. CASE Proceed(p, "covered") /\ ~loaded[p]
      <3>1. GateOK(p)'
        BY <1>p, <2>2 DEF GateOK
      <3> QED BY <2>1, <2>2, <3>1, BetweenRows DEF Proceeds, Loading, Regeocoding
    <2> QED BY <2>1, <2>2 DEF ListAfterCOD, Relists
  <1>5. CountCovered(p) => Leaves(p) \/ Proceeds(p)
    <2> SUFFICES ASSUME CountCovered(p) PROVE Leaves(p) \/ Proceeds(p)
      OBVIOUS
    <2>1. pc[p] = "covered" /\ FaultStep /\ SameTables
      BY <1>g DEF CountCovered
    <2>2. CASE Proceed(p, "gb") /\ ~Covered(country[p], COD)
      <3>1. GateOK(p)'
        BY <1>p, <2>1, <2>2 DEF GateOK, Covered, Layer
      <3> QED BY <2>1, <2>2, <3>1, BetweenRows DEF Proceeds, Loading, Regeocoding
    <2> QED BY <2>1, <2>2 DEF CountCovered, Leaves, Loading, Regeocoding
  <1>6. CountGB(p) => Leaves(p) \/ Proceeds(p)
    <2> SUFFICES ASSUME CountGB(p) PROVE Leaves(p) \/ Proceeds(p)
      OBVIOUS
    <2>1. pc[p] = "gb" /\ FaultStep /\ SameTables
      BY <1>g DEF CountGB
    <2>2. CASE Proceed(p, "fetchgb") /\ ~Covered(country[p], GB)
      <3>1. GateOK(p)'
        <4>1. faults = 0 => ~Covered(country[p], COD)
          BY <1>g, <2>1 DEF GateOK
        <4>2. Layer(country[p], COD \union GB) = Layer(country[p], COD) \union Layer(country[p], GB)
          BY DEF Layer
        <4>3. faults = 0 => ~Covered(country[p], COD \union GB)
          BY <2>2, <4>1, <4>2 DEF Covered
        <4>4. areas' = areas /\ country' = country /\ pc'[p] = "fetchgb" /\ faults' = faults
          BY <1>p, <2>1, <2>2 DEF CountGB
        <4> QED BY <4>1, <4>3, <4>4 DEF GateOK, Covered, Layer
      <3> QED BY <2>1, <2>2, <3>1, BetweenRows DEF Proceeds, Loading, Regeocoding
    <2> QED BY <2>1, <2>2 DEF CountGB, Leaves, Loading, Regeocoding
  <1>7. FetchGB(p) => Leaves(p) \/ Downloads(p)
    BY <1>g DEF FetchGB, Fault, Leaves, Downloads, Download, Loading
  <1>8. ListAfterGB(p) => Leaves(p) \/ Relists(p)
    BY <1>g DEF ListAfterGB, Leaves, Relists, Loading, Regeocoding
  <1>9. RelistFails(p) => Leaves(p)
    BY <1>g DEF RelistFails, Fault, Leaves, Loading
  <1>10. EndRegeocode(p) => Leaves(p)
    BY <1>g DEF EndRegeocode, Leaves, Loading, Regeocoding
  <1> QED BY <1>1, <1>2, <1>3, <1>4, <1>5, <1>6, <1>7, <1>8, <1>9, <1>10 DEF EnsureCountry

LEMMA InsertReportKeeps ==
  ASSUME LoaderInv, NEW r \in ReportIds, InsertReport(r)
  PROVE  LoaderInv'
  <1> USE PlacesAssumption
  <1>1. /\ r \in Processes /\ pc[r] = "insert" /\ held[r] # "absent" /\ held[r] \in Chains
        /\ chain[r] = "absent" /\ rows[r] = {} /\ country[r] = NoCountry
    BY ReportsAreProcesses DEF InsertReport, LoaderInv, TypeOK, NewOK, RowsOK, Wanted, Layer, Loading
  <1>2. /\ chain' = [chain EXCEPT ![r] = held[r]] /\ held' = [held EXCEPT ![r] = "absent"]
        /\ pc' = [pc EXCEPT ![r] = "point"] /\ late' \subseteq ReportIds
        /\ UNCHANGED <<published, areas, faults, inflight, country, rows, loaded, todo, phase, plan, left>>
    BY DEF InsertReport, Goto, boot, LoaderInv, TypeOK
  <1>3. TypeOK'
    <2>1. Stored \subseteq Stored'
      BY <1>1, <1>2 DEF Stored, LoaderInv, TypeOK
    <2>2. todo' \in [Processes -> SUBSET Stored']
      BY <1>2, <2>1 DEF LoaderInv, TypeOK
    <2>3. chain' \in [ReportIds -> Chains] /\ held' \in [Processes -> Chains]
      BY <1>1, <1>2 DEF LoaderInv, TypeOK
    <2>4. /\ pc' \in [Processes -> Loading \union {"new", "insert", "point", "done", "list", "visit"}]
          /\ \A q \in Processes : country'[q] # NoCountry <=> pc'[q] \in Loading
      BY <1>1, <1>2 DEF LoaderInv, TypeOK, Loading
    <2> QED BY <1>2, <2>1, <2>2, <2>3, <2>4 DEF LoaderInv, TypeOK
  <1>4. OneLoader' /\ BaseInv'
    BY <1>2 DEF LoaderInv, OneLoader, BaseInv
  <1>5. RowsOK(r)' /\ GateOK(r)' /\ HeldOK(r)' /\ NewOK(r)'
    <2>1. pc'[r] = "point" /\ held'[r] = "absent" /\ rows'[r] = {}
      BY <1>1, <1>2 DEF LoaderInv, TypeOK
    <2> QED BY <2>1 DEF RowsOK, GateOK, HeldOK, NewOK
  <1>6. \A q \in Processes \ {r} : RowsOK(q)' /\ GateOK(q)' /\ HeldOK(q)' /\ NewOK(q)'
    <2>1. SameOthers(r) /\ areas' \subseteq Atlas
      BY <1>1, <1>2 DEF SameOthers, LoaderInv, TypeOK
    <2>2. \A s \in ReportIds \ {r} : chain'[s] = chain[s]
      BY <1>2 DEF LoaderInv, TypeOK
    <2> QED BY <1>1, <1>2, <2>1, <2>2, OthersKeep
  <1> QED BY <1>3, <1>4, <1>5, <1>6 DEF LoaderInv

\* Steps outside of a load that change no table.
LEMMA MoveKeeps ==
  ASSUME LoaderInv, FaultStep, NEW p \in Processes, pc[p] \in {"point", "list", "visit"},
         NEW label \in {"done", "list", "visit"}, pc' = [pc EXCEPT ![p] = label],
         UNCHANGED <<published, areas, chain, late, inflight, country, work>>,
         plan' \subseteq Countries, left' \subseteq Stored, phase' \in {"coverage", "sweep"}
  PROVE  LoaderInv'
  <1> USE PlacesAssumption
  <1>1. /\ pc'[p] = label
        /\ UNCHANGED <<published, areas, chain, late, inflight, country, held, rows, loaded, todo>>
    BY DEF LoaderInv, TypeOK, work
  <1>2. SameOthers(p)
    BY <1>1 DEF SameOthers, LoaderInv, TypeOK
  <1>3. TypeOK'
    <2>1. /\ pc' \in [Processes -> Loading \union {"new", "insert", "point", "done", "list", "visit"}]
          /\ \A q \in Processes : country'[q] # NoCountry <=> pc'[q] \in Loading
      BY <1>1 DEF LoaderInv, TypeOK, Loading
    <2> QED BY <1>1, <2>1 DEF LoaderInv, TypeOK, FaultStep, Stored
  <1>4. OneLoader' /\ BaseInv'
    BY <1>1 DEF LoaderInv, OneLoader, BaseInv
  <1>5. RowsOK(p)' /\ GateOK(p)' /\ HeldOK(p)' /\ NewOK(p)'
    <2>1. rows[p] = {} /\ held[p] = "absent"
      BY DEF LoaderInv, RowsOK, HeldOK, Wanted, Layer, Regeocoding
    <2> QED BY <1>1, <2>1 DEF RowsOK, GateOK, HeldOK, NewOK
  <1>6. \A q \in Processes \ {p} : RowsOK(q)' /\ GateOK(q)' /\ HeldOK(q)' /\ NewOK(q)'
    <2>1. areas' = areas /\ chain' = chain
      BY <1>1 DEF LoaderInv, TypeOK
    <2> QED BY <1>2, <2>1, OthersKeep DEF FaultStep
  <1> QED BY <1>3, <1>4, <1>5, <1>6 DEF LoaderInv

LEMMA EnsureForPointKeeps ==
  ASSUME LoaderInv, NEW r \in ReportIds, EnsureForPoint(r)
  PROVE  LoaderInv'
  <1>1. /\ r \in Processes /\ pc[r] = "point" /\ FaultStep
        /\ UNCHANGED <<published, areas, chain, late, work, phase, plan, left>>
    BY ReportsAreProcesses, PlacesAssumption
       DEF EnsureForPoint, Fault, FaultStep, boot, LoaderInv, TypeOK
  <1>2. plan' \subseteq Countries /\ left' \subseteq Stored /\ phase' \in {"coverage", "sweep"}
    BY <1>1 DEF LoaderInv, TypeOK
  <1>3. ASSUME NEW a \in Hits(At[r]), a.of # NoCountry, Enter(r, a.of, "done")
        PROVE  LoaderInv'
    <2>1. a.of \in Countries
      BY <1>3, HitsTyped
    <2> QED BY <1>1, <1>2, <1>3, <2>1, EnterKeeps
  <1>4. CASE Goto(r, "done") /\ UNCHANGED <<inflight, country>>
    BY <1>1, <1>2, <1>4, MoveKeeps DEF Goto
  <1> QED BY <1>3, <1>4 DEF EnsureForPoint

LEMMA StartupKeeps ==
  ASSUME LoaderInv, Startup
  PROVE  LoaderInv'
  <1> USE PlacesAssumption DEF Goto
  <1>b. /\ Boot \in Processes /\ plan \subseteq Countries /\ left \subseteq Stored
        /\ phase \in {"coverage", "sweep"} /\ faults \in 0 .. MaxFaults
        /\ pc \in [Processes -> Loading \union {"new", "insert", "point", "done", "list", "visit"}]
    BY ReportsAreProcesses DEF LoaderInv, TypeOK
  <1>1. CASE ListReported
    <2>1. FaultStep /\ UNCHANGED <<published, areas, chain, late, inflight, country, work>>
      BY <1>1, <1>b DEF ListReported, FaultStep, data
    <2> QED BY <1>1, <1>b, <2>1, MoveKeeps DEF ListReported
  <1>2. CASE ListUnswept
    <2>1. FaultStep /\ UNCHANGED <<published, areas, chain, late, inflight, country, work>>
      BY <1>2, <1>b DEF ListUnswept, FaultStep, data
    <2> QED BY <1>2, <1>b, <2>1, MoveKeeps DEF ListUnswept, MissingRegion
  <1>3. CASE ListFails
    <2>1. FaultStep /\ UNCHANGED <<published, areas, chain, late, inflight, country, work>>
      BY <1>3, <1>b DEF ListFails, Fault, FaultStep
    <2> QED BY <1>3, <1>b, <2>1, MoveKeeps DEF ListFails, boot
  <1>4. CASE EndVisits
    <2>1. FaultStep /\ UNCHANGED <<published, areas, chain, late, inflight, country, work>>
      BY <1>4, <1>b DEF EndVisits, FaultStep, data
    <2> QED BY <1>4, <1>b, <2>1, MoveKeeps DEF EndVisits
  <1>s. UNCHANGED <<pc, inflight, country>> /\ pc[Boot] = "visit" =>
          pc' = [pc EXCEPT ![Boot] = "visit"] /\ UNCHANGED <<inflight, country>>
    BY <1>b
  <1>5. ASSUME NEW c \in plan, VisitCountry(c) PROVE LoaderInv'
    <2>1. /\ pc[Boot] = "visit" /\ plan' \subseteq Countries /\ left' \subseteq Stored
          /\ UNCHANGED <<published, areas, chain, late, work, phase>> /\ FaultStep
          /\ c \in Countries
      BY <1>5, <1>b DEF VisitCountry, Fault, FaultStep
    <2>2. CASE Enter(Boot, c, "visit")
      BY <1>b, <2>1, <2>2, EnterKeeps
    <2>3. CASE UNCHANGED <<pc, inflight, country>>
      BY <1>b, <1>s, <2>1, <2>3, MoveKeeps
    <2> QED BY <1>5, <2>2, <2>3 DEF VisitCountry
  <1>6. ASSUME NEW r \in left, VisitReport(r) PROVE LoaderInv'
    <2>1. /\ pc[Boot] = "visit" /\ plan' \subseteq Countries /\ left' \subseteq Stored
          /\ UNCHANGED <<published, areas, chain, late, work, phase>> /\ FaultStep
      BY <1>6, <1>b DEF VisitReport, Fault, FaultStep
    <2>2. ASSUME NEW c \in plan, Enter(Boot, c, "visit") PROVE LoaderInv'
      BY <1>b, <2>1, <2>2, EnterKeeps
    <2>3. CASE UNCHANGED <<pc, inflight, country>>
      BY <1>b, <1>s, <2>1, <2>3, MoveKeeps
    <2> QED BY <1>6, <2>2, <2>3 DEF VisitReport
  <1> QED BY <1>1, <1>2, <1>3, <1>4, <1>5, <1>6 DEF Startup

LEMMA IngestKeeps ==
  ASSUME LoaderInv, NEW p \in Processes, NEW a \in rows[p], Ingest(p, a)
  PROVE  LoaderInv'
  <1> USE PlacesAssumption
  <1>1. /\ pc[p] \in {"codrows", "gbrows"} /\ country[p] # NoCountry /\ held[p] = "absent"
        /\ a \in Atlas /\ a.of = country[p]
    BY LayerOfCountry DEF Ingest, LoaderInv, TypeOK, Loading, RowsOK, Wanted, HeldOK, Regeocoding
  <1>2. /\ rows' = [rows EXCEPT ![p] = rows[p] \ {a}]
        /\ UNCHANGED <<published, chain, late, inflight, pc, country, held, todo, phase, plan, left>>
        /\ areas \subseteq areas' /\ areas' \subseteq areas \union {a}
        /\ loaded' = loaded \/ loaded' = [loaded EXCEPT ![p] = TRUE]
        /\ FaultStep
    BY DEF Ingest, Fault, FaultStep, boot, LoaderInv, TypeOK
  <1>3. TypeOK'
    <2>1. rows' \in [Processes -> SUBSET Atlas] /\ loaded' \in [Processes -> BOOLEAN]
      BY <1>2 DEF LoaderInv, TypeOK
    <2>2. areas' \subseteq Atlas
      BY <1>1, <1>2 DEF LoaderInv, TypeOK
    <2> QED BY <1>2, <2>1, <2>2 DEF LoaderInv, TypeOK, FaultStep, Stored
  <1>4. OneLoader' /\ BaseInv'
    BY <1>2 DEF LoaderInv, OneLoader, BaseInv
  <1>5. RowsOK(p)' /\ GateOK(p)' /\ HeldOK(p)' /\ NewOK(p)'
    <2>1. rows'[p] \subseteq rows[p]
      BY <1>2 DEF LoaderInv, TypeOK
    <2> QED BY <1>1, <1>2, <2>1 DEF LoaderInv, RowsOK, GateOK, HeldOK, NewOK, Wanted, Layer
  <1>6. \A q \in Processes \ {p} : RowsOK(q)' /\ GateOK(q)' /\ HeldOK(q)' /\ NewOK(q)'
    <2>1. SameOthers(p) /\ areas' \subseteq Atlas
      BY <1>1, <1>2 DEF SameOthers, LoaderInv, TypeOK
    <2>2. \A b \in areas' \ areas : country[p] # NoCountry /\ b.of = country[p]
      BY <1>1, <1>2
    <2> QED BY <1>2, <2>1, <2>2, OthersKeep DEF FaultStep
  <1> QED BY <1>3, <1>4, <1>5, <1>6 DEF LoaderInv

LEMMA UpdateKeeps ==
  ASSUME LoaderInv, NEW p \in Processes, UpdateReportAdmin(p)
  PROVE  LoaderInv'
  <1> USE PlacesAssumption
  <1> DEFINE r == First(todo[p])
  <1>1. /\ Regeocoding(p) /\ held[p] # "absent" /\ held[p] \in Chains /\ pc[p] \in Loading
        /\ r \in todo[p] /\ r \in Stored /\ r \in ReportIds
    BY FirstOfSome DEF UpdateReportAdmin, LoaderInv, TypeOK, HeldOK, Regeocoding, Loading, Stored
  <1>2. /\ chain' = [chain EXCEPT ![r] = held[p]] /\ held' = [held EXCEPT ![p] = "absent"]
        /\ todo' = [todo EXCEPT ![p] = todo[p] \ {r}]
        /\ UNCHANGED <<published, areas, faults, late, inflight, pc, country, rows, loaded, phase, plan, left>>
    BY DEF UpdateReportAdmin, boot
  <1> HIDE DEF r
  <1>3. TypeOK'
    <2>1. Stored' = Stored
      BY <1>1, <1>2 DEF Stored, LoaderInv, TypeOK
    <2>2. todo' \in [Processes -> SUBSET Stored']
      BY <1>2, <2>1 DEF LoaderInv, TypeOK
    <2>3. chain' \in [ReportIds -> Chains] /\ held' \in [Processes -> Chains]
      BY <1>1, <1>2 DEF LoaderInv, TypeOK
    <2> QED BY <1>2, <2>1, <2>2, <2>3 DEF LoaderInv, TypeOK
  <1>4. OneLoader' /\ BaseInv'
    BY <1>2 DEF LoaderInv, OneLoader, BaseInv
  <1>5. RowsOK(p)' /\ GateOK(p)' /\ HeldOK(p)' /\ NewOK(p)'
    <2>1. held'[p] = "absent"
      BY <1>2 DEF LoaderInv, TypeOK
    <2>2. RowsOK(p) /\ GateOK(p)
      BY DEF LoaderInv
    <2> QED BY <1>1, <1>2, <2>1, <2>2 DEF RowsOK, GateOK, HeldOK, NewOK, Wanted, Layer, Covered, Regeocoding
  <1>6. \A q \in Processes \ {p} : RowsOK(q)' /\ GateOK(q)' /\ HeldOK(q)' /\ NewOK(q)'
    <2>1. SameOthers(p) /\ areas' \subseteq Atlas
      BY <1>1, <1>2 DEF SameOthers, LoaderInv, TypeOK
    <2>2. \A s \in ReportIds : pc[s] \in {"new", "insert"} => chain'[s] = chain[s]
      BY <1>1, <1>2, ReportsAreProcesses DEF Stored, LoaderInv, TypeOK, NewOK
    <2> QED BY <1>2, <2>1, <2>2, OthersKeep
  <1> QED BY <1>3, <1>4, <1>5, <1>6 DEF LoaderInv

LEMMA CrashKeeps ==
  ASSUME LoaderInv, Crash
  PROVE  LoaderInv'
  <1> USE PlacesAssumption
  <1>1. /\ \A p \in Processes : /\ pc'[p] \in {"list", "new", "done"} /\ held'[p] = "absent"
                                /\ country'[p] = NoCountry /\ rows'[p] = {}
                                /\ (pc'[p] = "new" => p # Boot /\ pc[p] \in {"new", "insert"})
        /\ UNCHANGED <<published, areas, chain, late>>
    <2>1. ASSUME NEW p \in Processes, p # Boot, pc[p] \notin {"new", "insert"} PROVE pc'[p] = "done"
      BY <2>1 DEF Crash
    <2>2. ASSUME NEW p \in Processes, p # Boot, pc[p] \in {"new", "insert"} PROVE pc'[p] = "new"
      BY <2>2 DEF Crash
    <2>3. pc'[Boot] = "list"
      <3>1. pc[Boot] \notin {"new", "insert"}
        BY ReportsAreProcesses DEF LoaderInv, NewOK
      <3> QED BY <3>1, ReportsAreProcesses DEF Crash
    <2> QED BY <2>1, <2>2, <2>3 DEF Crash
  <1>2. TypeOK'
    <2>1. /\ pc' \in [Processes -> Loading \union {"new", "insert", "point", "done", "list", "visit"}]
          /\ held' \in [Processes -> Chains] /\ country' \in [Processes -> Countries \union {NoCountry}]
          /\ rows' \in [Processes -> SUBSET Atlas] /\ loaded' \in [Processes -> BOOLEAN]
          /\ todo' \in [Processes -> SUBSET Stored']
      BY DEF Crash
    <2>2. \A q \in Processes : country'[q] # NoCountry <=> pc'[q] \in Loading
      BY <1>1 DEF Loading
    <2>3. inflight' = {country'[q] : q \in Processes} \ {NoCountry}
      BY <1>1 DEF Crash
    <2> QED BY <2>1, <2>2, <2>3 DEF Crash, Fault, LoaderInv, TypeOK
  <1>3. OneLoader' /\ BaseInv'
    BY <1>1 DEF LoaderInv, OneLoader, BaseInv
  <1>4. \A p \in Processes : RowsOK(p)' /\ GateOK(p)' /\ HeldOK(p)' /\ NewOK(p)'
    BY <1>1 DEF RowsOK, GateOK, HeldOK, NewOK, LoaderInv, Processes
  <1> QED BY <1>2, <1>3, <1>4 DEF LoaderInv

LEMMA UnchangedKeeps ==
  ASSUME LoaderInv, UNCHANGED vars
  PROVE  LoaderInv'
  <1>1. TypeOK'
    BY DEF LoaderInv, TypeOK, vars, data, work, boot, Stored
  <1>2. OneLoader' /\ BaseInv'
    BY DEF LoaderInv, OneLoader, BaseInv, vars, data
  <1>3. \A p \in Processes : RowsOK(p)' /\ GateOK(p)' /\ HeldOK(p)' /\ NewOK(p)'
    BY DEF LoaderInv, RowsOK, GateOK, HeldOK, NewOK, Wanted, Layer, Covered, Regeocoding, vars, data, work
  <1> QED BY <1>1, <1>2, <1>3 DEF LoaderInv

LEMMA LoaderStep ==
  ASSUME LoaderInv, [Next]_vars
  PROVE  LoaderInv'
  <1>1. ASSUME NEW p \in Processes, Proceeds(p) PROVE LoaderInv'
    <2>1. pc[p] \in Loading
      BY <1>1 DEF Proceeds, Loading
    <2> QED BY <1>1, <2>1, ProceedKeeps DEF Proceeds
  <1>2. ASSUME NEW p \in Processes, Leaves(p) PROVE LoaderInv'
    BY <1>2, LeaveKeeps DEF Leaves
  <1>3. ASSUME NEW p \in Processes, Relists(p) PROVE LoaderInv'
    <2>1. InCountry(country[p]) \in SUBSET Stored /\ MissingRegion \in SUBSET Stored
      BY DEF InCountry, MissingRegion
    <2> QED BY <1>3, <2>1, AgainKeeps DEF Relists
  <1>4. ASSUME NEW p \in Processes, Downloads(p) PROVE LoaderInv'
    BY <1>4, DownloadKeeps DEF Downloads
  <1>5. ASSUME NEW p \in Processes, EnsureCountry(p) PROVE LoaderInv'
    BY <1>1, <1>2, <1>3, <1>4, <1>5, StepKinds, IngestKeeps, ResolveAgainKeeps, UpdateKeeps,
       SkipReportKeeps
  <1>6. ASSUME NEW r \in ReportIds, Timeout(r) PROVE Leaves(r)
    BY <1>6, ReportsAreProcesses, PlacesAssumption
       DEF Timeout, Fault, Leaves, SameTables, FaultStep, LoaderInv, TypeOK
  <1>7. ASSUME NEW r \in ReportIds, Report(r) PROVE LoaderInv'
    BY <1>2, <1>6, <1>7, ReportsAreProcesses, ResolveReportKeeps, InsertReportKeeps,
       EnsureForPointKeeps DEF Report
  <1> QED BY <1>5, <1>7, StartupKeeps, CrashKeeps, UnchangedKeeps DEF Next

\* The in-flight set: a country has one loader, and what its gates saw of the
\* stored layers stays true while it works.
THEOREM LoaderInvariant == Spec => []LoaderInv
  <1>1. LoaderInv /\ [Next]_vars => LoaderInv'
    BY LoaderStep
  <1> QED BY <1>1, InitLoader, PTL DEF Spec

\* Whatever is inserted, loaded, timed out or restarted, no layer is downloaded
\* that is stored.
THEOREM OnlyMissingLayersFetchedAlways == Spec => []OnlyMissingLayersFetched
  <1>1. LoaderInv => OnlyMissingLayersFetched
    BY DEF LoaderInv, OneLoader, GateOK, OnlyMissingLayersFetched
  <1> QED BY <1>1, LoaderInvariant, PTL

------------------------------------------------------------------------------
(* The ranks of what is stored and of what will be *)

LEMMA RankInjective == \A c, d \in Chains \ {"absent"} : Rank[c] = Rank[d] => c = d
  OBVIOUS

LEMMA RankTyped == \A c \in Chains : Rank[c] \in 0 .. 5 /\ (Rank[c] = 0 <=> c \in {"absent", "none"})
  OBVIOUS

\* A point resolves to no less than before, and to the same where no better area came.
LEMMA ResolveGrows ==
  ASSUME LoaderInv, LoaderInv', areas \subseteq areas', NEW point
  PROVE  /\ Rank[Resolve(point)] <= Rank[Resolve(point)']
         /\ (\A a \in areas' \ areas : a.point = point => Rank[a.chain] <= Rank[Resolve(point)])
              => Resolve(point)' = Resolve(point)
         /\ Resolve(point)' \in Chains \ {"absent"}
  <1> DEFINE old == Best(areas, point)  new == Best(areas', point)
  <1>0. Resolve(point) = old /\ Resolve(point)' = new
    BY ResolveIsBest DEF Resolve, Best
  <1>1. /\ old \in Chains \ {"absent"}
        /\ old # "none" => \E a \in areas : a.point = point /\ a.chain = old
        /\ \A a \in areas : a.point = point => Rank[a.chain] <= Rank[old]
    BY <1>0, ResolveTyped
  <1>2. /\ new \in Chains \ {"absent"}
        /\ new # "none" => \E a \in areas' : a.point = point /\ a.chain = new
        /\ \A a \in areas' : a.point = point => Rank[a.chain] <= Rank[new]
    <2>1. areas' \subseteq Atlas
      BY DEF LoaderInv, TypeOK
    <2> QED BY <2>1, BestExists
  <1> HIDE DEF old, new
  <1>t. Rank[old] \in 0 .. 5 /\ Rank[new] \in 0 .. 5
    BY <1>1, <1>2, RankTyped
  <1>n. Rank["none"] = 0
    OBVIOUS
  <1> HIDE DEF Rank
  <1>3. Rank[old] <= Rank[new]
    <2>1. CASE old = "none"
      BY <1>t, <1>n, <2>1
    <2>2. CASE old # "none"
      BY <1>1, <1>2, <2>2
    <2> QED BY <2>1, <2>2
  <1>4. ASSUME \A a \in areas' \ areas : a.point = point => Rank[a.chain] <= Rank[old] PROVE new = old
    <2>1. Rank[new] <= Rank[old]
      <3>1. CASE new = "none"
        BY <1>t, <1>n, <3>1
      <3>2. CASE new # "none"
        BY <1>1, <1>2, <1>4, <3>2
      <3> QED BY <3>1, <3>2
    <2>2. Rank[new] = Rank[old]
      BY <1>t, <1>3, <2>1
    <2> QED BY <1>1, <1>2, <2>2, RankInjective
  <1> QED BY <1>0, <1>2, <1>3, <1>4

\* The same where no area came.
LEMMA ResolveSame ==
  ASSUME LoaderInv, LoaderInv', areas \subseteq areas', NEW point,
         \A a \in areas' \ areas : a.point # point
  PROVE  Resolve(point)' = Resolve(point)
  BY ResolveGrows

\* What the step of p does to ranks is what it does to its own report.
LEMMA RankFrame ==
  ASSUME RankInv, LoaderInv', NEW p \in Processes, SameOthers(p),
         areas \subseteq areas',
         \A a \in areas' \ areas :
           country[p] # NoCountry /\ a.of = country[p] /\ a.chain \in COD \union GB,
         StoreOK(p)', \A r \in ReportIds : chain'[r] = chain[r] \/ ChainOK(r)'
  PROVE  RankInv'
  <1> USE PlacesAssumption
  <1>0. LoaderInv
    BY DEF RankInv
  <1>1. ASSUME NEW r \in ReportIds PROVE ChainOK(r)'
    <2>1. CASE chain'[r] = chain[r]
      <3>1. /\ chain[r] \in Chains /\ Resolve(At[r]) \in Chains /\ Resolve(At[r])' \in Chains
            /\ Rank[Resolve(At[r])] <= Rank[Resolve(At[r])']
        BY <1>0, ResolveGrows, ResolveTyped DEF LoaderInv, TypeOK
      <3>2. ChainOK(r)
        BY DEF RankInv
      <3> QED BY <2>1, <3>1, <3>2, RankTyped DEF ChainOK
    <2> QED BY <2>1
  <1>2. ASSUME NEW q \in Processes \ {p} PROVE StoreOK(q)'
    <2>1. /\ StoreOK(q) /\ pc'[q] = pc[q] /\ country'[q] = country[q]
          /\ held'[q] = held[q] /\ todo'[q] = todo[q] /\ held[q] \in Chains
      BY DEF RankInv, SameOthers, LoaderInv, TypeOK
    <2>2. \A r \in ReportIds :
            /\ Rank[Resolve(At[r])] <= Rank[Resolve(At[r])']
            /\ Resolve(At[r]) \in Chains /\ Resolve(At[r])' \in Chains
      BY <1>0, ResolveGrows, ResolveTyped
    <2>3. ASSUME pc[q] = "insert" PROVE Rank[held'[q]] <= Rank[Resolve(At[q])']
      <3>1. q \in ReportIds /\ Rank[held[q]] <= Rank[Resolve(At[q])]
        BY <1>0, <2>1, <2>3 DEF StoreOK, LoaderInv, NewOK
      <3> QED BY <2>1, <2>2, <3>1, RankTyped
    <2>4. ASSUME Regeocoding(q), held[q] # "absent", NEW r, r = First(todo[q])
          PROVE  /\ held[q] # "none"
                 /\ Rank[held[q]] <= Rank[Resolve(At[r])']
                 /\ Own(country[q], At[r]) => held[q] = Resolve(At[r])'
      <3>1. r \in ReportIds
        BY <1>0, <2>4, FirstOfSome DEF LoaderInv, HeldOK, TypeOK, Stored, Regeocoding
      <3>2. /\ held[q] # "none"
            /\ Rank[held[q]] <= Rank[Resolve(At[r])]
            /\ Own(country[q], At[r]) => held[q] = Resolve(At[r])
        BY <2>1, <2>4 DEF StoreOK
      <3>3. ASSUME Own(country[q], At[r]) PROVE Resolve(At[r])' = Resolve(At[r])
        <4>1. country[p] # NoCountry => country[p] # country[q]
          BY <1>0 DEF LoaderInv, OneLoader
        <4>2. areas' \subseteq Atlas
          BY DEF LoaderInv, TypeOK
        <4>3. \A a \in areas' \ areas : a.point # At[r]
          BY <3>3, <4>1, <4>2 DEF Own
        <4> QED BY <1>0, <3>1, <4>3, ResolveSame
      <3> QED BY <2>1, <2>2, <3>1, <3>2, <3>3, RankTyped
    <2>5. Regeocoding(q)' <=> Regeocoding(q)
      BY <2>1 DEF Regeocoding
    <2> QED BY <2>1, <2>3, <2>4, <2>5 DEF StoreOK, Own
  <1> QED BY <1>1, <1>2 DEF RankInv

\* A process that holds nothing promises nothing.
LEMMA StoreNothing ==
  ASSUME NEW p \in Processes, pc'[p] \notin {"insert", "regeo", "regeomissing"}
  PROVE  StoreOK(p)'
  BY DEF StoreOK, Regeocoding

\* The steps that leave the areas and the chains alone.
LEMMA RankQuiet ==
  ASSUME RankInv, LoaderInv', NEW p \in Processes, SameOthers(p),
         areas' = areas, chain' = chain, StoreOK(p)'
  PROVE  RankInv'
  BY RankFrame

LEMMA RankKinds ==
  ASSUME RankInv, LoaderInv', NEW p \in Processes,
         \/ Proceeds(p) \/ Leaves(p) \/ Relists(p) \/ Downloads(p)
  PROVE  RankInv'
  <1> USE DEF SameTables, Goto, work
  <1>0. LoaderInv
    BY DEF RankInv
  <1>1. SameOthers(p) /\ areas' = areas /\ chain' = chain
    BY <1>0 DEF Proceeds, Leaves, Relists, Downloads, Proceed, Leave, Again, Download, SameOthers, LoaderInv, TypeOK
  <1>2. CASE Proceeds(p) \/ Leaves(p) \/ Downloads(p)
    <2>1. pc'[p] \notin {"insert", "regeo", "regeomissing"}
      BY <1>0, <1>2 DEF Proceeds, Leaves, Downloads, Proceed, Leave, Download, LoaderInv, TypeOK
    <2> QED BY <1>1, <2>1, StoreNothing, RankQuiet
  <1>3. CASE Relists(p)
    <2>1. pc'[p] \in {"regeo", "regeomissing"} /\ held'[p] = "absent"
      BY <1>0, <1>3, BetweenRows DEF Relists, Again, Regeocoding, Loading, LoaderInv, TypeOK
    <2>2. StoreOK(p)'
      BY <2>1 DEF StoreOK
    <2> QED BY <1>1, <2>2, RankQuiet
  <1> QED BY <1>2, <1>3

LEMMA RankReport ==
  ASSUME RankInv, LoaderInv', NEW r \in ReportIds,
         ResolveReport(r) \/ InsertReport(r) \/ EnsureForPoint(r)
  PROVE  RankInv'
  <1> USE DEF Goto, data, work
  <1>0. LoaderInv /\ r \in Processes /\ At[r] \in Points
    BY ReportsAreProcesses, PlacesAssumption DEF RankInv
  <1>1. CASE ResolveReport(r)
    <2>1. SameOthers(r) /\ areas' = areas /\ chain' = chain
      BY <1>0, <1>1 DEF ResolveReport, SameOthers, LoaderInv, TypeOK
    <2>2. pc'[r] = "insert" /\ held'[r] \in {Resolve(At[r]), "none"}
      BY <1>0, <1>1 DEF ResolveReport, LoaderInv, TypeOK
    <2>3. Resolve(At[r])' = Resolve(At[r]) /\ Resolve(At[r]) \in Chains
      BY <1>0, <2>1, ResolveSame, ResolveTyped
    <2>4. StoreOK(r)'
      BY <2>2, <2>3, RankTyped DEF StoreOK, Regeocoding
    <2> QED BY <1>0, <2>1, <2>4, RankQuiet
  <1>2. CASE InsertReport(r)
    <2>1. /\ SameOthers(r) /\ areas' = areas /\ pc'[r] = "point" /\ pc[r] = "insert"
          /\ chain'[r] = held[r] /\ \A s \in ReportIds \ {r} : chain'[s] = chain[s]
      BY <1>0, <1>2 DEF InsertReport, SameOthers, LoaderInv, TypeOK
    <2>2. StoreOK(r)'
      BY <1>0, <2>1, StoreNothing
    <2>3. ChainOK(r)'
      <3>1. Rank[held[r]] <= Rank[Resolve(At[r])]
        BY <1>0, <2>1 DEF RankInv, StoreOK
      <3>2. Resolve(At[r])' = Resolve(At[r])
        BY <1>0, <2>1, ResolveSame
      <3> QED BY <2>1, <3>1, <3>2 DEF ChainOK
    <2> QED BY <1>0, <2>1, <2>2, <2>3, RankFrame
  <1>3. CASE EnsureForPoint(r)
    <2>1. SameOthers(r) /\ areas' = areas /\ chain' = chain /\ pc'[r] \in {"done", "cod"}
      BY <1>0, <1>3 DEF EnsureForPoint, Enter, SameOthers, LoaderInv, TypeOK
    <2> QED BY <1>0, <2>1, StoreNothing, RankQuiet
  <1> QED BY <1>1, <1>2, <1>3

LEMMA RankStartup ==
  ASSUME RankInv, LoaderInv', Startup
  PROVE  RankInv'
  <1> USE DEF Goto, data, work
  <1>0. LoaderInv /\ Boot \in Processes
    BY ReportsAreProcesses DEF RankInv
  <1>1. /\ SameOthers(Boot) /\ areas' = areas /\ chain' = chain
        /\ pc'[Boot] \in {"list", "visit", "cod", "done"}
    BY <1>0 DEF Startup, ListReported, ListUnswept, ListFails, EndVisits,
                VisitCountry, VisitReport, Enter, SameOthers, LoaderInv, TypeOK
  <1> QED BY <1>0, <1>1, StoreNothing, RankQuiet

LEMMA RankLoader ==
  ASSUME RankInv, LoaderInv', NEW p \in Processes,
         (\E a \in rows[p] : Ingest(p, a)) \/ ResolveAgain(p) \/ UpdateReportAdmin(p) \/ SkipReport(p)
  PROVE  RankInv'
  <1> USE DEF data
  <1>0. LoaderInv /\ StoreOK(p)
    BY DEF RankInv
  <1>1. ASSUME NEW a \in rows[p], Ingest(p, a) PROVE RankInv'
    <2>1. /\ pc'[p] \in {"codrows", "gbrows"} /\ country[p] # NoCountry
          /\ a.of = country[p] /\ a.chain \in COD \union GB
      BY <1>0, <1>1, LayerOfCountry DEF Ingest, LoaderInv, TypeOK, Loading, RowsOK, Wanted
    <2>2. /\ SameOthers(p) /\ chain' = chain /\ areas \subseteq areas' /\ areas' \subseteq areas \union {a}
      BY <1>0, <1>1 DEF Ingest, SameOthers, LoaderInv, TypeOK
    <2> QED BY <2>1, <2>2, StoreNothing, RankFrame
  <1>2. CASE ResolveAgain(p)
    <2> PICK r : r = First(todo[p])
      OBVIOUS
    <2>1. /\ SameOthers(p) /\ areas' = areas /\ chain' = chain
          /\ pc'[p] = pc[p] /\ country'[p] = country[p] /\ Regeocoding(p)
          /\ \/ held'[p] = "absent"
             \/ /\ held'[p] = Resolve(At[r]) /\ todo'[p] = todo[p]
                /\ Resolve(At[r]) # "none"
      BY <1>0, <1>2 DEF ResolveAgain, SameOthers, LoaderInv, TypeOK
    <2>2. Resolve(At[r])' = Resolve(At[r]) /\ Resolve(At[r]) \in Chains
      BY <1>0, <2>1, ResolveSame, ResolveTyped
    <2>3. CASE held'[p] = "absent"
      <3>1. StoreOK(p)'
        BY <2>1, <2>3 DEF StoreOK, Regeocoding
      <3> QED BY <2>1, <3>1, RankQuiet
    <2>4. CASE held'[p] = Resolve(At[r]) /\ todo'[p] = todo[p] /\ Resolve(At[r]) # "none"
      <3>1. First(todo'[p]) = r
        BY <2>4
      <3>2. /\ held'[p] = Resolve(At[r])' /\ held'[p] \in Chains \ {"none"} /\ pc'[p] # "insert"
        BY <2>1, <2>2, <2>4 DEF Regeocoding
      <3>3. StoreOK(p)'
        BY <3>1, <3>2, RankTyped DEF StoreOK
      <3> QED BY <2>1, <3>3, RankQuiet
    <2> QED BY <2>1, <2>3, <2>4
  <1>3. CASE UpdateReportAdmin(p)
    <2> PICK r : r = First(todo[p])
      OBVIOUS
    <2>1. /\ SameOthers(p) /\ areas' = areas /\ Regeocoding(p) /\ held[p] # "absent"
          /\ pc'[p] = pc[p] /\ country'[p] = country[p]
          /\ held'[p] = "absent" /\ todo'[p] \subseteq todo[p]
          /\ \A s \in ReportIds \ {r} : chain'[s] = chain[s]
          /\ r \in ReportIds => chain'[r] = held[p]
      BY <1>0, <1>3 DEF UpdateReportAdmin, SameOthers, LoaderInv, TypeOK
    <2>2. r \in ReportIds
      BY <1>0, <2>1, FirstOfSome DEF LoaderInv, TypeOK, HeldOK, Stored, Regeocoding
    <2>3. Resolve(At[r])' = Resolve(At[r])
      BY <1>0, <2>1, <2>2, ResolveSame
    <2>4. Rank[held[p]] <= Rank[Resolve(At[r])]
      BY <1>0, <2>1 DEF StoreOK
    <2>5. ChainOK(r)'
      BY <2>1, <2>2, <2>3, <2>4 DEF ChainOK
    <2>6. StoreOK(p)'
      BY <1>0, <2>1 DEF StoreOK, Regeocoding
    <2> QED BY <2>1, <2>5, <2>6, RankFrame
  <1>4. CASE SkipReport(p)
    <2>1. /\ SameOthers(p) /\ areas' = areas /\ chain' = chain /\ Regeocoding(p)
          /\ pc'[p] = pc[p] /\ country'[p] = country[p]
          /\ held'[p] = "absent" /\ todo'[p] \subseteq todo[p]
      BY <1>0, <1>4 DEF SkipReport, SameOthers, LoaderInv, TypeOK
    <2>2. StoreOK(p)'
      BY <1>0, <2>1 DEF StoreOK, Regeocoding
    <2> QED BY <2>1, <2>2, RankQuiet
  <1> QED BY <1>1, <1>2, <1>3, <1>4

LEMMA RankCrash ==
  ASSUME RankInv, LoaderInv', Crash \/ UNCHANGED vars
  PROVE  RankInv'
  <1>0. LoaderInv /\ areas' = areas /\ chain' = chain
    BY DEF RankInv, Crash, vars, data
  <1>1. \A r \in ReportIds : Resolve(At[r])' = Resolve(At[r])
    BY <1>0, ResolveSame
  <1>2. \A r \in ReportIds : ChainOK(r)'
    BY <1>0, <1>1 DEF RankInv, ChainOK
  <1>3. CASE Crash
    <2>1. \A p \in Processes : pc'[p] \notin {"insert", "regeo", "regeomissing"}
      <3>1. pc[Boot] \notin {"new", "insert"}
        BY <1>0, ReportsAreProcesses, PlacesAssumption DEF LoaderInv, NewOK
      <3>2. ASSUME NEW p \in Processes PROVE pc'[p] \in {"list", "new", "done"}
        BY <1>3, <3>1 DEF Crash
      <3> QED BY <3>2
    <2> QED BY <1>2, <2>1, StoreNothing DEF RankInv
  <1>4. CASE UNCHANGED vars
    <2>1. ASSUME NEW p \in Processes PROVE StoreOK(p)'
      <3>1. StoreOK(p) /\ UNCHANGED <<areas, pc, held, todo, country>>
        BY <1>4 DEF RankInv, vars, data, work
      <3>2. \A point : Resolve(point)' = Resolve(point)
        BY <3>1 DEF Resolve
      <3> QED BY <3>1, <3>2 DEF StoreOK, Regeocoding, First
    <2> QED BY <1>2, <2>1 DEF RankInv
  <1> QED BY <1>3, <1>4

LEMMA TimeoutLeaves ==
  ASSUME LoaderInv, NEW r \in ReportIds, Timeout(r)
  PROVE  r \in Processes /\ Leaves(r)
  BY ReportsAreProcesses, PlacesAssumption
     DEF Timeout, Fault, Leaves, SameTables, FaultStep, LoaderInv, TypeOK

LEMMA RankStep ==
  ASSUME RankInv, [Next]_vars
  PROVE  RankInv'
  <1>1. LoaderInv /\ LoaderInv'
    BY LoaderStep DEF RankInv
  <1>2. ASSUME NEW p \in Processes, EnsureCountry(p) PROVE RankInv'
    BY <1>1, <1>2, StepKinds, RankKinds, RankLoader
  <1>3. ASSUME NEW r \in ReportIds, Report(r) PROVE RankInv'
    BY <1>1, <1>3, TimeoutLeaves, RankKinds, RankReport DEF Report
  <1> QED BY <1>1, <1>2, <1>3, RankStartup, RankCrash DEF Next

LEMMA InitRank ==
  ASSUME Init PROVE RankInv
  <1>1. \A r \in ReportIds : ChainOK(r)
    <2>1. \A r \in ReportIds : Resolve(At[r]) \in Chains /\ chain[r] = "absent"
      BY InitLoader, ResolveTyped DEF Init
    <2>2. Rank["absent"] = 0
      OBVIOUS
    <2> QED BY <2>1, <2>2, RankTyped DEF ChainOK
  <1>2. \A p \in Processes : StoreOK(p)
    BY DEF Init, StoreOK, Regeocoding
  <1> QED BY <1>1, <1>2, InitLoader DEF RankInv

\* No report ever has a better area than there is, and what a loader has resolved
\* for a report where no other country has an area is still the best when it
\* stores it.
THEOREM RankInvariant == Spec => []RankInv
  <1>1. RankInv /\ [Next]_vars => RankInv'
    BY RankStep
  <1> QED BY <1>1, InitRank, PTL DEF Spec

------------------------------------------------------------------------------
(* What replaces a chain *)

\* A world of one country: what the two properties are limited to, and what a
\* deployment for one crisis is.
OneCountry == \A c, d \in Countries : c = d

LEMMA UpdateGrows ==
  ASSUME RankInv, NEW p \in Processes, UpdateReportAdmin(p), NEW r \in ReportIds
  PROVE  \/ Rank[chain'[r]] >= Rank[chain[r]]
         \/ Regeocoding(p) /\ ~Own(country[p], At[r])
  <1>0. /\ LoaderInv /\ StoreOK(p) /\ ChainOK(r) /\ chain[r] \in Chains
        /\ Resolve(At[r]) \in Chains
    BY ResolveTyped DEF RankInv, LoaderInv, TypeOK
  <1>1. /\ Regeocoding(p) /\ held[p] # "absent"
        /\ chain' = [chain EXCEPT ![First(todo[p])] = held[p]]
    BY DEF UpdateReportAdmin
  <1>2. CASE r # First(todo[p])
    BY <1>0, <1>1, <1>2, RankTyped DEF LoaderInv, TypeOK
  <1>3. CASE r = First(todo[p])
    <2>1. chain'[r] = held[p]
      BY <1>0, <1>1, <1>3 DEF LoaderInv, TypeOK
    <2>2. Own(country[p], At[r]) => held[p] = Resolve(At[r])
      BY <1>0, <1>1, <1>3 DEF StoreOK
    <2>3. CASE Own(country[p], At[r])
      BY <1>0, <2>1, <2>2, <2>3, RankTyped DEF ChainOK
    <2> QED BY <1>1, <2>3
  <1> QED BY <1>2, <1>3

LEMMA StepGrows ==
  ASSUME RankInv, Next, NEW r \in ReportIds
  PROVE  \/ Rank[chain'[r]] >= Rank[chain[r]]
         \/ \E p \in Processes : Regeocoding(p) /\ ~Own(country[p], At[r])
  <1>0. LoaderInv /\ chain[r] \in Chains
    BY DEF RankInv, LoaderInv, TypeOK
  <1>1. chain' = chain => Rank[chain'[r]] >= Rank[chain[r]]
    BY <1>0, RankTyped
  <1>2. ASSUME NEW s \in ReportIds, InsertReport(s) PROVE Rank[chain'[r]] >= Rank[chain[r]]
    <2>1. held[s] \in Chains /\ chain[s] = "absent" /\ chain' = [chain EXCEPT ![s] = held[s]]
      BY <1>0, <1>2, ReportsAreProcesses DEF InsertReport, LoaderInv, TypeOK, NewOK
    <2> QED BY <1>0, <2>1, RankTyped DEF LoaderInv, TypeOK
  <1>3. ASSUME NEW p \in Processes, EnsureCountry(p) PROVE UpdateReportAdmin(p) \/ chain' = chain
    BY <1>0, <1>3, StepKinds DEF Proceeds, Leaves, Relists, Downloads, SameTables, Ingest,
       ResolveAgain, SkipReport, data
  <1>4. ASSUME NEW s \in ReportIds, Report(s) PROVE InsertReport(s) \/ chain' = chain
    BY <1>4 DEF Report, ResolveReport, EnsureForPoint, Timeout, data
  <1>5. Startup \/ Crash => chain' = chain
    BY DEF Startup, ListReported, ListUnswept, ListFails, VisitCountry, VisitReport,
           EndVisits, Crash, data
  <1> QED BY <1>1, <1>2, <1>3, <1>4, <1>5, UpdateGrows DEF Next

\* With one country, every area of a layer is of the country that is loaded.
LEMMA AllOwn ==
  ASSUME OneCountry, NEW c \in Countries, NEW point
  PROVE  Own(c, point)
  BY AreasOfAtlas DEF OneCountry, Own

\* A chain is replaced by a lesser one only while a loader resolves reports again,
\* and only where a layer of another country has an area too, whatever fails,
\* times out or restarts.
THEOREM OnlyOthersDowngrade == Spec => OwnOnly
  <1> DEFINE Grows == \A r \in ReportIds :
                        \/ Rank[chain'[r]] >= Rank[chain[r]]
                        \/ \E p \in Processes : Regeocoding(p) /\ ~Own(country[p], At[r])
  <1>1. RankInv /\ [Next]_vars => [Grows]_vars
    BY StepGrows
  <1>2. OwnOnly <=> [][Grows]_vars
    BY DEF OwnOnly
  <1> QED BY <1>1, <1>2, RankInvariant, PTL DEF Spec

\* With one country, no report loses an area for a less authoritative or a
\* coarser one.
THEOREM NoDowngradeOfOneCountry ==
  ASSUME OneCountry PROVE Spec => NoDowngrade
  <1> DEFINE Grows == \A r \in ReportIds : Rank[chain'[r]] >= Rank[chain[r]]
  <1>1. RankInv /\ [Next]_vars => [Grows]_vars
    <2> SUFFICES ASSUME RankInv, Next, NEW r \in ReportIds PROVE Rank[chain'[r]] >= Rank[chain[r]]
      OBVIOUS
    <2>1. \A p \in Processes : Regeocoding(p) => country[p] \in Countries
      BY DEF RankInv, LoaderInv, TypeOK, Loading, Regeocoding
    <2>2. ~\E p \in Processes : Regeocoding(p) /\ ~Own(country[p], At[r])
      BY <2>1, AllOwn
    <2> QED BY <2>2, StepGrows
  <1>2. NoDowngrade <=> [][Grows]_vars
    BY DEF NoDowngrade
  <1> QED BY <1>1, <1>2, RankInvariant, PTL DEF Spec

------------------------------------------------------------------------------
(* What is out of date has a loader *)

\* An area that comes does not take a report off the lists.
LEMMA ListedShrinks ==
  ASSUME LoaderInv, LoaderInv', areas \subseteq areas', NEW r \in ReportIds, Listed(r)'
  PROVE  Listed(r)
  <1>1. ASSUME NEW a \in areas, a.point = At[r], a.chain \in COD PROVE Outlined(a.of, At[r])
    <2>1. a \in Atlas /\ a.of \in Countries /\ At[r] \in Points
      BY <1>1, AreasOfAtlas DEF LoaderInv, TypeOK
    <2>2. Outlined(a.of, At[r])'
      BY <1>1 DEF Listed
    <2>3. [chain |-> "country", of |-> a.of, point |-> At[r]] \in Atlas
      BY <2>2 DEF Outlined, LoaderInv, TypeOK
    <2> QED BY <2>1, <2>3, Outlines
  <1> QED BY <1>1 DEF Listed

\* What the step of p may do to the report r.
FreshStep(p, r) ==
  \/ chain'[r] = Resolve(At[r])'
  \/ Tends(p, r)'
  \/ /\ r \in Stored \ late /\ chain'[r] = chain[r]
     /\ Resolve(At[r])' = Resolve(At[r]) /\ ~Tends(p, r)

LEMMA FreshFrame ==
  ASSUME RankInv, RankInv', FreshInv, faults' = 0 => faults = 0, NEW p \in Processes, SameOthers(p),
         areas \subseteq areas',
         \A r \in Stored' \ late' : faults' = 0 => Placed(r)' /\ (Listed(r)' => FreshStep(p, r))
  PROVE  FreshInv'
  <1> SUFFICES ASSUME faults' = 0, faults = 0, NEW r \in Stored' \ late', Listed(r)', FreshStep(p, r)
               PROVE  chain'[r] = Resolve(At[r])' \/ \E q \in Processes : Tends(q, r)'
    BY DEF FreshInv
  <1>1. CASE /\ r \in Stored \ late /\ chain'[r] = chain[r]
             /\ Resolve(At[r])' = Resolve(At[r]) /\ ~Tends(p, r)
    <2>l. Listed(r)
      BY ListedShrinks DEF RankInv, Stored
    <2>1. CASE chain[r] = Resolve(At[r])
      BY <1>1, <2>1
    <2>2. CASE \E q \in Processes : Tends(q, r)
      <3>1. PICK q \in Processes \ {p} : Tends(q, r)
        BY <1>1, <2>2
      <3>2. /\ pc'[q] = pc[q] /\ country'[q] = country[q] /\ loaded'[q] = loaded[q]
            /\ todo'[q] = todo[q]
        BY DEF SameOthers
      <3>3. r \in InCountry(country[q]) => r \in InCountry(country[q])'
        BY <3>2 DEF InCountry, Outlined
      <3>4. r \in MissingRegion => r \in MissingRegion'
        BY <1>1 DEF MissingRegion
      <3>5. Tends(q, r)'
        BY <3>1, <3>2, <3>3, <3>4 DEF Tends, Regeocoding
      <3> QED BY <3>5
    <2> QED BY <1>1, <2>l, <2>1, <2>2 DEF FreshInv
  <1> QED BY <1>1 DEF FreshStep

\* The steps that leave the areas and the chains alone.
LEMMA FreshQuiet ==
  ASSUME RankInv, RankInv', FreshInv, faults' = 0 => faults = 0, NEW p \in Processes, SameOthers(p),
         areas' = areas, chain' = chain, late' = late,
         \A r \in Stored : faults' = 0 /\ Tends(p, r) => Tends(p, r)' \/ chain[r] = Resolve(At[r])
  PROVE  FreshInv'
  <1>1. \A r \in ReportIds : Resolve(At[r])' = Resolve(At[r])
    BY ResolveSame DEF RankInv
  <1>2. Stored' = Stored /\ Stored \subseteq ReportIds
    BY DEF Stored
  <1>3. ASSUME NEW r \in Stored' \ late', faults' = 0 PROVE Placed(r)' /\ FreshStep(p, r)
    <2>1. Placed(r)'
      BY <1>2, <1>3 DEF FreshInv, Placed
    <2>2. FreshStep(p, r)
      BY <1>1, <1>2, <1>3 DEF FreshStep
    <2> QED BY <2>1, <2>2
  <1> QED BY <1>3, FreshFrame

\* A process that is not about to resolve reports again tends none.
LEMMA TendsNothing ==
  ASSUME NEW p \in Processes,
         ~Regeocoding(p), pc[p] \in {"codrows", "gbrows"} => ~loaded[p]
  PROVE  \A r : ~Tends(p, r)
  BY DEF Tends

LEMMA FreshKinds ==
  ASSUME RankInv, RankInv', FreshInv, NEW p \in Processes,
         \/ Proceeds(p) \/ Leaves(p) \/ Relists(p) \/ Downloads(p)
  PROVE  FreshInv'
  <1> USE DEF SameTables, Goto, work, FaultStep
  <1>0. LoaderInv
    BY DEF RankInv
  <1>1. SameOthers(p) /\ areas' = areas /\ chain' = chain /\ late' = late /\ (faults' = 0 => faults = 0)
    BY <1>0 DEF Proceeds, Leaves, Relists, Downloads, Proceed, Leave, Again, Download, SameOthers, LoaderInv, TypeOK
  <1>2. CASE Proceeds(p) \/ Downloads(p)
    <2>1. \A r : ~Tends(p, r)
      BY <1>2, TendsNothing DEF Proceeds, Downloads, Regeocoding
    <2> QED BY <1>1, <2>1, FreshQuiet
  <1>3. CASE Leaves(p)
    <2>1. \A r : faults' = 0 => ~Tends(p, r)
      BY <1>3 DEF Leaves, Tends, Regeocoding
    <2> QED BY <1>1, <2>1, FreshQuiet
  <1>4. CASE Relists(p)
    <2>1. country'[p] = country[p]
      BY <1>4 DEF Relists, Again
    <2>2. ASSUME NEW r \in Stored, Tends(p, r) PROVE Tends(p, r)'
      <3>1. CASE pc[p] = "codrows" /\ Again(p, InCountry(country[p]), "regeo")
        <4>1. r \in InCountry(country[p])
          BY <2>2, <3>1 DEF Tends, Regeocoding
        <4>2. pc'[p] = "regeo" /\ todo'[p] = InCountry(country[p])
          BY <1>0, <3>1 DEF Again, LoaderInv, TypeOK
        <4> QED BY <2>1, <2>2, <4>1, <4>2 DEF Tends, Regeocoding
      <3>2. CASE pc[p] = "gbrows" /\ Again(p, MissingRegion, "regeomissing")
        <4>1. r \in MissingRegion
          BY <2>2, <3>2 DEF Tends, Regeocoding
        <4>2. pc'[p] = "regeomissing" /\ todo'[p] = MissingRegion
          BY <1>0, <3>2 DEF Again, LoaderInv, TypeOK
        <4> QED BY <2>1, <2>2, <4>1, <4>2 DEF Tends, Regeocoding
      <3> QED BY <1>4, <3>1, <3>2 DEF Relists
    <2> QED BY <1>1, <2>2, FreshQuiet
  <1> QED BY <1>2, <1>3, <1>4

LEMMA FreshReport ==
  ASSUME RankInv, RankInv', FreshInv, NEW r \in ReportIds,
         ResolveReport(r) \/ InsertReport(r) \/ EnsureForPoint(r)
  PROVE  FreshInv'
  <1> USE DEF Goto, data, work
  <1>0. LoaderInv /\ r \in Processes /\ (faults' = 0 => faults = 0)
    BY ReportsAreProcesses DEF RankInv, ResolveReport, InsertReport, EnsureForPoint, Fault,
       LoaderInv, TypeOK
  <1>1. \A s : ~Tends(r, s)
    BY TendsNothing, <1>0 DEF ResolveReport, InsertReport, EnsureForPoint, Regeocoding
  <1>2. CASE ResolveReport(r) \/ EnsureForPoint(r)
    <2>1. SameOthers(r) /\ areas' = areas /\ chain' = chain /\ late' = late
      BY <1>0, <1>2 DEF ResolveReport, EnsureForPoint, Enter, SameOthers, LoaderInv, TypeOK
    <2> QED BY <1>0, <1>1, <2>1, FreshQuiet
  <1>3. CASE InsertReport(r)
    <2>1. /\ SameOthers(r) /\ areas' = areas /\ chain'[r] = held[r]
          /\ \A s \in ReportIds \ {r} : chain'[s] = chain[s]
          /\ late' = IF held[r] = Resolve(At[r]) THEN late ELSE late \union {r}
      BY <1>0, <1>3 DEF InsertReport, SameOthers, LoaderInv, TypeOK
    <2>2. \A s \in ReportIds : Resolve(At[s])' = Resolve(At[s])
      BY <2>1, ResolveSame DEF RankInv
    <2>3. ASSUME NEW s \in Stored' \ late', faults' = 0 PROVE Placed(s)' /\ FreshStep(r, s)
      <3>1. s \in ReportIds
        BY DEF Stored
      <3>2. CASE s = r
        <4>1. chain'[s] = Resolve(At[s])
          BY <2>1, <3>2
        <4>2. ASSUME Resolve(At[s]) = "none", NEW a \in Atlas, a.point = At[s], a.chain = "country"
              PROVE  FALSE
          <5>1. a \in areas
            BY <1>0, <4>2 DEF LoaderInv, BaseInv
          <5>2. Rank["country"] <= Rank["none"]
            BY <1>0, <4>2, <5>1, ResolveTyped
          <5> QED BY <5>2
        <4>3. Placed(s)'
          BY <4>1, <4>2 DEF Placed
        <4> QED BY <2>2, <3>1, <4>1, <4>3 DEF FreshStep
      <3>3. CASE s # r
        <4>1. s \in Stored \ late /\ chain'[s] = chain[s] /\ faults = 0
          BY <1>0, <2>1, <2>3, <3>1, <3>3 DEF Stored
        <4>2. Placed(s)'
          BY <4>1 DEF Placed, FreshInv
        <4> QED BY <1>1, <2>2, <3>1, <4>1, <4>2 DEF FreshStep
      <3> QED BY <3>2, <3>3
    <2> QED BY <1>0, <2>1, <2>3, FreshFrame
  <1> QED BY <1>2, <1>3

LEMMA FreshStartup ==
  ASSUME RankInv, RankInv', FreshInv, Startup
  PROVE  FreshInv'
  <1> USE DEF Goto, data, work
  <1>0. LoaderInv /\ Boot \in Processes /\ faults \in 0 .. MaxFaults
    BY ReportsAreProcesses DEF RankInv, LoaderInv, TypeOK
  <1>1. /\ SameOthers(Boot) /\ areas' = areas /\ chain' = chain /\ late' = late
        /\ pc[Boot] \in {"list", "visit"}
        /\ faults' = 0 => faults = 0
    BY <1>0 DEF Startup, ListReported, ListUnswept, ListFails, EndVisits,
                VisitCountry, VisitReport, Enter, Fault,
                SameOthers, LoaderInv, TypeOK
  <1>2. \A s : ~Tends(Boot, s)
    BY <1>0, <1>1, TendsNothing DEF Regeocoding
  <1> QED BY <1>0, <1>1, <1>2, FreshQuiet

\* With one country there is one loader at a time.
LEMMA OnlyLoader ==
  ASSUME OneCountry, LoaderInv, NEW p \in Processes, pc[p] \in Loading
  PROVE  /\ country[p] \in Countries
         /\ \A q \in Processes : pc[q] \in Loading => q = p
  BY DEF OneCountry, LoaderInv, TypeOK, OneLoader

LEMMA FreshIngest ==
  ASSUME OneCountry, RankInv, RankInv', FreshInv, NEW p \in Processes, NEW a \in rows[p], Ingest(p, a)
  PROVE  FreshInv'
  <1>0. LoaderInv /\ LoaderInv' /\ faults \in 0 .. MaxFaults
    BY DEF RankInv, LoaderInv, TypeOK
  <1>1. /\ SameOthers(p) /\ chain' = chain /\ late' = late /\ pc' = pc /\ country' = country
        /\ areas \subseteq areas' /\ areas' \subseteq areas \union {a}
        /\ pc[p] \in {"codrows", "gbrows"} /\ pc[p] \in Loading
        /\ faults' = 0 => faults = 0
        /\ loaded'[p] = TRUE \/ (areas' = areas /\ loaded' = loaded)
        /\ areas' = areas \/ a \in areas'
    BY <1>0 DEF Ingest, Fault, SameOthers, Loading, LoaderInv, TypeOK
  <1>2. CASE areas' = areas /\ loaded' = loaded
    <2>1. \A r : Tends(p, r) => Tends(p, r)'
      <3>1. todo'[p] = todo[p]
        BY DEF Ingest
      <3> QED BY <1>1, <1>2, <3>1 DEF Tends, Regeocoding, InCountry, MissingRegion, Stored, Outlined
    <2> QED BY <1>1, <1>2, <2>1, FreshQuiet
  <1>3. CASE loaded'[p] = TRUE
    <2>0. /\ Stored' = Stored /\ Stored \subseteq ReportIds
          /\ a \in Atlas /\ a.of = country[p] /\ country[p] \in Countries
          /\ pc[p] = "codrows" => a.chain \in COD
          /\ pc[p] = "gbrows" => a.chain = "gb"
      BY <1>0, <1>1, <1>3, LayerOfCountry, OnlyLoader DEF LoaderInv, RowsOK, Wanted, Stored
    <2>1. ASSUME NEW r \in Stored \ late, faults' = 0, Listed(r)' PROVE FreshStep(p, r)
      <3>1. r \in ReportIds /\ At[r] \in Points /\ chain[r] \in Chains
        BY <1>0, <2>0, PlacesAssumption DEF LoaderInv, TypeOK
      <3>2. CASE a \notin areas' \ areas \/ a.point # At[r]
        <4>1. Resolve(At[r])' = Resolve(At[r])
          BY <1>0, <1>1, <3>2, ResolveSame
        <4>2. Tends(p, r) => Tends(p, r)'
          <5>1. r \in InCountry(country[p]) => r \in InCountry(country[p])'
            BY <1>1 DEF InCountry, Outlined, Stored
          <5>2. r \in MissingRegion => r \in MissingRegion'
            BY <1>1 DEF MissingRegion, Stored
          <5>3. todo'[p] = todo[p]
            BY DEF Ingest
          <5> QED BY <1>1, <1>3, <5>1, <5>2, <5>3 DEF Tends, Regeocoding
        <4> QED BY <1>1, <2>1, <4>1, <4>2 DEF FreshStep
      <3>3. CASE a \in areas' \ areas /\ a.point = At[r] /\ pc[p] = "codrows"
        <4>1. a \in areas' /\ a.chain \in COD /\ country'[p] = a.of
          BY <1>1, <2>0, <3>3
        <4>2. Outlined(a.of, At[r])'
          BY <2>1, <3>3, <4>1 DEF Listed
        <4>3. r \in InCountry(country[p])'
          BY <2>0, <2>1, <4>1, <4>2 DEF InCountry
        <4> QED BY <1>1, <1>3, <3>3, <4>3 DEF FreshStep, Tends
      <3>4. CASE pc[p] = "gbrows" /\ r \in MissingRegion
        <4>1. r \in MissingRegion'
          BY <1>1, <3>4 DEF MissingRegion, Stored
        <4> QED BY <1>1, <1>3, <3>4, <4>1 DEF FreshStep, Tends
      <3>5. CASE pc[p] = "gbrows" /\ r \notin MissingRegion
        <4>1. \A q \in Processes : ~Tends(q, r)
          <5>1. ~Tends(p, r)
            BY <3>5 DEF Tends, Regeocoding
          <5>2. \A q \in Processes : Tends(q, r) => q = p
            BY <1>0, <1>1, OnlyLoader DEF Tends, Regeocoding, Loading
          <5> QED BY <5>1, <5>2
        <4>2. Listed(r)
          BY <1>0, <1>1, <2>1, <3>1, ListedShrinks
        <4>3. chain[r] = Resolve(At[r])
          BY <1>1, <2>1, <4>1, <4>2 DEF FreshInv
        <4>4. Rank[a.chain] <= Rank[Resolve(At[r])]
          <5>1. Resolve(At[r]) \in {"gb", "seed", "cod1", "cod2"}
            BY <2>1, <3>1, <3>5, <4>3 DEF MissingRegion, Stored
          <5>2. \A c \in {"gb", "seed", "cod1", "cod2"} : Rank["gb"] <= Rank[c]
            OBVIOUS
          <5> QED BY <2>0, <3>5, <5>1, <5>2
        <4>5. Resolve(At[r])' = Resolve(At[r])
          BY <1>0, <1>1, <4>4, ResolveGrows
        <4> QED BY <1>1, <4>3, <4>5 DEF FreshStep
      <3> QED BY <1>1, <3>2, <3>3, <3>4, <3>5
    <2>2. \A r \in Stored \ late : faults' = 0 => Placed(r)'
      BY <1>1 DEF FreshInv, Placed
    <2> QED BY <1>1, <2>0, <2>1, <2>2, FreshFrame
  <1> QED BY <1>1, <1>2, <1>3

LEMMA FreshAgain ==
  ASSUME OneCountry, RankInv, RankInv', FreshInv, NEW p \in Processes,
         ResolveAgain(p) \/ UpdateReportAdmin(p) \/ SkipReport(p)
  PROVE  FreshInv'
  <1> USE DEF data
  <1>0. /\ LoaderInv /\ LoaderInv' /\ StoreOK(p) /\ faults \in 0 .. MaxFaults
        /\ Stored \subseteq ReportIds
    BY DEF RankInv, LoaderInv, TypeOK, Stored
  <1>1. PICK r : r = First(todo[p])
    OBVIOUS
  <1>2. /\ SameOthers(p) /\ areas' = areas /\ late' = late /\ Regeocoding(p) /\ pc[p] \in Loading
        /\ pc' = pc /\ country' = country /\ loaded' = loaded
        /\ todo'[p] = todo[p] \/ todo'[p] = todo[p] \ {r}
        /\ faults' = 0 => faults = 0 /\ ~SkipReport(p)
    BY <1>0, <1>1 DEF ResolveAgain, UpdateReportAdmin, SkipReport, Fault, SameOthers,
                      Regeocoding, Loading, LoaderInv, TypeOK
  <1>3. r \in todo[p] /\ r \in ReportIds /\ r \in Stored
    BY <1>0, <1>1, FirstOfSome DEF ResolveAgain, UpdateReportAdmin, SkipReport, LoaderInv, TypeOK,
                                   HeldOK, Stored, Regeocoding
  <1>4. \A s \in ReportIds : Resolve(At[s])' = Resolve(At[s])
    BY <1>0, <1>2, ResolveSame
  <1>5. ASSUME NEW s, s # r \/ todo'[p] = todo[p], Tends(p, s) PROVE Tends(p, s)'
    BY <1>2, <1>5 DEF Tends, Regeocoding
  <1>6. CASE SkipReport(p)
    BY <1>2, <1>6 DEF FreshInv
  <1>7. CASE ResolveAgain(p)
    <2>1. chain' = chain
      BY <1>7 DEF ResolveAgain
    <2>2. ASSUME faults' = 0, r \notin late, todo'[p] # todo[p] PROVE chain[r] = Resolve(At[r])
      <3>1. /\ Rank[chain[r]] <= Rank[Resolve(At[r])]
            /\ chain[r] \in Chains \ {"absent"}
        BY <1>0, <1>3 DEF RankInv, ChainOK, LoaderInv, TypeOK, Stored
      <3>2. CASE Resolve(At[r]) = "none"
        BY <3>1, <3>2, RankTyped
      <3>3. CASE Resolve(At[r]) = "country"
        <4>1. \E a \in Atlas : a.point = At[r] /\ a.chain = "country"
          BY <1>0, <3>3, ResolveTyped DEF LoaderInv, TypeOK
        <4>2. chain[r] # "none"
          BY <1>2, <1>3, <2>2, <4>1 DEF FreshInv, Placed
        <4>3. Rank[chain[r]] <= 1
          BY <3>1, <3>3
        <4> QED BY <3>1, <3>3, <4>2, <4>3
      <3> QED BY <1>0, <1>1, <1>7, <2>2, <3>2, <3>3 DEF ResolveAgain, LoaderInv, TypeOK
    <2>3. ASSUME NEW s \in Stored' \ late', faults' = 0 PROVE Placed(s)' /\ FreshStep(p, s)
      <3>1. s \in Stored \ late /\ s \in ReportIds /\ chain'[s] = chain[s] /\ Placed(s)
        BY <1>0, <1>2, <2>1, <2>3 DEF Stored, FreshInv
      <3>2. Placed(s)'
        BY <3>1 DEF Placed
      <3>3. Tends(p, s) => Tends(p, s)' \/ chain[s] = Resolve(At[s])
        BY <1>5, <2>2, <2>3, <3>1
      <3> QED BY <1>4, <3>1, <3>2, <3>3 DEF FreshStep
    <2> QED BY <1>2, <2>3, FreshFrame
  <1>8. CASE UpdateReportAdmin(p)
    <2>1. /\ chain'[r] = held[p] /\ \A s \in ReportIds \ {r} : chain'[s] = chain[s]
          /\ held[p] # "absent"
      BY <1>0, <1>1, <1>3, <1>8 DEF UpdateReportAdmin, LoaderInv, TypeOK
    <2>2. held[p] = Resolve(At[r]) /\ held[p] # "none"
      <3>1. Own(country[p], At[r])
        BY <1>0, <1>2, OnlyLoader, AllOwn
      <3> QED BY <1>0, <1>1, <1>2, <2>1, <3>1 DEF StoreOK
    <2>3. ASSUME NEW s \in Stored' \ late', faults' = 0 PROVE Placed(s)' /\ FreshStep(p, s)
      <3>1. s \in ReportIds
        BY DEF Stored
      <3>2. CASE s = r
        BY <1>4, <2>1, <2>2, <3>1, <3>2 DEF FreshStep, Placed
      <3>3. CASE s # r
        <4>1. s \in Stored \ late /\ chain'[s] = chain[s] /\ Placed(s)
          BY <1>2, <2>1, <2>3, <3>1, <3>3 DEF Stored, FreshInv
        <4>2. Placed(s)'
          BY <4>1 DEF Placed
        <4> QED BY <1>4, <1>5, <3>1, <3>3, <4>1, <4>2 DEF FreshStep
      <3> QED BY <3>2, <3>3
    <2> QED BY <1>2, <2>3, FreshFrame
  <1> QED BY <1>6, <1>7, <1>8

LEMMA FreshNext ==
  ASSUME OneCountry, RankInv, RankInv', FreshInv, [Next]_vars
  PROVE  FreshInv'
  <1>0. LoaderInv /\ faults \in 0 .. MaxFaults
    BY DEF RankInv, LoaderInv, TypeOK
  <1>1. ASSUME NEW p \in Processes, EnsureCountry(p) PROVE FreshInv'
    BY <1>0, <1>1, StepKinds, FreshKinds, FreshIngest, FreshAgain
  <1>2. ASSUME NEW r \in ReportIds, Report(r) PROVE FreshInv'
    BY <1>0, <1>2, TimeoutLeaves, FreshKinds, FreshReport DEF Report
  <1>3. CASE Crash
    BY <1>0, <1>3 DEF Crash, Fault, FreshInv
  <1>4. CASE UNCHANGED vars
    <2>1. \A p \in Processes : SameOthers(p) /\ \A r : Tends(p, r) => Tends(p, r)'
      BY <1>4 DEF SameOthers, Tends, Regeocoding, InCountry, Outlined, MissingRegion, Stored,
                  vars, data, work
    <2> QED BY <1>4, <2>1, FreshQuiet, ReportsAreProcesses DEF vars, data
  <1> QED BY <1>1, <1>2, <1>3, <1>4, FreshStartup DEF Next

\* With one country, and as long as nothing failed, a report that is out of date
\* and was not when it was inserted has a loader that will resolve it again.
THEOREM FreshInvariant == ASSUME OneCountry PROVE Spec => [](RankInv /\ FreshInv)
  <1>1. Init => RankInv /\ FreshInv
    BY InitRank DEF Init, FreshInv, Stored
  <1>2. RankInv /\ FreshInv /\ [Next]_vars => (RankInv /\ FreshInv)'
    BY RankStep, FreshNext
  <1> QED BY <1>1, <1>2, PTL DEF Spec

\* With one country, when no goroutine is left and nothing failed, every report
\* has the best area that is loaded, but for those that were out of date when
\* they were inserted and those in an official area beyond the outline.
THEOREM AreasUpToDateOfOneCountry == ASSUME OneCountry PROVE Spec => []AreasUpToDate
  <1>1. RankInv /\ FreshInv => AreasUpToDate
    BY DEF FreshInv, AreasUpToDate, Quiet, Tends, Regeocoding
  <1> QED BY <1>1, FreshInvariant, PTL

==============================================================================
