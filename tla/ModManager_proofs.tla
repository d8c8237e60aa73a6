------------------------- MODULE ModManager_proofs --------------------------
(***************************************************************************)
(* Files belong to the mods that should have them, the engine reads them   *)
(* from there, and constants mean one mod: for every set of mods, names,   *)
(* priorities, paths and constants.                                        *)
(*                                                                         *)
(* That the owner is served needs more than the table: InFront says that   *)
(* nothing but the directory of compiled assets is in front of the current *)
(* mod's, whatever the engine has added, and Compiled that this directory  *)
(* has no file the table does not know of.                                 *)
(***************************************************************************)
EXTENDS ModManager, FiniteSetTheorems, WellFoundedInduction, SequenceTheorems, TLAPS

\* Nothing is in front of the current mod's directory but that of compiled assets.
InFront(order) ==
    current # "none" =>
        \E i \in DOMAIN order :
            order[i] = current /\ \A j \in 1..(i - 1) : order[j] = "built"

\* The directory of compiled assets has a file just when the table says so.
Compiled ==
    running =>
        \A p \in Paths \ {Pdef} : compiled[p] # "none" <=> modFiles[p] = "built"

ActiveLoaded == active \subseteq LoadedMods

\* The inductive invariant.
IInv ==
    /\ TypeOK /\ ActiveLoaded /\ ConstantsDefined /\ OwnersWin
    /\ InFront(search) /\ Compiled /\ ServesOwner

-----------------------------------------------------------------------------
(* First and last positions.                                                *)

LEMMA Least ==
    ASSUME NEW S, S \subseteq Nat, S # {}
    PROVE  \E i \in S : \A j \in S : i <= j
<1> DEFINE R == OpToRel(<, Nat)
<1>1. IsWellFoundedOn(R, Nat)
  BY NatLessThanWellFounded
<1>2. \A i, j \in Nat : i < j => <<i, j>> \in R
  BY DEF OpToRel
<1> HIDE DEF R
<1>3. PICK i \in S : \A j \in S : ~(<<j, i>> \in R)
  BY <1>1, WFMin
<1>4. ASSUME NEW j \in S PROVE i <= j
  <2>1. i \in Nat /\ j \in Nat
    OBVIOUS
  <2>2. ~(j < i)
    BY <1>2, <1>3, <2>1
  <2> QED
    BY <2>1, <2>2
<1> QED
  BY <1>4

LEMMA Greatest ==
    ASSUME NEW n \in Nat, NEW S, S \subseteq 1..n, S # {}
    PROVE  \E i \in S : \A j \in S : j <= i
<1> DEFINE T == {n - j : j \in S}
<1>1. T \subseteq Nat /\ T # {}
  <2>1. \A j \in S : n - j \in Nat
    OBVIOUS
  <2> QED
    BY <2>1
<1>2. PICK k \in T : \A l \in T : k <= l
  BY <1>1, Least
<1>3. PICK i \in S : k = n - i
  OBVIOUS
<1>4. ASSUME NEW j \in S PROVE j <= i
  <2>1. n - j \in T
    OBVIOUS
  <2>2. n - i <= n - j
    BY <1>2, <1>3, <2>1
  <2> QED
    BY <2>2
<1> QED
  BY <1>4

\* The last of a sequence that is in a set.
LEMMA LastOfSet ==
    ASSUME NEW S, NEW seq \in Seq(S), NEW T
    PROVE  \/ LastOf(seq, T) = "none" /\ \A i \in DOMAIN seq : seq[i] \notin T
           \/ \E i \in DOMAIN seq :
                /\ LastOf(seq, T) = seq[i] /\ seq[i] \in T
                /\ \A j \in DOMAIN seq : seq[j] \in T => j <= i
<1> DEFINE found == {i \in DOMAIN seq : seq[i] \in T}
<1>1. CASE found = {}
  BY <1>1 DEF LastOf
<1>2. CASE found # {}
  <2>1. \E i \in found : \A j \in found : j <= i
    <3>1. found \subseteq 1..Len(seq) /\ Len(seq) \in Nat
      OBVIOUS
    <3> HIDE DEF found
    <3> QED
      BY <1>2, <3>1, Greatest
  <2> DEFINE i == CHOOSE i \in found : \A j \in found : j <= i
  <2>2. i \in found /\ \A j \in found : j <= i
    BY <2>1
  <2>3. LastOf(seq, T) = seq[i]
    BY <1>2 DEF LastOf
  <2> HIDE DEF i
  <2> QED
    BY <2>2, <2>3
<1> QED
  BY <1>1, <1>2

\* The first search path that has a file.
LEMMA FoundFirst ==
    ASSUME NEW S, NEW order \in Seq(S), NEW path, NEW built
    PROVE  \/ /\ Found(path, order, built) = "missing"
              /\ \A i \in DOMAIN order : ~Has(order[i], path, built)
           \/ \E i \in DOMAIN order :
                /\ Found(path, order, built) = order[i] /\ Has(order[i], path, built)
                /\ \A j \in 1..(i - 1) : ~Has(order[j], path, built)
<1> DEFINE having == {i \in DOMAIN order : Has(order[i], path, built)}
<1>1. CASE having = {}
  BY <1>1 DEF Found
<1>2. CASE having # {}
  <2>0. having \subseteq Nat /\ DOMAIN order = 1..Len(order) /\ Len(order) \in Nat
    OBVIOUS
  <2>1. \E i \in having : \A j \in having : i <= j
    <3> HIDE DEF having
    <3> QED
      BY <1>2, <2>0, Least
  <2> DEFINE i == CHOOSE i \in having : \A j \in having : i <= j
  <2>2. i \in having /\ \A j \in having : i <= j
    BY <2>1
  <2>3. Found(path, order, built) = order[i]
    BY <1>2 DEF Found
  <2> HIDE DEF i
  <2>4. ASSUME NEW j \in 1..(i - 1) PROVE ~Has(order[j], path, built)
    <3>1. j \in DOMAIN order /\ ~(i <= j)
      BY <2>0, <2>2
    <3> QED
      BY <2>2, <3>1
  <2> QED
    BY <2>2, <2>3, <2>4
<1> QED
  BY <1>1, <1>2

\* A directory moved to the head; the others keep their order.
LEMMA Moved ==
    ASSUME NEW S, NEW order \in Seq(S), NEW d \in S
    PROVE  /\ ToHead(d, order) \in Seq(S) /\ 1 \in DOMAIN ToHead(d, order)
           /\ ToHead(d, order)[1] = d
           /\ \A i \in DOMAIN order : order[i] # d =>
                \E k \in DOMAIN ToHead(d, order) :
                   /\ ToHead(d, order)[k] = order[i]
                   /\ \A l \in 1..(k - 1) :
                        \/ ToHead(d, order)[l] = d
                        \/ \E j \in 1..(i - 1) : ToHead(d, order)[l] = order[j]
<1> DEFINE found == {i \in DOMAIN order : order[i] = d}
           n == Len(order)
           at == IF found = {} THEN n + 1 ELSE CHOOSE i \in found : TRUE
           m == IF found = {} THEN at ELSE n
           r == [i \in 1..m |-> IF i = 1 THEN d ELSE order[IF i <= at THEN i - 1 ELSE i]]
<1>1. ToHead(d, order) = r
  BY DEF ToHead
<1>2. /\ DOMAIN order = 1..n /\ n \in Nat
      /\ \A i \in 1..n : order[i] \in S
  OBVIOUS
<1>3. /\ at \in Nat /\ m \in Nat /\ 1 <= at /\ at <= m /\ m <= n + 1
      /\ m = n + 1 => at = n + 1
      /\ \A i \in 1..n : order[i] # d => i # at
      /\ m = n \/ m = n + 1
  <2>1. CASE found = {}
    BY <2>1, <1>2
  <2>2. CASE found # {}
    <3>1. at \in found /\ m = n
      BY <2>2
    <3>2. at \in 1..n /\ order[at] = d
      BY <3>1, <1>2
    <3> HIDE DEF at, m, found
    <3> QED
      BY <3>1, <3>2, <1>2
  <2> QED
    BY <2>1, <2>2
<1> HIDE DEF at, m, n, found
<1>4. /\ DOMAIN r = 1..m /\ 1 \in 1..m /\ r[1] = d
      /\ \A i \in 1..m : i # 1 /\ i <= at => r[i] = order[i - 1] /\ i - 1 \in 1..n
      /\ \A i \in 1..m : i # 1 /\ ~(i <= at) => r[i] = order[i] /\ i \in 1..n
  BY <1>3, <1>2
<1> HIDE DEF r
<1>5. r \in Seq(S)
  <2>1. \A i \in 1..m : r[i] \in S
    BY <1>2, <1>4
  <2>2. r \in [1..m -> S]
    <3>1. r = [i \in 1..m |-> r[i]]
      BY <1>4 DEF r
    <3> QED
      BY <2>1, <3>1
  <2> QED
    BY <2>2, <1>3, SeqDef
<1>6. ASSUME NEW i \in 1..n, order[i] # d
      PROVE  \E k \in 1..m :
                /\ r[k] = order[i]
                /\ \A l \in 1..(k - 1) : r[l] = d \/ \E j \in 1..(i - 1) : r[l] = order[j]
  <2>1. CASE i < at
    <3>1. i + 1 \in 1..m /\ i + 1 <= at /\ i + 1 # 1
      BY <2>1, <1>2, <1>3
    <3>2. r[i + 1] = order[i]
      BY <3>1, <1>4
    <3>3. ASSUME NEW l \in 1..i, l # 1 PROVE l - 1 \in 1..(i - 1) /\ r[l] = order[l - 1]
      <4>1. l \in 1..m /\ l <= at
        BY <3>1, <3>3, <1>3
      <4> QED
        BY <3>3, <4>1, <1>4
    <3> QED
      BY <3>1, <3>2, <3>3, <1>4
  <2>2. CASE ~(i < at)
    <3>1. i \in 1..m /\ ~(i <= at) /\ i # 1
      BY <2>2, <1>2, <1>3, <1>6
    <3>2. r[i] = order[i]
      BY <3>1, <1>4
    <3>3. ASSUME NEW l \in 1..(i - 1), l # 1 PROVE \E j \in 1..(i - 1) : r[l] = order[j]
      <4>1. l \in 1..m
        BY <3>1, <3>3, <1>3
      <4>2. CASE l <= at
        <5>1. l - 1 \in 1..(i - 1)
          BY <3>3, <3>1
        <5> QED
          BY <3>3, <4>1, <4>2, <5>1, <1>4
      <4>3. CASE ~(l <= at)
        BY <3>3, <4>1, <4>3, <1>4
      <4> QED
        BY <4>2, <4>3
    <3> QED
      BY <3>1, <3>2, <3>3, <1>4
  <2> QED
    BY <2>1, <2>2
<1> QED
  BY <1>1, <1>2, <1>4, <1>5, <1>6

-----------------------------------------------------------------------------
(* Loading.                                                                 *)

LEMMA ModsFinite == ASSUME NEW S, S \subseteq Mods PROVE Cardinality(S) \in Nat
<1>1. IsFiniteSet(S)
  BY ModsAssumption, FS_Subset
<1> QED
  BY <1>1, FS_CardinalityType

LEMMA NotMods ==
    {"none", "built", "game", "archive", "missing"} \cap Mods = {}
BY ModsAssumption

\* What a directory adds does not clash with what earlier ones have added.
LEMMA NoClash ==
    ASSUME NEW order, NEW adds, NEW i \in Nat, NEW j \in 1..(i - 1),
           Adds(order, adds, i), NEW d \in adds[order[j]], NEW e \in adds[order[i]],
           d[1] = e[1]
    PROVE  d[2] = e[2]
<1>1. d \in Defined(order, adds, i)
  BY DEF Defined
<1>2. e \in Defines[order[i]] \ Clashes(order[i], Defined(order, adds, i))
  BY DEF Adds
<1> QED
  BY <1>1, <1>2 DEF Clashes

\* Whatever the order of the directories is, constants mean one mod, and the mods that
\* are loaded have all of theirs.
LEMMA ReadingsDefine ==
    ASSUME NEW read \in Readings
    PROVE  /\ read.mods \subseteq Mods
           /\ read.constants \subseteq UNION {Defines[m] : m \in Mods}
           /\ \A m \in read.mods : Defines[m] \subseteq read.constants
           /\ \A d, e \in read.constants : d[1] = e[1] => d[2] = e[2]
<1> DEFINE All == UNION {Defines[m] : m \in Mods}
           N == Cardinality(Mods)
<1>1. PICK order \in Orders(Mods), adds \in [Mods -> SUBSET All] :
        /\ \A m \in Mods : adds[m] \subseteq Defines[m]
        /\ \A i \in DOMAIN order : Adds(order, adds, i)
        /\ read = [constants |-> UNION {adds[m] : m \in Mods},
                   mods |-> ReadSuccessfully(order, adds)]
  BY DEF Readings
<1>2. /\ N \in Nat /\ DOMAIN order = 1..N
      /\ \A m \in Mods : \E i \in 1..N : order[i] = m
  BY <1>1, ModsFinite DEF Orders
<1>3. /\ read.constants = UNION {adds[m] : m \in Mods}
      /\ read.mods = ReadSuccessfully(order, adds)
  BY <1>1
<1>4. read.mods \subseteq Mods /\ read.constants \subseteq All
  BY <1>1, <1>3 DEF ReadSuccessfully
<1>5. ASSUME NEW m \in read.mods PROVE Defines[m] \subseteq read.constants
  <2>1. PICK i \in DOMAIN order :
          order[i] = m /\ Clashes(m, Defined(order, adds, i)) = {}
    BY <1>3 DEF ReadSuccessfully
  <2>2. adds[m] = Defines[m]
    BY <2>1, <1>1 DEF Adds
  <2> QED
    BY <2>2, <1>3, <1>4
<1>6. ASSUME NEW d \in read.constants, NEW e \in read.constants, d[1] = e[1]
      PROVE  d[2] = e[2]
  <2>1. PICK a \in Mods : d \in adds[a]
    BY <1>3
  <2>2. PICK b \in Mods : e \in adds[b]
    BY <1>3
  <2>3. CASE a = b
    <3>1. d \in Defines[a] /\ e \in Defines[a]
      BY <2>1, <2>2, <2>3, <1>1
    <3> QED
      BY <3>1, <1>6, ModsAssumption
  <2>4. CASE a # b
    <3>1. PICK i \in 1..N : order[i] = a
      BY <1>2
    <3>2. PICK j \in 1..N : order[j] = b
      BY <1>2
    <3>3. CASE i < j
      <4>1. i \in 1..(j - 1) /\ j \in Nat /\ Adds(order, adds, j)
        BY <3>3, <1>1, <1>2
      <4> QED
        BY <4>1, <3>1, <3>2, <2>1, <2>2, <1>6, NoClash
    <3>4. CASE j < i
      <4>1. j \in 1..(i - 1) /\ i \in Nat /\ Adds(order, adds, i)
        BY <3>4, <1>1, <1>2
      <4>2. e[1] = d[1]
        BY <1>6
      <4>3. e[2] = d[2]
        BY <4>1, <4>2, <3>1, <3>2, <2>1, <2>2, NoClash
      <4> QED
        BY <4>3
    <3> QED
      BY <3>1, <3>2, <3>3, <3>4, <2>4, <1>2
  <2> QED
    BY <2>3, <2>4
<1> QED
  BY <1>4, <1>5, <1>6

\* After the mods are loaded, everything is as it should be.
LEMMA Loaded ==
    ASSUME NEW readable \in Settings \cup {NoFile, Invalid},
           NEW document \in Settings \cup {Invalid}, hasCfg \in BOOLEAN,
           Load(NoFiles, readable, document)
    PROVE  /\ doc' \in Settings \cup {Invalid} /\ hasCfg' \in BOOLEAN
           /\ loaded' \in Seq(Mods) /\ enabled' \in [Mods -> BOOLEAN] /\ active' \subseteq Mods
           /\ constants' \subseteq UNION {Defines[m] : m \in Mods}
           /\ modFiles' \in [Keys -> Mods \cup {"none"}]
           /\ compiled' = NothingBuilt /\ served' = NothingOpened
           /\ ActiveLoaded' /\ ConstantsDefined' /\ OwnersWin'
<1>1. PICK read \in Readings :
        /\ constants' = read.constants
        /\ loaded' \in Sorted(read.mods)
        /\ active' \subseteq read.mods
  BY DEF Load
<1>2. /\ read.mods \subseteq Mods
      /\ read.constants \subseteq UNION {Defines[m] : m \in Mods}
      /\ \A m \in read.mods : Defines[m] \subseteq read.constants
      /\ \A d, e \in read.constants : d[1] = e[1] => d[2] = e[2]
  BY ReadingsDefine
<1> DEFINE n == Cardinality(read.mods)
<1>3. /\ n \in Nat /\ loaded' \in [1..n -> read.mods] /\ DOMAIN loaded' = 1..n
      /\ \A m \in read.mods : \E i \in 1..n : loaded'[i] = m
      /\ \A i, j \in 1..n : i < j => Priority[loaded'[i]] <= Priority[loaded'[j]]
  BY <1>1, <1>2, ModsFinite DEF Sorted, Orders
<1> HIDE DEF n
<1>4. loaded' \in Seq(Mods)
  <2>1. loaded' \in [1..n -> Mods]
    BY <1>2, <1>3
  <2> QED
    BY <2>1, <1>3, SeqDef
<1>5. LoadedMods' = read.mods
  <2>1. LoadedMods' = {loaded'[i] : i \in 1..n}
    BY <1>3 DEF LoadedMods
  <2> QED
    BY <2>1, <1>3
<1>6. /\ doc' \in Settings \cup {Invalid} /\ hasCfg' \in BOOLEAN
      /\ enabled' \in [Mods -> BOOLEAN]
      /\ compiled' = NothingBuilt /\ served' = NothingOpened
      /\ modFiles' = Registered(NoFiles, loaded', active')
  <2>1. doc' \in Settings \cup {Invalid}
    BY DEF Load
  <2>2. hasCfg' \in BOOLEAN
    BY DEF Load
  <2>3. enabled' \in [Mods -> BOOLEAN]
    BY DEF Load
  <2>4. /\ compiled' = NothingBuilt /\ served' = NothingOpened
        /\ modFiles' = Registered(NoFiles, loaded', active')
    BY DEF Load
  <2> QED
    BY <2>1, <2>2, <2>3, <2>4
<1>7. ActiveLoaded' /\ active' \subseteq Mods
  BY <1>1, <1>2, <1>5 DEF ActiveLoaded
<1>8. ConstantsDefined'
  BY <1>1, <1>2, <1>5 DEF ConstantsDefined
<1>9. /\ modFiles' = [k \in Keys |->
            IF k \notin Paths THEN "none"
            ELSE LastOf(loaded', {m \in active' : k \in Overrides[m]})]
  BY <1>6 DEF Registered, NoFiles
<1>10. ASSUME NEW p \in Paths
       PROVE  LET having == {m \in active' : p \in Overrides[m]} IN
              \/ modFiles'[p] = "none" /\ having = {}
              \/ /\ modFiles'[p] \in having \cap LoadedMods'
                 /\ \A m \in having : Priority[m] <= Priority[modFiles'[p]]
  <2> DEFINE having == {m \in active' : p \in Overrides[m]}
  <2>1. modFiles'[p] = LastOf(loaded', having)
    BY <1>9 DEF Keys
  <2>2. having \subseteq read.mods
    BY <1>1
  <2> HIDE DEF having
  <2>3. CASE LastOf(loaded', having) = "none" /\ \A i \in DOMAIN loaded' : loaded'[i] \notin having
    <3>1. having = {}
      BY <2>2, <2>3, <1>3
    <3> QED
      BY <2>1, <2>3, <3>1 DEF having
  <2>4. CASE \E i \in DOMAIN loaded' :
               /\ LastOf(loaded', having) = loaded'[i] /\ loaded'[i] \in having
               /\ \A j \in DOMAIN loaded' : loaded'[j] \in having => j <= i
    <3>1. PICK i \in 1..n :
            /\ modFiles'[p] = loaded'[i] /\ loaded'[i] \in having
            /\ \A j \in 1..n : loaded'[j] \in having => j <= i
      BY <2>1, <2>4, <1>3
    <3>2. ASSUME NEW m \in having PROVE Priority[m] <= Priority[loaded'[i]]
      <4>1. PICK j \in 1..n : loaded'[j] = m
        BY <2>2, <1>3
      <4>2. j < i \/ j = i
        BY <3>1, <4>1
      <4>3. Priority[m] \in Nat
        BY <2>2, <1>2, ModsAssumption
      <4> QED
        BY <4>1, <4>2, <4>3, <1>3
    <3> QED
      BY <3>1, <3>2, <2>2, <1>5 DEF having
  <2> QED
    BY <2>3, <2>4, <1>4, LastOfSet
<1>11. modFiles' \in [Keys -> Mods \cup {"none"}]
  <2>1. \A k \in Keys : modFiles'[k] \in Mods \cup {"none"}
    BY <1>7, <1>9, <1>10
  <2> QED
    BY <2>1, <1>9
<1>12. OwnersWin'
  BY <1>7, <1>10, NotMods DEF OwnersWin
<1> QED
  BY <1>1, <1>2, <1>4, <1>6, <1>7, <1>8, <1>11, <1>12

\* What has loaded the mods has established the invariant.
LEMMA StepLoad ==
    ASSUME IInv, running' \in BOOLEAN, file' \in Settings \cup {NoFile, Invalid},
           NEW readable \in Settings \cup {NoFile, Invalid},
           NEW document \in Settings \cup {Invalid},
           Load(NoFiles, readable, document), UNCHANGED paths
    PROVE  IInv'
<1>1. /\ doc' \in Settings \cup {Invalid} /\ hasCfg' \in BOOLEAN
      /\ loaded' \in Seq(Mods) /\ enabled' \in [Mods -> BOOLEAN] /\ active' \subseteq Mods
      /\ constants' \subseteq UNION {Defines[m] : m \in Mods}
      /\ modFiles' \in [Keys -> Mods \cup {"none"}]
      /\ compiled' = NothingBuilt /\ served' = NothingOpened
      /\ ActiveLoaded' /\ ConstantsDefined' /\ OwnersWin'
  <2>1. hasCfg \in BOOLEAN
    BY DEF IInv, TypeOK
  <2> QED
    BY <2>1, Loaded
<1>2. search' = search /\ current' = current
  BY DEF paths
<1>3. compiled' \in [Paths -> Directories \cup {"archive", "missing", "none"}]
  BY <1>1 DEF NothingBuilt
<1>4. modFiles' \in [Keys -> Mods \cup {"built", "none"}]
  BY <1>1
<1>5. TypeOK'
  BY <1>1, <1>2, <1>3, <1>4 DEF IInv, TypeOK
<1>6. InFront(search)'
  BY <1>2 DEF IInv, InFront
<1>7. Compiled'
  <2>1. ASSUME NEW p \in Paths PROVE compiled'[p] = "none" /\ modFiles'[p] # "built"
    BY <1>1, NotMods DEF NothingBuilt, Keys
  <2> QED
    BY <2>1 DEF Compiled
<1>8. ServesOwner'
  BY <1>1 DEF ServesOwner, NothingOpened
<1> QED
  BY <1>1, <1>5, <1>6, <1>7, <1>8 DEF IInv

LEMMA SavedType == ASSUME TypeOK PROVE Saved \in Settings \cup {Invalid}
<1>1. CASE hasCfg /\ doc = Invalid
  BY <1>1 DEF Saved
<1>2. CASE ~(hasCfg /\ doc = Invalid)
  <2>1. hasCfg => doc \in Settings
    BY <1>2 DEF TypeOK
  <2>2. ASSUME NEW n \in Names,
               NEW last, last = LastOf(loaded, {m \in Mods : NameOf[m] = n})
        PROVE  (IF last # "none" THEN IF enabled[last] THEN "on" ELSE "off"
                ELSE IF hasCfg THEN doc[n] ELSE "absent") \in {"on", "off", "absent"}
    BY <2>1 DEF Settings
  <2>3. Saved \in Settings
    BY <1>2, <2>2 DEF Saved, Settings
  <2> QED
    BY <2>3
<1> QED
  BY <1>1, <1>2

\* What sorting returns has all of the set and nothing else.
LEMMA SortedAll ==
    ASSUME NEW S, S \subseteq Mods, NEW f \in Sorted(S)
    PROVE  {f[i] : i \in DOMAIN f} = S
<1>1. /\ f \in [1..Cardinality(S) -> S]
      /\ \A x \in S : \E i \in 1..Cardinality(S) : f[i] = x
  BY DEF Sorted, Orders
<1>2. DOMAIN f = 1..Cardinality(S)
  BY <1>1
<1> QED
  BY <1>1, <1>2

\* What is written says of a mod's name what its flag says, when the mods with the
\* same name agree.
LEMMA SavedSays ==
    ASSUME TypeOK, ~(hasCfg /\ doc = Invalid), NEW m \in LoadedMods,
           \A o \in LoadedMods : NameOf[o] = NameOf[m] => enabled[o] = enabled[m]
    PROVE  Saved \in Settings /\ Saved[NameOf[m]] = IF enabled[m] THEN "on" ELSE "off"
<1>1. m \in Mods /\ NameOf[m] \in Names /\ loaded \in Seq(Mods)
  BY ModsAssumption DEF TypeOK, LoadedMods
<1> DEFINE last(n) == LastOf(loaded, {o \in Mods : NameOf[o] = n})
<1>2. Saved = [n \in Names |->
                 IF last(n) # "none" THEN IF enabled[last(n)] THEN "on" ELSE "off"
                 ELSE IF hasCfg THEN doc[n] ELSE "absent"]
  BY DEF Saved
<1>3. \E i \in DOMAIN loaded :
        last(NameOf[m]) = loaded[i] /\ loaded[i] \in {o \in Mods : NameOf[o] = NameOf[m]}
  <2>1. PICK i \in DOMAIN loaded : loaded[i] = m
    BY DEF LoadedMods
  <2>2. loaded[i] \in {o \in Mods : NameOf[o] = NameOf[m]}
    BY <1>1, <2>1
  <2> QED
    BY <1>1, <2>2, LastOfSet
<1>4. PICK o \in LoadedMods :
        last(NameOf[m]) = o /\ o \in Mods /\ NameOf[o] = NameOf[m]
  BY <1>3 DEF LoadedMods
<1>5. enabled[o] = enabled[m] /\ o # "none"
  BY <1>4, NotMods
<1>6. Saved[NameOf[m]] = IF enabled[m] THEN "on" ELSE "off"
  <2>1. Saved[NameOf[m]] = IF enabled[o] THEN "on" ELSE "off"
    <3> HIDE DEF last
    <3> QED
      BY <1>1, <1>2, <1>4, <1>5
  <2> QED
    BY <2>1, <1>5
<1>7. Saved \in Settings
  <2>1. hasCfg => doc \in Settings
    BY DEF TypeOK
  <2>2. ASSUME NEW n \in Names, NEW l
        PROVE  (IF l # "none" THEN IF enabled[l] THEN "on" ELSE "off"
                ELSE IF hasCfg THEN doc[n] ELSE "absent") \in {"on", "off", "absent"}
    BY <2>1 DEF Settings
  <2> HIDE DEF last
  <2>3. \A n \in Names : Saved[n] \in {"on", "off", "absent"}
    BY <1>2, <2>2
  <2> QED
    BY <1>2, <2>3 DEF Settings
<1> QED
  BY <1>6, <1>7

\* What the player enabled and disabled survives a reload.
LEMMA StepChoices ==
    ASSUME TypeOK, Reload(TRUE), ~(hasCfg /\ doc = Invalid),
           NEW m \in LoadedMods, m \in LoadedMods',
           \A o \in LoadedMods : NameOf[o] = NameOf[m] => enabled[o] = enabled[m]
    PROVE  enabled'[m] = enabled[m]
<1>1. PICK s : s = Saved
  OBVIOUS
<1>2. s \in Settings /\ s[NameOf[m]] = IF enabled[m] THEN "on" ELSE "off"
  BY <1>1, SavedSays
<1>3. file' = s /\ Load(Cleared(modFiles), file', Saved)
  BY <1>1 DEF Reload
<1>4. s # NoFile /\ s # Invalid
  BY <1>2, FileAssumption DEF Settings
<1>5. doc' = s /\ hasCfg' = TRUE
  BY <1>3, <1>4 DEF Load
<1>6. PICK read \in Readings :
        /\ loaded' \in Sorted(read.mods)
        /\ active' = {o \in read.mods : EnabledBy(doc', hasCfg', o)}
  BY <1>3 DEF Load
<1>7. m \in read.mods /\ m \in Mods
  <2>1. read.mods \subseteq Mods
    BY ReadingsDefine
  <2>2. LoadedMods' = read.mods
    BY <1>6, <2>1, SortedAll DEF LoadedMods
  <2> QED
    BY <2>1, <2>2
<1>8. EnabledBy(doc', hasCfg', m) <=> enabled[m]
  <2>1. EnabledBy(doc', hasCfg', m) <=> s[NameOf[m]] = "on"
    BY <1>2, <1>4, <1>5 DEF EnabledBy
  <2> QED
    BY <1>2, <2>1
<1>9. enabled'[m] = (m \in active')
  BY <1>3, <1>7 DEF Load
<1>10. m \in active' <=> enabled[m]
  BY <1>6, <1>7, <1>8
<1>11. enabled[m] \in BOOLEAN
  BY <1>7 DEF TypeOK
<1> QED
  BY <1>9, <1>10, <1>11

LEMMA StepStart == ASSUME IInv, Start PROVE IInv'
<1>1. /\ running' \in BOOLEAN /\ file' \in Settings \cup {NoFile, Invalid}
      /\ file \in Settings \cup {NoFile, Invalid} /\ UNCHANGED paths
      /\ Load(NoFiles, file, Invalid)
  BY DEF Start, IInv, TypeOK
<1> QED
  BY <1>1, StepLoad

LEMMA StepReload == ASSUME IInv, NEW writable \in BOOLEAN, Reload(writable) PROVE IInv'
<1>1. Saved \in Settings \cup {Invalid}
  BY SavedType DEF IInv
<1>2. PICK f : f = IF writable THEN Saved ELSE file
  OBVIOUS
<1>3. f \in Settings \cup {NoFile, Invalid}
  BY <1>1, <1>2 DEF IInv, TypeOK
<1>4. /\ running' \in BOOLEAN /\ file' = f /\ UNCHANGED paths
      /\ Load(NoFiles, file', Saved)
  BY <1>2 DEF Reload, Cleared, IInv, TypeOK
<1>5. PICK d : d = Saved
  OBVIOUS
<1>6. Load(NoFiles, f, d)
  BY <1>4, <1>5 DEF Load
<1> QED
  BY <1>1, <1>3, <1>4, <1>5, <1>6, StepLoad

\* The program ends.
LEMMA StepExit == ASSUME IInv, Exit PROVE IInv'
<1>1. /\ running' = FALSE /\ file' \in {file, Invalid} /\ doc' = Invalid
      /\ hasCfg' \in BOOLEAN /\ loaded' = <<>> /\ active' = {} /\ constants' = {}
      /\ enabled' = [m \in Mods |-> FALSE] /\ modFiles' = NoFiles
      /\ search' = <<"game">> /\ current' = "none" /\ served' = NothingOpened
      /\ compiled' = compiled
  BY DEF Exit
<1>2. TypeOK'
  <2>1. search' \in Seq(Directories) /\ loaded' \in Seq(Mods)
    BY <1>1 DEF Directories
  <2>2. /\ modFiles' \in [Keys -> Mods \cup {"built", "none"}]
        /\ enabled' \in [Mods -> BOOLEAN]
    BY <1>1 DEF NoFiles
  <2> QED
    BY <1>1, <2>1, <2>2 DEF IInv, TypeOK
<1>3. LoadedMods' = {}
  BY <1>1 DEF LoadedMods
<1> QED
  BY <1>1, <1>2, <1>3
  DEF IInv, ActiveLoaded, ConstantsDefined, OwnersWin, InFront, Compiled, ServesOwner,
      NothingOpened

\* The flag of a mod is set.
LEMMA StepSet ==
    ASSUME IInv, NEW n \in Names, NEW on \in BOOLEAN, SetModEnabled(n, on)
    PROVE  IInv'
<1>1. PICK i \in DOMAIN loaded : enabled' = [enabled EXCEPT ![loaded[i]] = on]
  BY DEF SetModEnabled
<1>2. /\ served' = NothingOpened
      /\ UNCHANGED <<running, file, doc, hasCfg, loaded, active, constants, modFiles,
                     compiled, search, current>>
  BY DEF SetModEnabled, settings, files, paths
<1>3. enabled' \in [Mods -> BOOLEAN]
  BY <1>1 DEF IInv, TypeOK
<1>4. TypeOK'
  BY <1>2, <1>3 DEF IInv, TypeOK
<1>5. LoadedMods' = LoadedMods
  BY <1>2 DEF LoadedMods
<1> QED
  BY <1>2, <1>4, <1>5
  DEF IInv, ActiveLoaded, ConstantsDefined, OwnersWin, InFront, Compiled, ServesOwner,
      NothingOpened

-----------------------------------------------------------------------------
(* Opening files.                                                           *)

\* The directory of compiled assets moved to the head.
LEMMA BuiltToHead ==
    ASSUME NEW order \in Seq(Directories), InFront(order), current \in Mods \cup {"none"}
    PROVE  InFront(ToHead("built", order))
<1> SUFFICES ASSUME current # "none"
             PROVE  \E k \in DOMAIN ToHead("built", order) :
                       /\ ToHead("built", order)[k] = current
                       /\ \A l \in 1..(k - 1) : ToHead("built", order)[l] = "built"
  BY DEF InFront
<1>1. PICK i \in DOMAIN order :
        order[i] = current /\ \A j \in 1..(i - 1) : order[j] = "built"
  BY DEF InFront
<1>2. "built" \in Directories /\ order[i] # "built"
  BY <1>1, NotMods DEF Directories
<1>3. PICK k \in DOMAIN ToHead("built", order) :
        /\ ToHead("built", order)[k] = order[i]
        /\ \A l \in 1..(k - 1) :
             \/ ToHead("built", order)[l] = "built"
             \/ \E j \in 1..(i - 1) : ToHead("built", order)[l] = order[j]
  BY <1>2, Moved
<1> QED
  BY <1>1, <1>3

\* The current mod's directory moved to the head.
LEMMA CurrentToHead ==
    ASSUME NEW order \in Seq(Directories), current \in Directories
    PROVE  InFront(ToHead(current, order))
<1>1. 1 \in DOMAIN ToHead(current, order) /\ ToHead(current, order)[1] = current
  BY Moved
<1>2. 1..(1 - 1) = {}
  OBVIOUS
<1> QED
  BY <1>1, <1>2 DEF InFront

LEMMA StepAdds == ASSUME IInv, EngineAddsSearchPath PROVE IInv'
<1> DEFINE game == ToHead("game", search)
           order == IF current = "none" THEN game ELSE ToHead(current, game)
<1>1. /\ search' = ToHead("built", order) /\ served' = NothingOpened
      /\ UNCHANGED <<running, file, doc, hasCfg, loaded, enabled, active, constants,
                     modFiles, compiled, current>>
  BY DEF EngineAddsSearchPath, Readded, settings, mods, files
<1>2. game \in Seq(Directories)
  BY Moved DEF Directories, IInv, TypeOK
<1>3. current \in Mods \cup {"none"} /\ (current # "none" => current \in Directories)
  BY DEF IInv, TypeOK, Directories
<1> HIDE DEF game
<1>4. order \in Seq(Directories) /\ InFront(order)
  BY <1>2, <1>3, Moved, CurrentToHead DEF InFront
<1> HIDE DEF order
<1>5. search' \in Seq(Directories)
  BY <1>1, <1>4, Moved DEF Directories
<1>6. InFront(search)'
  <2>1. InFront(ToHead("built", order))
    BY <1>3, <1>4, BuiltToHead
  <2> QED
    BY <2>1, <1>1 DEF InFront
<1>7. TypeOK'
  BY <1>1, <1>5 DEF IInv, TypeOK
<1>8. LoadedMods' = LoadedMods
  BY <1>1 DEF LoadedMods
<1> QED
  BY <1>1, <1>6, <1>7, <1>8
  DEF IInv, ActiveLoaded, ConstantsDefined, OwnersWin, Compiled, ServesOwner, NothingOpened

\* Where a file is found is a search path, or nowhere.
LEMMA FoundType ==
    ASSUME NEW order \in Seq(Directories), NEW path, NEW built
    PROVE  Found(path, order, built) \in Directories \cup {"missing"}
<1>1. \A i \in DOMAIN order : order[i] \in Directories
  OBVIOUS
<1> QED
  BY <1>1, FoundFirst

LEMMA OriginalType ==
    ASSUME TypeOK, NEW path \in Paths
    PROVE  /\ Original(path) \in Directories \cup {"archive", "missing"}
           /\ Original(path) # "none"
<1>1. Found(path, search, compiled) \in Directories \cup {"missing"}
  BY FoundType DEF TypeOK
<1> QED
  BY <1>1, NotMods DEF Original, Directories

\* What a build changes of the tables.
LEMMA Compiling ==
    ASSUME IInv, NEW path \in Paths, CompileAssetsForFile(path)
    PROVE  /\ modFiles' \in [Keys -> Mods \cup {"built", "none"}]
           /\ compiled' \in [Paths -> Directories \cup {"archive", "missing", "none"}]
           /\ \A p \in Paths : modFiles'[p] = modFiles[p] \/ modFiles'[p] = "built"
           /\ running => \A p \in Paths \ {Pdef} : compiled'[p] # "none" <=> modFiles'[p] = "built"
<1>1. /\ modFiles \in [Keys -> Mods \cup {"built", "none"}]
      /\ compiled \in [Paths -> Directories \cup {"archive", "missing", "none"}]
      /\ running => \A p \in Paths \ {Pdef} : compiled[p] # "none" <=> modFiles[p] = "built"
  BY DEF IInv, TypeOK, Compiled
<1>2. CASE Builds(path)
  <2>1. PICK k : k = KeyOf(path)
    OBVIOUS
  <2>2. k \in Keys /\ (path # Pdef => k = path) /\ (path = Pdef => k \notin Paths)
    BY <2>1, PathsAssumption DEF KeyOf, Keys
  <2>3. PICK o : o = Original(path)
    OBVIOUS
  <2>4. o \in Directories \cup {"archive", "missing"} /\ o # "none"
    BY <2>3, OriginalType DEF IInv
  <2>5. /\ modFiles' = [modFiles EXCEPT ![k] = "built"]
        /\ compiled' = [compiled EXCEPT ![path] = o]
    BY <1>2, <2>1, <2>3 DEF CompileAssetsForFile
  <2>6. /\ modFiles' \in [Keys -> Mods \cup {"built", "none"}]
        /\ compiled' \in [Paths -> Directories \cup {"archive", "missing", "none"}]
    BY <1>1, <2>4, <2>5
  <2>7. \A p \in Paths : /\ p = k => modFiles'[p] = "built"
                         /\ p # k => modFiles'[p] = modFiles[p]
                         /\ p = path => compiled'[p] = o
                         /\ p # path => compiled'[p] = compiled[p]
    BY <1>1, <2>2, <2>5 DEF Keys
  <2>8. ASSUME running, NEW p \in Paths \ {Pdef}
        PROVE  compiled'[p] # "none" <=> modFiles'[p] = "built"
    <3>1. CASE p = path
      BY <2>2, <2>4, <2>7, <3>1
    <3>2. CASE p # path
      <4>1. p # k
        BY <2>2, <3>2
      <4> QED
        BY <2>7, <2>8, <3>2, <4>1, <1>1
    <3> QED
      BY <3>1, <3>2
  <2> QED
    BY <2>6, <2>7, <2>8
<1>3. CASE ~Builds(path)
  BY <1>1, <1>3 DEF CompileAssetsForFile, files
<1> QED
  BY <1>2, <1>3

\* A file is found in the first directory that has it.
LEMMA FoundAt ==
    ASSUME NEW order \in Seq(Directories), NEW path, NEW built, NEW i \in DOMAIN order,
           Has(order[i], path, built), \A j \in 1..(i - 1) : ~Has(order[j], path, built)
    PROVE  Found(path, order, built) = order[i]
<1>1. DOMAIN order = 1..Len(order) /\ Len(order) \in Nat
  OBVIOUS
<1>2. PICK k \in DOMAIN order :
        /\ Found(path, order, built) = order[k] /\ Has(order[k], path, built)
        /\ \A j \in 1..(k - 1) : ~Has(order[j], path, built)
  BY FoundFirst
<1>3. i \notin 1..(k - 1) /\ k \notin 1..(i - 1)
  BY <1>2
<1>4. i = k
  <2> DEFINE n == Len(order)
  <2>1. n \in Nat /\ i \in 1..n /\ k \in 1..n
    BY <1>1, <1>2
  <2> HIDE DEF n
  <2> QED
    BY <2>1, <1>3
<1> QED
  BY <1>2, <1>4

\* A file is opened, and read from where it belongs.
LEMMA StepOpen == ASSUME IInv, NEW path \in Paths, Open(path) PROVE IInv'
<1>1. /\ running /\ CompileAssetsForFile(path)
      /\ UNCHANGED <<running, file, doc, hasCfg, loaded, enabled, active, constants>>
  BY DEF Open, settings, mods
<1>2. /\ modFiles' \in [Keys -> Mods \cup {"built", "none"}]
      /\ compiled' \in [Paths -> Directories \cup {"archive", "missing", "none"}]
      /\ \A p \in Paths : modFiles'[p] = modFiles[p] \/ modFiles'[p] = "built"
      /\ \A p \in Paths \ {Pdef} : compiled'[p] # "none" <=> modFiles'[p] = "built"
  BY <1>1, Compiling
<1>3. PICK owner \in Mods \cup {"built", "none"} : owner = modFiles'[path]
  BY <1>2 DEF Keys
<1>4. /\ search' = CASE owner = "none" \/ owner = current -> search
                     [] owner = "built" -> ToHead("built", search)
                     [] OTHER -> ToHead(owner, search)
      /\ current' = IF owner \in Mods THEN owner ELSE current
  BY <1>3 DEF Open, Opened
<1>5. current \in Mods \cup {"none"} /\ search \in Seq(Directories) /\ InFront(search)
  BY DEF IInv, TypeOK
<1>6. PICK b : b = compiled'
  OBVIOUS
\* Who has the file: the owner, and the compiled assets only if they own it.
<1>7. /\ owner \in Mods => Has(owner, path, b) /\ owner \in Directories
      /\ path # Pdef /\ owner = "built" => Has("built", path, b)
      /\ path # Pdef /\ owner # "built" => ~Has("built", path, b)
  <2>1. ASSUME owner \in Mods PROVE Has(owner, path, b) /\ owner \in Directories
    <3>1. modFiles[path] = owner
      BY <2>1, <1>2, <1>3, NotMods
    <3>2. path \in Overrides[owner]
      BY <2>1, <3>1, <1>1 DEF IInv, OwnersWin
    <3>3. owner # "built" /\ owner # "game"
      BY <2>1, NotMods
    <3> QED
      BY <2>1, <3>2, <3>3 DEF Has, Directories
  <2>2. Has("built", path, b) <=> compiled'[path] # "none"
    BY <1>6 DEF Has
  <2> QED
    BY <2>1, <2>2, <1>2, <1>3
<1> DEFINE Good ==
      /\ current' \in Mods \cup {"none"} /\ search' \in Seq(Directories) /\ InFront(search)'
      /\ path # Pdef /\ owner # "none" => Found(path, search', b) = owner
<1>8. ASSUME owner = "none" PROVE Good
  <2>1. search' = search /\ current' = current
    BY <1>4, <1>8, NotMods
  <2>2. InFront(search)'
    BY <2>1, <1>5 DEF InFront
  <2> QED
    BY <2>1, <2>2, <1>5, <1>8
<1>9. ASSUME owner # "none" /\ owner = current PROVE Good
  <2>1. search' = search /\ owner \in Mods /\ current' = current
    <3>1. owner \in Mods
      BY <1>5, <1>9
    <3>2. search' = search
      <4>1. owner = "none" \/ owner = current
        BY <1>9
      <4>2. owner # "built"
        BY <3>1, NotMods
      <4> QED
        BY <4>1, <4>2, <1>4
    <3>3. current' = owner
      BY <3>1, <1>4
    <3> QED
      BY <3>1, <3>2, <3>3, <1>9
  <2>2. PICK i \in DOMAIN search :
          search[i] = current /\ \A j \in 1..(i - 1) : search[j] = "built"
    BY <1>5, <1>9 DEF InFront
  <2>3. ASSUME path # Pdef PROVE Found(path, search, b) = owner
    <3>1. owner # "built"
      BY <2>1, NotMods
    <3>2. Has(search[i], path, b) /\ \A j \in 1..(i - 1) : ~Has(search[j], path, b)
      BY <2>1, <2>2, <2>3, <3>1, <1>7, <1>9
    <3> QED
      BY <2>2, <3>2, <1>5, <1>9, FoundAt
  <2>4. InFront(search)'
    BY <2>1, <1>5 DEF InFront
  <2> QED
    BY <2>1, <2>3, <2>4, <1>5
<1>10. ASSUME owner = "built" PROVE Good
  <2>1. owner # current /\ owner \notin Mods /\ owner # "none"
    BY <1>5, <1>10, NotMods
  <2>2. search' = ToHead("built", search) /\ current' = current
    BY <2>1, <1>4, <1>10
  <2>3. PICK r : r = ToHead("built", search)
    OBVIOUS
  <2>4. r \in Seq(Directories) /\ 1 \in DOMAIN r /\ r[1] = "built" /\ InFront(r)
    BY <2>3, <1>5, Moved, BuiltToHead DEF Directories
  <2>5. ASSUME path # Pdef PROVE Found(path, r, b) = owner
    <3>1. Has(r[1], path, b) /\ 1..(1 - 1) = {}
      BY <2>4, <2>5, <1>7, <1>10
    <3> QED
      BY <2>4, <3>1, <1>10, FoundAt
  <2>6. InFront(search)'
    BY <2>2, <2>3, <2>4 DEF InFront
  <2> QED
    BY <2>2, <2>3, <2>4, <2>5, <2>6, <1>5
<1>11. ASSUME owner \in Mods /\ owner # current PROVE Good
  <2>1. owner # "built" /\ owner # "none" /\ owner \in Directories
    BY <1>7, <1>11, NotMods
  <2>2. search' = ToHead(owner, search) /\ current' = owner
    BY <2>1, <1>4, <1>11
  <2>3. PICK r : r = ToHead(owner, search)
    OBVIOUS
  <2>4. r \in Seq(Directories) /\ 1 \in DOMAIN r /\ r[1] = owner
    BY <2>1, <2>3, <1>5, Moved
  <2>5. 1..(1 - 1) = {}
    OBVIOUS
  <2>6. Found(path, r, b) = owner
    BY <2>4, <2>5, <1>7, <1>11, FoundAt
  <2>7. InFront(search)'
    BY <2>2, <2>3, <2>4, <2>5 DEF InFront
  <2> QED
    BY <2>2, <2>3, <2>4, <2>6, <2>7, <1>11
<1>12. Good
  BY <1>3, <1>8, <1>9, <1>10, <1>11
<1>13. served' =
         [path |-> path,
          from |-> IF owner = "none" /\ path \in Vanilla THEN "archive"
                   ELSE Found(path, search', b)]
  BY <1>3, <1>6 DEF Open
<1>14. /\ served'.path = path
       /\ served'.from = IF owner = "none" /\ path \in Vanilla THEN "archive"
                         ELSE Found(path, search', b)
  BY <1>13
<1>15. Found(path, search', b) \in Directories \cup {"missing"}
  BY <1>12, FoundType
<1>16. TypeOK'
  <2>1. served' \in [path : Paths, from : Directories \cup {"archive", "missing"}]
    BY <1>13, <1>15
  <2> QED
    BY <2>1, <1>1, <1>2, <1>12 DEF IInv, TypeOK
<1>17. LoadedMods' = LoadedMods
  BY <1>1 DEF LoadedMods
<1>18. ActiveLoaded' /\ ConstantsDefined'
  BY <1>1, <1>17 DEF IInv, ActiveLoaded, ConstantsDefined
<1>19. OwnersWin'
  BY <1>1, <1>2, <1>17, NotMods DEF IInv, OwnersWin
<1>20. Compiled'
  BY <1>2 DEF Compiled
<1>21. ServesOwner'
  BY <1>3, <1>12, <1>14 DEF ServesOwner
<1> QED
  BY <1>12, <1>16, <1>18, <1>19, <1>20, <1>21 DEF IInv

-----------------------------------------------------------------------------
(* The theorems.                                                            *)

THEOREM Invariance == Spec => []IInv
<1>1. Init => IInv
  <2> SUFFICES ASSUME Init PROVE IInv
    OBVIOUS
  <2>1. /\ running = FALSE /\ doc = Invalid /\ hasCfg \in BOOLEAN
        /\ loaded = <<>> /\ active = {} /\ constants = {}
        /\ enabled = [m \in Mods |-> FALSE]
        /\ modFiles = NoFiles /\ compiled = NothingBuilt
        /\ search = <<"game">> /\ current = "none" /\ served = NothingOpened
    BY DEF Init
  <2>2. file \in Settings \cup {NoFile, Invalid}
    <3>1. [NoSettings EXCEPT ![CHOOSE n \in Names : TRUE] = "off"] \in Settings
      BY DEF NoSettings, Settings
    <3> QED
      BY <3>1 DEF Init
  <2>3. TypeOK
    <3>1. search \in Seq(Directories) /\ loaded \in Seq(Mods)
      BY <2>1 DEF Directories
    <3>2. /\ modFiles \in [Keys -> Mods \cup {"built", "none"}]
          /\ enabled \in [Mods -> BOOLEAN]
          /\ compiled \in [Paths -> Directories \cup {"archive", "missing", "none"}]
      BY <2>1 DEF NoFiles, NothingBuilt
    <3> QED
      BY <2>1, <2>2, <3>1, <3>2 DEF TypeOK
  <2>4. LoadedMods = {}
    BY <2>1 DEF LoadedMods
  <2> QED
    BY <2>1, <2>3, <2>4
    DEF IInv, ActiveLoaded, ConstantsDefined, OwnersWin, InFront, Compiled, ServesOwner,
        NothingOpened
<1>2. ASSUME IInv, [Next]_vars PROVE IInv'
  <2>1. CASE Start
    BY <1>2, <2>1, StepStart
  <2>2. CASE Exit
    BY <1>2, <2>2, StepExit
  <2>3. ASSUME NEW writable \in BOOLEAN, Reload(writable) PROVE IInv'
    BY <1>2, <2>3, StepReload
  <2>4. ASSUME NEW n \in Names, NEW on \in BOOLEAN, SetModEnabled(n, on) PROVE IInv'
    BY <1>2, <2>4, StepSet
  <2>5. ASSUME NEW path \in Paths, Open(path) PROVE IInv'
    BY <1>2, <2>5, StepOpen
  <2>6. CASE EngineAddsSearchPath
    BY <1>2, <2>6, StepAdds
  <2>7. CASE UNCHANGED vars
    <3>1. UNCHANGED <<running, file, doc, hasCfg, loaded, enabled, active, constants,
                      modFiles, compiled, search, current, served>>
      BY <2>7 DEF vars, settings, mods, files, paths
    <3>2. TypeOK'
      BY <1>2, <3>1 DEF IInv, TypeOK
    <3>3. LoadedMods' = LoadedMods
      BY <3>1 DEF LoadedMods
    <3> QED
      BY <1>2, <3>1, <3>2, <3>3
      DEF IInv, ActiveLoaded, ConstantsDefined, OwnersWin, InFront, Compiled, ServesOwner
  <2> QED
    BY <1>2, <2>1, <2>2, <2>3, <2>4, <2>5, <2>6, <2>7 DEF Next
<1> QED
  BY <1>1, <1>2, PTL DEF Spec

\* Settings, mods, tables and paths keep their types.
THEOREM TypeCorrect == Spec => []TypeOK
<1>1. IInv => TypeOK
  BY DEF IInv
<1> QED
  BY <1>1, Invariance, PTL

\* Constants mean one mod each, in whatever order directories and constants are read.
THEOREM ConstantsCorrect == Spec => []ConstantsDefined
<1>1. IInv => ConstantsDefined
  BY DEF IInv
<1> QED
  BY <1>1, Invariance, PTL

\* Paths belong to the mods of the highest priority that have them.
THEOREM OwnersCorrect == Spec => []OwnersWin
<1>1. IInv => OwnersWin
  BY DEF IInv
<1> QED
  BY <1>1, Invariance, PTL

\* The engine reads a file from its owner.
THEOREM OwnersServed == Spec => []ServesOwner
<1>1. IInv => ServesOwner
  BY DEF IInv
<1> QED
  BY <1>1, Invariance, PTL
\* A reload keeps what the player enabled and disabled.
THEOREM ReloadsKeepChoices == Spec => ChoicesKept
<1>1. ASSUME IInv, Reload(TRUE) /\ ~(hasCfg /\ doc = Invalid)
      PROVE  \A m \in LoadedMods \cap LoadedMods' :
                (\A o \in LoadedMods : NameOf[o] = NameOf[m] => enabled[o] = enabled[m])
                   => enabled'[m] = enabled[m]
  <2>1. TypeOK
    BY <1>1 DEF IInv
  <2> QED
    BY <1>1, <2>1, StepChoices
<1> QED
  BY <1>1, Invariance, PTL DEF ChoicesKept
=============================================================================
