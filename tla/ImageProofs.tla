----------------------------- MODULE ImageProofs -----------------------------
(***************************************************************************)
(* Proofs about the image of every project, of any size: its code is in    *)
(* place, all parts of the assembler agree on the size of an instruction,  *)
(* and the tables lead to the functions and blocks they name.  Where all   *)
(* of an image is concerned the lines of the project give their names.     *)
(*                                                                         *)
(* An image consists of the code of the program and of the files it        *)
(* reaches: what is known of an image goes from the libraries that have    *)
(* been built to the files that link them.  Where a body starts is what    *)
(* the tables say; where an instruction is in it is the running sum of the *)
(* sizes of the instructions before it.                                    *)
(***************************************************************************)
EXTENDS AssemblyProofs

-----------------------------------------------------------------------------
(***************************************************************************)
(* The files whose code is in the image: the program and what it reaches.  *)
(***************************************************************************)
Members == {0} \cup Reached
UnitFlags(u) == Flags(u # 0)
UnitLinks(u) == IF u = 0 THEN project.links ELSE project.libs[u].links
UnitLibs(u) == Links(UnitLinks(u))
UnitResult(u) == Generate(u, File(u), UnitLibs(u), UnitFlags(u))

\* An executable has been assembled from lines that give their names.
Assembled == BuildInv /\ NamesGiven /\ (stage = "assembled" \/ Built)

LEMMA ReachedUnits ==
  ASSUME BuildInv
  PROVE  /\ Reached \subseteq 1..Len(project.libs)
         /\ \A u \in Members : \A v \in ToSet(UnitLinks(u)) : v \in Reached /\ (u # 0 => v < u)
<1> DEFINE libs == project.libs
           closed(units) == /\ ToSet(project.links) \subseteq units
                            /\ \A u \in units : ToSet(libs[u].links) \subseteq units
<1>1. /\ project.links \in Seq(DOMAIN libs) /\ Len(libs) \in Nat /\ DOMAIN libs = 1..Len(libs)
      /\ \A n \in 1..Len(libs) : libs[n].links \in Seq(1..(n - 1))
  BY ProjectParts DEF BuildInv
<1>2. Reached = {u \in DOMAIN libs : \A units \in SUBSET DOMAIN libs : closed(units) => u \in units}
  BY DEF Reached
<1>3. ToSet(project.links) \subseteq DOMAIN libs
  BY <1>1 DEF ToSet
<1>4. ASSUME NEW u \in DOMAIN libs, NEW v \in ToSet(libs[u].links)
      PROVE  v \in DOMAIN libs /\ v < u
  <2>1. PICK n \in 1..Len(libs) : n = u
    BY <1>1
  <2>2. libs[n].links \in Seq(1..(n - 1))
    BY <1>1
  <2>3. v \in 1..(n - 1)
    BY <2>1, <2>2 DEF ToSet
  <2>. QED
    BY <1>1, <2>1, <2>3
<1>5. ASSUME NEW v \in ToSet(project.links)
      PROVE  v \in Reached
  BY <1>2, <1>3
<1>6. ASSUME NEW u \in Reached, NEW v \in ToSet(libs[u].links)
      PROVE  v \in Reached /\ v < u
  <2>1. u \in DOMAIN libs
    BY <1>2
  <2>2. v \in DOMAIN libs /\ v < u
    BY <1>4, <2>1
  <2>. QED
    BY <1>2, <2>2
<1>7. 0 \notin Reached
  BY <1>1, <1>2
<1>8. ASSUME NEW u \in Members, NEW v \in ToSet(UnitLinks(u))
      PROVE  v \in Reached /\ (u # 0 => v < u)
  BY <1>5, <1>6, <1>7 DEF Members, UnitLinks
<1>. QED
  BY <1>1, <1>2, <1>8

\* What has been built for each of them.
LEMMA MembersBuilt ==
  ASSUME Assembled, NEW u \in Members
  PROVE  /\ IsFile(File(u)) /\ UnitResult(u).outcome = "assembled"
         /\ Len(UnitLinks(u)) \in Nat /\ DOMAIN UnitLinks(u) = 1..Len(UnitLinks(u))
         /\ u = 0 => image = UnitResult(u).image
         /\ u # 0 => built[u] = LibraryOf(UnitResult(u).image)
<1>1. /\ IsFile(project.lines) /\ project.links \in Seq(DOMAIN project.libs)
      /\ Len(project.libs) \in Nat /\ DOMAIN project.libs = 1..Len(project.libs)
      /\ \A n \in 1..Len(project.libs) : IsFile(project.libs[n].lines) /\ project.libs[n].links \in Seq(1..(n - 1))
  BY ProjectParts DEF Assembled, BuildInv
<1>2. /\ Len(built) = Len(project.libs)
      /\ \A n \in 1..Len(built) : LibraryResult(n).outcome = "assembled" /\ built[n] = LibraryOf(LibraryResult(n).image)
      /\ ProgramResult.outcome = "assembled" /\ image = ProgramResult.image
  BY DEF Assembled, BuildInv
<1>3. CASE u = 0
  <2>1. UnitResult(u) = ProgramResult
    BY <1>3 DEF UnitResult, ProgramResult, File, UnitLibs, UnitLinks, UnitFlags
  <2>2. UnitLinks(u) = project.links /\ File(u) = project.lines
    BY <1>3 DEF UnitLinks, File
  <2>. QED
    BY <1>1, <1>2, <1>3, <2>1, <2>2
<1>4. CASE u # 0
  <2>1. u \in 1..Len(project.libs)
    BY <1>4, ReachedUnits DEF Members, Assembled
  <2>2. (u # 0) = TRUE
    BY <1>4
  <2>3. UnitResult(u) = LibraryResult(u)
    BY <1>4, <2>2 DEF UnitResult, LibraryResult, File, UnitLibs, UnitLinks, UnitFlags
  <2>4. UnitLinks(u) = project.libs[u].links /\ File(u) = project.libs[u].lines
    BY <1>4 DEF UnitLinks, File
  <2>5. PICK n \in 1..Len(project.libs) : n = u
    BY <2>1
  <2>6. project.libs[n].links \in Seq(1..(n - 1)) /\ IsFile(project.libs[n].lines)
    BY <1>1
  <2>7. /\ Len(project.libs[n].links) \in Nat
        /\ DOMAIN project.libs[n].links = 1..Len(project.libs[n].links)
    BY <2>6
  <2>. QED
    BY <1>2, <1>4, <2>1, <2>3, <2>4, <2>5, <2>6, <2>7
<1>. QED
  BY <1>3, <1>4

\* Names are told apart.
LEMMA MembersDistinct ==
  ASSUME Assembled, DistinctNames, NEW u \in Members
  PROVE  /\ ProperFile(File(u))
         /\ \A v \in Members : \A i \in Opens(File(u)), j \in Opens(File(v)) :
              File(u)[i].args[1] = File(v)[j].args[1] => u = v /\ i = j
<1> DEFINE definitions == UNION {{<<w, i>> : i \in {j \in DOMAIN File(w) : File(w)[j].op \in {".function:", ".block:"}}}
                                   : w \in {0} \cup Reached}
<1>1. ASSUME NEW w \in Members, NEW i \in Opens(File(w))
      PROVE  <<w, i>> \in definitions
  BY DEF Opens, Members
<1>2. \A d, e \in definitions :
        /\ File(d[1])[d[2]].args[1] # EntryFunctionName
        /\ File(d[1])[d[2]].args[1] = File(e[1])[e[2]].args[1] => d = e
  BY DEF DistinctNames
<1> HIDE DEF definitions
<1>3. ASSUME NEW v \in Members, NEW w \in Members, NEW i \in Opens(File(v)), NEW j \in Opens(File(w))
      PROVE  /\ File(v)[i].args[1] # EntryFunctionName
             /\ File(v)[i].args[1] = File(w)[j].args[1] => v = w /\ i = j
  <2>1. PICK d, e : d = <<v, i>> /\ e = <<w, j>>
    OBVIOUS
  <2>2. d \in definitions /\ e \in definitions /\ d[1] = v /\ d[2] = i /\ e[1] = w /\ e[2] = j
    BY <1>1, <2>1
  <2>3. d = e => v = w /\ i = j
    BY <2>1
  <2>4. /\ File(v)[i].args[1] # EntryFunctionName
        /\ File(v)[i].args[1] = File(w)[j].args[1] => d = e
    BY <1>2, <2>2
  <2>. QED
    BY <2>3, <2>4
<1>4. Complete(File(u))
  <2>1. u \in Units
    <3>1. Len(project.libs) \in Nat
      BY ProjectParts DEF Assembled, BuildInv
    <3>. QED
      BY <3>1, ReachedUnits DEF Members, Assembled, Units
  <2>2. \A i \in DOMAIN File(u) : GivesNames(File(u)[i])
    BY <2>1 DEF Assembled, NamesGiven
  <2>3. \A i \in DOMAIN File(u) : IsSequence(File(u)[i].args)
    BY MembersBuilt DEF IsFile
  <2>. QED
    BY <2>2, <2>3 DEF Complete
<1>5. ProperFile(File(u))
  BY <1>3, <1>4 DEF ProperFile
<1>. QED
  BY <1>3, <1>5

-----------------------------------------------------------------------------
(***************************************************************************)
(* Where the instructions of a file are in its code.                       *)
(***************************************************************************)
BodyCode(unit, lines, flags, k) ==
  Coded(AllBodies(lines, flags)[k].lines, unit, AllBodies(lines, flags)[k].name)
PlaceOf(unit, lines, flags, k, j) ==
  Starts(lines, flags)[k - 1] + Places(Sizes(BodyCode(unit, lines, flags, k)))[j - 1]
\* The code has the bodies of the file one after the other.
HasBodies(code, unit, lines, flags) ==
  /\ \A k \in 1..Count(lines, flags) : \A j \in DOMAIN BodyCode(unit, lines, flags, k) :
       /\ PlaceOf(unit, lines, flags, k, j) \in DOMAIN code
       /\ Alike(code[PlaceOf(unit, lines, flags, k, j)], BodyCode(unit, lines, flags, k)[j])
  /\ \A o \in DOMAIN code :
       \E k \in 1..Count(lines, flags) : \E j \in DOMAIN BodyCode(unit, lines, flags, k) :
         o = PlaceOf(unit, lines, flags, k, j)

LEMMA OwnHasBodies ==
  ASSUME NEW unit, NEW lines, NEW libs, NEW flags,
         IsSection(unit, lines, flags), IsBuffer(unit, lines, flags), IsOwn(unit, lines, libs, flags)
  PROVE  HasBodies(OwnCode(unit, lines, libs, flags), unit, lines, flags)
<1> DEFINE n == Count(lines, flags) bodies == AllBodies(lines, flags) section == SectionOf(unit, lines, flags)
           buffer == BufferOf(unit, lines, flags) own == OwnCode(unit, lines, libs, flags)
           at == Starts(lines, flags) s(k) == BodyCode(unit, lines, flags, k)
           place(k, j) == PlaceOf(unit, lines, flags, k, j)
<1>1. /\ \A k \in 1..n : Ready(bodies[k], unit) /\ IsPiece(section[k], unit, bodies[k], at[k - 1])
      /\ n \in Nat
  BY DEF IsSection
<1>2. /\ \A k \in 1..n : \A p \in DOMAIN section[k].code :
           /\ at[k - 1] + p \in DOMAIN buffer
           /\ buffer[at[k - 1] + p] = section[k].code[p]
      /\ \A o \in DOMAIN buffer : \E k \in 1..n : \E p \in DOMAIN section[k].code : o = at[k - 1] + p
  BY DEF IsBuffer
<1>3. Retargeted(own, buffer)
  BY DEF IsOwn
<1> HIDE DEF n, at, bodies, section, buffer, own
<1>4. ASSUME NEW k \in 1..n
      PROVE  /\ Placement(PieceOf(unit, bodies[k]), s(k), Cardinality(Kept(bodies[k].lines)))
             /\ DOMAIN s(k) = 1..Cardinality(Kept(bodies[k].lines))
             /\ Retargeted(section[k].code, PieceOf(unit, bodies[k]))
             /\ \A j \in DOMAIN s(k) : IsInstr(s(k)[j])
  <2>1. Ready(bodies[k], unit) /\ IsPiece(section[k], unit, bodies[k], at[k - 1])
    BY <1>1
  <2>2. Retargeted(section[k].code, PieceOf(unit, bodies[k]))
    BY <2>1 DEF IsPiece
  <2>3. s(k) = Coded(bodies[k].lines, unit, bodies[k].name)
    BY DEF BodyCode, bodies
  <2>4. /\ DOMAIN s(k) = 1..Cardinality(Kept(bodies[k].lines))
        /\ \A j \in 1..Cardinality(Kept(bodies[k].lines)) : IsInstr(s(k)[j])
        /\ Placement(PieceOf(unit, bodies[k]), s(k), Cardinality(Kept(bodies[k].lines)))
    BY <2>1, <2>3, ReadyPlaced
  <2>. QED
    BY <2>2, <2>4
<1>5. ASSUME NEW k \in 1..n, NEW j \in DOMAIN s(k)
      PROVE  place(k, j) \in DOMAIN own /\ Alike(own[place(k, j)], s(k)[j])
  <2>1. PICK p : p = Places(Sizes(s(k)))[j - 1]
    OBVIOUS
  <2>2. p \in DOMAIN PieceOf(unit, bodies[k]) /\ PieceOf(unit, bodies[k])[p] = s(k)[j]
    BY <1>4, <2>1 DEF Placement
  <2>3. p \in DOMAIN section[k].code /\ Alike(section[k].code[p], s(k)[j])
    BY <1>4, <2>2 DEF Retargeted
  <2>4. at[k - 1] + p = place(k, j)
    BY <2>1 DEF PlaceOf, at
  <2>5. place(k, j) \in DOMAIN buffer /\ buffer[place(k, j)] = section[k].code[p]
    BY <1>2, <2>3, <2>4
  <2>6. place(k, j) \in DOMAIN own /\ Alike(own[place(k, j)], buffer[place(k, j)])
    BY <1>3, <2>5 DEF Retargeted
  <2>7. Alike(buffer[place(k, j)], s(k)[j])
    BY <2>3, <2>5
  <2>8. Alike(own[place(k, j)], s(k)[j])
    BY <2>6, <2>7, AlikeThrough
  <2>. QED
    BY <2>6, <2>8
<1>6. ASSUME NEW o \in DOMAIN own
      PROVE  \E k \in 1..n : \E j \in DOMAIN s(k) : o = place(k, j)
  <2>1. o \in DOMAIN buffer
    BY <1>3 DEF Retargeted
  <2>2. PICK k \in 1..n : \E p \in DOMAIN section[k].code : o = at[k - 1] + p
    BY <1>2, <2>1
  <2>3. PICK p \in DOMAIN section[k].code : o = at[k - 1] + p
    BY <2>2
  <2>4. p \in DOMAIN PieceOf(unit, bodies[k])
    BY <1>4, <2>3 DEF Retargeted
  <2>5. PICK j \in DOMAIN s(k) : p = Places(Sizes(s(k)))[j - 1]
    BY <1>4, <2>4, ZenonT(60) DEF Placement
  <2>6. o = place(k, j)
    BY <2>3, <2>5 DEF PlaceOf, at
  <2>. QED
    BY <2>6
<1>7. /\ \A k \in 1..n : \A j \in DOMAIN s(k) : place(k, j) \in DOMAIN own /\ Alike(own[place(k, j)], s(k)[j])
      /\ \A o \in DOMAIN own : \E k \in 1..n : \E j \in DOMAIN s(k) : o = place(k, j)
  BY <1>5, <1>6
<1>. QED
  BY <1>7 DEF HasBodies, own, n

-----------------------------------------------------------------------------
(***************************************************************************)
(* The libraries are as generate needs them to be, one after the other.    *)
(***************************************************************************)
UnitCount(u) == Count(File(u), UnitFlags(u))
UnitCode(u, k) == BodyCode(u, File(u), UnitFlags(u), k)
\* The instruction stands for one of a source file.
FromSource(c) ==
  \E u \in Members : \E k \in 1..UnitCount(u) : \E j \in DOMAIN UnitCode(u, k) : Alike(c, UnitCode(u, k)[j])
KnownNames(v) ==
  \A name \in ToSet(built[v].functions.order) :
    \E w \in Reached : w <= v /\ \E i \in Opens(File(w)) : File(w)[i].args[1] = name
GoodUnit(v) ==
  /\ Good(built[v]) /\ KnownNames(v)
  /\ \A o \in DOMAIN built[v].code : FromSource(built[v].code[o])
UnitMade(u) ==
  LET lines == File(u) libs == UnitLibs(u) flags == UnitFlags(u) m == Len(UnitLinks(u)) result == UnitResult(u).image
  IN /\ GoodLibs(libs, m) /\ AllOwn(lines, libs, flags) /\ Succeeded(u, lines, libs, flags)
     /\ IsSection(u, lines, flags) /\ IsBuffer(u, lines, flags)
     /\ IsImage(result, u, lines, libs, m, flags) /\ HasTables(result, lines, libs, flags)
     /\ HasBodies(OwnCode(u, lines, libs, flags), u, lines, flags)

LEMMA OwnNames ==
  ASSUME NEW lines, IsFile(lines), NEW flags
  PROVE  LET functions == FunctionsOf(lines, flags)
         IN /\ functions.names \in Seq(ToSet(functions.names))
            /\ \A name \in ToSet(functions.names) :
                 \/ ~flags.as_lib /\ name = EntryFunctionName
                 \/ \E i \in Of(lines, ".function:") : lines[i].args[1] = name
            /\ \A i \in Of(lines, ".function:") : lines[i].args[1] \in ToSet(functions.names)
            /\ ~flags.as_lib => EntryFunctionName \in ToSet(functions.names)
<1> DEFINE functions == FunctionsOf(lines, flags) names == Named1(lines, ".function:") n == Functions(lines)
<1>1. /\ n \in Nat /\ DOMAIN names = 1..n /\ functions.names \in Seq(ToSet(functions.names))
      /\ Len(functions.names) = n + (IF flags.as_lib THEN 0 ELSE 1)
      /\ \A k \in 1..n : functions.names[k] = names[k]
      /\ ~flags.as_lib => functions.names[n + 1] = EntryFunctionName
  BY FunctionsGathered
<1>2. ToSet(names) = {lines[i].args[1] : i \in Of(lines, ".function:")}
  BY NamesOfLines DEF IsFile
<1> HIDE DEF names, n, functions
<1>3. DOMAIN functions.names = 1..(n + (IF flags.as_lib THEN 0 ELSE 1))
  BY <1>1
<1>4. ASSUME NEW name \in ToSet(functions.names)
      PROVE  \/ ~flags.as_lib /\ name = EntryFunctionName
             \/ \E i \in Of(lines, ".function:") : lines[i].args[1] = name
  <2>1. PICK k \in DOMAIN functions.names : name = functions.names[k]
    BY DEF ToSet
  <2>2. CASE k \in 1..n
    <3>1. name \in ToSet(names)
      BY <1>1, <2>1, <2>2 DEF ToSet
    <3>. QED
      BY <1>2, <3>1
  <2>3. CASE k \notin 1..n
    <3>1. ~flags.as_lib /\ k = n + 1
      BY <1>1, <1>3, <2>1, <2>3
    <3>. QED
      BY <1>1, <2>1, <3>1
  <2>. QED
    BY <2>2, <2>3
<1>5. ASSUME NEW name \in ToSet(names)
      PROVE  name \in ToSet(functions.names)
  <2>1. PICK k \in 1..n : name = names[k]
    BY <1>1 DEF ToSet
  <2>2. k \in DOMAIN functions.names /\ functions.names[k] = name
    BY <1>1, <1>3, <2>1
  <2>. QED
    BY <2>2 DEF ToSet
<1>6. ~flags.as_lib => EntryFunctionName \in ToSet(functions.names)
  <2>1. ~flags.as_lib => n + 1 \in DOMAIN functions.names
    BY <1>1, <1>3
  <2>. QED
    BY <1>1, <2>1 DEF ToSet
<1>. QED
  BY <1>1, <1>2, <1>4, <1>5, <1>6 DEF functions

LEMMA LinkedKnown ==
  ASSUME Assembled, NEW u \in Members, \A v \in ToSet(UnitLinks(u)) : GoodUnit(v),
         NEW name \in NamesIn(LinkedTo(File(u), UnitLibs(u), UnitFlags(u)))
  PROVE  \E w \in Reached : (u # 0 => w < u) /\ \E i \in Opens(File(w)) : File(w)[i].args[1] = name
<1> DEFINE lines == File(u) flags == UnitFlags(u) libs == UnitLibs(u) m == Len(UnitLinks(u)) links == UnitLinks(u)
           linked == LinkedTo(lines, libs, flags)
<1>1. m \in Nat /\ DOMAIN links = 1..m /\ IsFile(lines)
  BY MembersBuilt
<1>2. DOMAIN libs = 1..m /\ \A l \in 1..m : libs[l] = built[links[l]] /\ links[l] \in ToSet(links)
  BY <1>1 DEF UnitLibs, Links, ToSet
<1>3. \A l \in 1..m : IsTable(libs[l].functions)
  BY <1>2 DEF GoodUnit, Good
<1> HIDE DEF libs, m
<1>4. \A i \in DOMAIN linked : linked[i][1] \in UNION {ToSet(libs[l].functions.order) : l \in 1..m}
  BY <1>1, <1>2, <1>3, LinkedNames DEF LinkedTo
<1>5. PICK l \in 1..m : name \in ToSet(libs[l].functions.order)
  BY <1>4 DEF NamesIn, libs
<1>6. PICK v \in ToSet(links) : v = links[l]
  BY <1>2
<1>7. name \in ToSet(built[v].functions.order)
  BY <1>2, <1>5, <1>6
<1>8. PICK w \in Reached : w <= v /\ \E i \in Opens(File(w)) : File(w)[i].args[1] = name
  BY <1>7 DEF GoodUnit, KnownNames
<1>9. v \in Reached /\ (u # 0 => v < u) /\ Reached \subseteq 1..Len(project.libs)
  BY ReachedUnits DEF Assembled
<1>10. ASSUME u # 0
       PROVE  w < u
  <2>1. v < u /\ w <= v /\ w \in 1..Len(project.libs) /\ v \in 1..Len(project.libs) /\ u \in 1..Len(project.libs)
    BY <1>8, <1>9, <1>10 DEF Members
  <2>2. Len(project.libs) \in Nat
    BY ProjectParts DEF Assembled, BuildInv
  <2>. QED
    BY <2>1, <2>2
<1>. QED
  BY <1>8, <1>10

\* A linked function is not one of the file.
LEMMA OwnNotLinked ==
  ASSUME Assembled, DistinctNames, NEW u \in Members, \A v \in ToSet(UnitLinks(u)) : GoodUnit(v),
         NEW name \in ToSet(FunctionsOf(File(u), UnitFlags(u)).names)
  PROVE  name \notin NamesIn(LinkedTo(File(u), UnitLibs(u), UnitFlags(u)))
<1> DEFINE lines == File(u)
<1> SUFFICES ASSUME name \in NamesIn(LinkedTo(File(u), UnitLibs(u), UnitFlags(u)))
             PROVE  FALSE
  OBVIOUS
<1>1. PICK w \in Reached : (u # 0 => w < u) /\ \E i \in Opens(File(w)) : File(w)[i].args[1] = name
  BY LinkedKnown
<1>2. PICK i \in Opens(File(w)) : File(w)[i].args[1] = name
  BY <1>1
<1>3. w \in Members /\ name # EntryFunctionName
  BY <1>2, MembersDistinct DEF ProperFile, Members
<1>4. PICK j \in Opens(lines) : lines[j].args[1] = name
  <2>1. \E j \in Of(lines, ".function:") : lines[j].args[1] = name
    <3>1. IsFile(File(u))
      BY MembersBuilt
    <3>. QED
      BY <1>3, <3>1, OwnNames
  <2>. QED
    BY <2>1 DEF Of, Opens
<1>5. u = w
  BY <1>2, <1>3, <1>4, MembersDistinct
<1>6. w # 0 /\ w \in Nat
  BY ReachedUnits DEF Assembled
<1>. QED
  BY <1>1, <1>5, <1>6

LEMMA LinkedGood ==
  ASSUME Assembled, DistinctNames, NEW u \in Members, \A v \in ToSet(UnitLinks(u)) : GoodUnit(v)
  PROVE  GoodLibs(UnitLibs(u), Len(UnitLinks(u))) /\ AllOwn(File(u), UnitLibs(u), UnitFlags(u))
<1> DEFINE lines == File(u) flags == UnitFlags(u) libs == UnitLibs(u) m == Len(UnitLinks(u)) links == UnitLinks(u)
           linked == LinkedTo(lines, libs, flags) functions == FunctionsOf(lines, flags)
<1>1. m \in Nat /\ DOMAIN links = 1..m /\ IsFile(lines)
  BY MembersBuilt
<1>2. DOMAIN libs = 1..m /\ \A l \in 1..m : libs[l] = built[links[l]] /\ links[l] \in ToSet(links)
  BY <1>1 DEF UnitLibs, Links, ToSet
<1>3. \A l \in 1..m : Good(libs[l])
  BY <1>2 DEF GoodUnit
<1>4. GoodLibs(libs, m)
  BY <1>1, <1>2, <1>3 DEF GoodLibs
<1>5. \A name \in ToSet(functions.names) : name \notin NamesIn(linked)
  BY OwnNotLinked
<1>6. functions.names \in Seq(ToSet(functions.names))
  BY <1>1, OwnNames
<1>7. AllOwn(lines, libs, flags)
  BY <1>5, <1>6, AllLocal DEF AllOwn
<1>. QED
  BY <1>4, <1>7

LEMMA UnitIsMade ==
  ASSUME Assembled, DistinctNames, NEW u \in Members, \A v \in ToSet(UnitLinks(u)) : GoodUnit(v)
  PROVE  UnitMade(u)
<1> DEFINE lines == File(u) flags == UnitFlags(u) libs == UnitLibs(u) m == Len(UnitLinks(u))
<1>1. GoodLibs(libs, m) /\ AllOwn(lines, libs, flags) /\ IsFile(lines) /\ ProperFile(lines)
  BY LinkedGood, MembersBuilt, MembersDistinct
<1>2. Generate(u, lines, libs, flags).outcome = "assembled"
  BY MembersBuilt DEF UnitResult
<1>3. UnitResult(u) = Generate(u, lines, libs, flags)
  BY DEF UnitResult
<1> HIDE DEF lines, flags, libs, m
<1>4. Succeeded(u, lines, libs, flags)
  BY <1>1, <1>2, GenerateGives
<1>5. Accepted(lines, flags, MainFunction(lines, flags), GatherFunctions(lines), GatherBlocks(lines),
               FunctionsOf(lines, flags), LinkedTo(lines, libs, flags))
  BY <1>4 DEF Succeeded
<1>6. IsSection(u, lines, flags)
  BY <1>1, <1>5, BodiesMade
<1>7. IsBuffer(u, lines, flags)
  BY <1>1, <1>6, BufferMade
<1>8. IsImage(Generate(u, lines, libs, flags).image, u, lines, libs, m, flags)
  BY <1>1, <1>4, <1>6, <1>7, ImageMade
<1>9. HasTables(Generate(u, lines, libs, flags).image, lines, libs, flags)
  BY <1>1, <1>4, TablesMade
<1>10. IsOwn(u, lines, libs, flags)
  BY <1>7, OwnMade
<1>11. HasBodies(OwnCode(u, lines, libs, flags), u, lines, flags)
  BY <1>6, <1>7, <1>10, OwnHasBodies
<1>. QED
  BY <1>1, <1>3, <1>4, <1>6, <1>7, <1>8, <1>9, <1>11 DEF UnitMade, lines, flags, libs, m

LEMMA UnitFits ==
  ASSUME Assembled, DistinctNames, NEW u \in Members, UnitMade(u)
  PROVE  LET lines == File(u) flags == UnitFlags(u) libs == UnitLibs(u) code == UnitResult(u).image.code
         IN /\ LocalSize(lines, flags) \in Nat /\ Used(lines, flags) \in Nat
            /\ Used(lines, flags) <= LocalSize(lines, flags)
            /\ u = 0 => Used(lines, flags) = LocalSize(lines, flags)
            /\ UnitResult(u).image.size \in Nat
            /\ IsCode(code) /\ Fits(code, UnitResult(u).image.size)
            /\ Verified(lines, GatherFunctions(lines), GatherBlocks(lines), flags)
<1> DEFINE lines == File(u) flags == UnitFlags(u) libs == UnitLibs(u) m == Len(UnitLinks(u))
           written == UnitResult(u).image
<1>1. /\ Succeeded(u, lines, libs, flags) /\ IsSection(u, lines, flags) /\ IsImage(written, u, lines, libs, m, flags)
  BY DEF UnitMade
<1>2. Accepted(lines, flags, MainFunction(lines, flags), GatherFunctions(lines), GatherBlocks(lines),
               FunctionsOf(lines, flags), LinkedTo(lines, libs, flags))
  BY <1>1 DEF Succeeded
<1>3. Verified(lines, GatherFunctions(lines), GatherBlocks(lines), flags)
  BY <1>2 DEF Accepted
<1>4. Instructions(lines)
  BY <1>3 DEF Verified
<1>5. IsFile(lines) /\ ProperFile(lines)
  BY MembersBuilt, MembersDistinct
<1>6. flags.as_lib = (u # 0)
  BY DEF UnitFlags, Flags
<1> HIDE DEF lines, flags, libs, m, written
<1>7. /\ LocalSize(lines, flags) \in Nat /\ Used(lines, flags) \in Nat
      /\ Used(lines, flags) <= LocalSize(lines, flags)
      /\ ~flags.as_lib => Used(lines, flags) = LocalSize(lines, flags)
  BY <1>1, <1>4, <1>5, UsedSize
<1>8. /\ IsCode(written.code) /\ Fits(written.code, Used(lines, flags) + Total(LibrarySizes(libs)))
      /\ written.size = LocalSize(lines, flags) + Total(LibrarySizes(libs))
      /\ Total(LibrarySizes(libs)) \in Nat
  BY <1>1 DEF IsImage, AreLinked
<1>9. Fits(written.code, written.size)
  <2>1. ASSUME NEW o \in DOMAIN written.code
        PROVE  o + EmittedSize(written.code[o]) <= written.size
    <3>1. o + EmittedSize(written.code[o]) <= Used(lines, flags) + Total(LibrarySizes(libs))
      BY <1>8 DEF Fits
    <3>2. o \in Nat /\ EmittedSize(written.code[o]) \in Nat
      BY <1>8, CodeSized
    <3>. QED
      BY <1>7, <1>8, <3>1, <3>2
  <2>. QED
    BY <1>8, <2>1 DEF Fits
<1>10. written.size \in Nat
  BY <1>7, <1>8
<1>. QED
  BY <1>3, <1>6, <1>7, <1>8, <1>9, <1>10 DEF lines, flags, libs, written

\* All code comes from source.
LEMMA CodeFromSource ==
  ASSUME Assembled, DistinctNames, NEW u \in Members, \A v \in ToSet(UnitLinks(u)) : GoodUnit(v), UnitMade(u),
         NEW o \in DOMAIN UnitResult(u).image.code
  PROVE  FromSource(UnitResult(u).image.code[o])
<1> DEFINE lines == File(u) flags == UnitFlags(u) libs == UnitLibs(u) m == Len(UnitLinks(u)) links == UnitLinks(u)
           written == UnitResult(u).image own == OwnCode(u, lines, libs, flags)
           linked == LibraryCode(lines, libs, flags) used == Used(lines, flags) link == LocalSize(lines, flags)
           at == Places(LibrarySizes(libs))
<1>1. /\ IsImage(written, u, lines, libs, m, flags) /\ HasBodies(own, u, lines, flags)
  BY DEF UnitMade
<1>2. /\ AreLinked(linked, libs, m, used, link)
      /\ DOMAIN written.code = DOMAIN own \cup DOMAIN linked
      /\ \A p \in DOMAIN own : written.code[p] = own[p]
      /\ \A p \in DOMAIN linked : written.code[p] = linked[p]
  BY <1>1 DEF IsImage
<1>3. CASE o \in DOMAIN own
  <2>1. PICK k \in 1..UnitCount(u) : \E j \in DOMAIN UnitCode(u, k) : o = PlaceOf(u, lines, flags, k, j)
    BY <1>1, <1>3 DEF HasBodies, UnitCount, UnitCode
  <2>2. PICK j \in DOMAIN UnitCode(u, k) : o = PlaceOf(u, lines, flags, k, j)
    BY <2>1
  <2>3. Alike(own[o], UnitCode(u, k)[j])
    BY <1>1, <2>2 DEF HasBodies, UnitCount, UnitCode
  <2>4. Alike(written.code[o], UnitCode(u, k)[j])
    BY <1>2, <1>3, <2>3
  <2>. QED
    BY <2>4 DEF FromSource
<1>4. CASE o \in DOMAIN linked
  <2>1. PICK l \in 1..m : \E p \in DOMAIN libs[l].code : o = used + at[l - 1] + p
    BY <1>2, <1>4 DEF AreLinked
  <2>2. PICK p \in DOMAIN libs[l].code : o = used + at[l - 1] + p
    BY <2>1
  <2>3. linked[o] = Relocated(libs[l], link)[p] /\ Retargeted(Relocated(libs[l], link), libs[l].code)
    BY <1>2, <2>2 DEF AreLinked
  <2>4. Alike(written.code[o], libs[l].code[p])
    BY <1>2, <1>4, <2>3 DEF Retargeted
  <2>5. DOMAIN links = 1..m
    BY MembersBuilt
  <2>6. libs[l] = built[links[l]] /\ links[l] \in ToSet(links)
    BY <2>5 DEF UnitLibs, Links, ToSet
  <2>7. FromSource(libs[l].code[p])
    BY <2>2, <2>6 DEF GoodUnit
  <2>8. PICK v \in Members : \E k \in 1..UnitCount(v) : \E j \in DOMAIN UnitCode(v, k) : Alike(libs[l].code[p], UnitCode(v, k)[j])
    BY <2>7 DEF FromSource
  <2>9. PICK k \in 1..UnitCount(v) : \E j \in DOMAIN UnitCode(v, k) : Alike(libs[l].code[p], UnitCode(v, k)[j])
    BY <2>8
  <2>10. PICK j \in DOMAIN UnitCode(v, k) : Alike(libs[l].code[p], UnitCode(v, k)[j])
    BY <2>9
  <2>11. Alike(written.code[o], UnitCode(v, k)[j])
    BY <2>4, <2>10, AlikeThrough
  <2>. QED
    BY <2>11 DEF FromSource
<1>. QED
  BY <1>2, <1>3, <1>4

LEMMA LibraryGood ==
  ASSUME Assembled, DistinctNames, NEW u \in Reached, \A v \in ToSet(UnitLinks(u)) : GoodUnit(v), UnitMade(u)
  PROVE  GoodUnit(u)
<1> DEFINE lines == File(u) flags == UnitFlags(u) libs == UnitLibs(u) m == Len(UnitLinks(u))
           written == UnitResult(u).image
<1>1. u \in Members /\ u # 0 /\ u \in Nat
  BY ReachedUnits DEF Members, Assembled
<1>2. built[u] = LibraryOf(written)
  BY <1>1, MembersBuilt
<1>3. /\ built[u].size = written.size /\ built[u].code = written.code /\ built[u].jumps = written.jumps
      /\ built[u].functions = LoadMap(written.functions)
  <2>1. PICK w : w = written
    OBVIOUS
  <2>2. /\ LibraryOf(w).size = w.size /\ LibraryOf(w).code = w.code /\ LibraryOf(w).jumps = w.jumps
        /\ LibraryOf(w).functions = LoadMap(w.functions)
    BY DEF LibraryOf, ExecutableOf, LoadJumpTable, LoadBytecode, LoadFunctionsMap
  <2>. QED
    BY <1>2, <2>1, <2>2
<1>4. flags.as_lib = TRUE
  BY <1>1 DEF UnitFlags, Flags
<1>5. written.size \in Nat /\ IsCode(written.code) /\ Fits(written.code, written.size)
  BY <1>1, UnitFits
<1>6. IsImage(written, u, lines, libs, m, flags) /\ HasTables(written, lines, libs, flags)
  BY DEF UnitMade
<1>7. AtTargets(written.jumps, written.code)
  BY <1>4, <1>6 DEF IsImage
<1>8. /\ IsTable(LoadMap(written.functions))
      /\ ToSet(LoadMap(written.functions).order)
           = ToSet(FunctionsOf(lines, flags).names) \cup NamesIn(LinkedTo(lines, libs, flags))
  BY <1>6, LoadedNames
<1>9. Good(built[u])
  BY <1>3, <1>5, <1>7, <1>8 DEF Good
<1>10. KnownNames(u)
  <2>1. ASSUME NEW name \in ToSet(FunctionsOf(lines, flags).names)
        PROVE  \E i \in Opens(File(u)) : File(u)[i].args[1] = name
    <3>1. IsFile(lines)
      BY <1>1, MembersBuilt
    <3>2. \A own \in ToSet(FunctionsOf(File(u), UnitFlags(u)).names) :
            \/ ~UnitFlags(u).as_lib /\ own = EntryFunctionName
            \/ \E i \in Of(File(u), ".function:") : File(u)[i].args[1] = own
      BY <3>1, OwnNames
    <3>. QED
      BY <1>4, <2>1, <3>2 DEF Of, Opens
  <2>2. ASSUME NEW name \in NamesIn(LinkedTo(lines, libs, flags))
        PROVE  \E w \in Reached : w < u /\ \E i \in Opens(File(w)) : File(w)[i].args[1] = name
    BY <1>1, LinkedKnown
  <2>3. ASSUME NEW w \in Reached, w < u
        PROVE  w <= u
    <3>1. Reached \subseteq 1..Len(project.libs) /\ Len(project.libs) \in Nat
      BY ReachedUnits, ProjectParts DEF Assembled, BuildInv
    <3>2. w \in Nat
      BY <2>3, <3>1
    <3>. QED
      BY <1>1, <2>3, <3>2
  <2>4. u <= u
    BY <1>1
  <2>5. \A name \in ToSet(built[u].functions.order) :
          name \in ToSet(FunctionsOf(lines, flags).names) \/ name \in NamesIn(LinkedTo(lines, libs, flags))
    BY <1>3, <1>8
  <2> HIDE DEF lines, flags, libs
  <2>6. ASSUME NEW name \in ToSet(built[u].functions.order)
        PROVE  \E w \in Reached : w <= u /\ \E i \in Opens(File(w)) : File(w)[i].args[1] = name
    <3>1. CASE name \in ToSet(FunctionsOf(lines, flags).names)
      BY <2>1, <2>4, <3>1
    <3>2. CASE name \in NamesIn(LinkedTo(lines, libs, flags))
      BY <2>2, <2>3, <3>2
    <3>. QED
      BY <2>5, <3>1, <3>2
  <2>. QED
    BY <2>6 DEF KnownNames
<1>11. \A o \in DOMAIN built[u].code : FromSource(built[u].code[o])
  BY <1>1, <1>3, CodeFromSource
<1>. QED
  BY <1>9, <1>10, <1>11 DEF GoodUnit

LEMMA ReachedGood ==
  ASSUME Assembled, DistinctNames
  PROVE  \A u \in Reached : GoodUnit(u)
<1> DEFINE Q == {n \in Nat : \A u \in Reached : u <= n => GoodUnit(u)}
<1>1. Reached \subseteq 1..Len(project.libs) /\ Len(project.libs) \in Nat
  BY ReachedUnits, ProjectParts DEF Assembled, BuildInv
<1>2. 0 \in Q
  BY <1>1
<1>3. ASSUME NEW n \in Nat, n \in Q
      PROVE  n + 1 \in Q
  <2>1. ASSUME NEW u \in Reached, u <= n + 1
        PROVE  GoodUnit(u)
    <3>1. u \in Nat /\ u # 0 /\ u \in Members
      BY <1>1 DEF Members
    <3>2. ASSUME NEW v \in ToSet(UnitLinks(u))
          PROVE  GoodUnit(v)
      <4>1. v \in Reached /\ v < u
        BY <3>1, ReachedUnits DEF Assembled
      <4>2. v <= n
        BY <1>1, <2>1, <3>1, <4>1
      <4>. QED
        BY <1>3, <4>1, <4>2
    <3>3. UnitMade(u)
      BY <3>1, <3>2, UnitIsMade
    <3>. QED
      BY <3>2, <3>3, LibraryGood
  <2>. QED
    BY <2>1
<1>4. Nat \subseteq Q
  <2> HIDE DEF Q
  <2>. QED
    BY <1>2, <1>3, CountingUp
<1>. QED
  BY <1>1, <1>4

LEMMA MembersMade ==
  ASSUME Assembled, DistinctNames, NEW u \in Members
  PROVE  UnitMade(u) /\ \A v \in ToSet(UnitLinks(u)) : GoodUnit(v)
<1>1. \A v \in ToSet(UnitLinks(u)) : GoodUnit(v)
  BY ReachedGood, ReachedUnits DEF Assembled
<1>. QED
  BY <1>1, UnitIsMade

-----------------------------------------------------------------------------
\* Of a project whose lines give their names nothing is written beyond the size
\* counted for a body; if its names are distinct as well, code lies within the
\* size of the image and no two instructions overlap.
THEOREM CodeIsInPlace == Spec => []TypeOK
<1>1. BuildInv /\ (NamesGiven => stage # "overrun") => TypeOK
  <2> SUFFICES ASSUME BuildInv, NamesGiven => stage # "overrun"
               PROVE  TypeOK
    OBVIOUS
  <2>1. /\ stage \in {"sources", "refused", "died", "overrun", "assembled", "loaded", "reassembled",
                       "not reassembled"}
        /\ Len(built) <= Len(project.libs)
    <3>1. Len(project.libs) \in Nat
      BY ProjectParts DEF BuildInv
    <3>2. Len(built) \in 0..Len(project.libs)
      BY Zenon DEF BuildInv
    <3>3. Len(built) <= Len(project.libs)
      BY <3>1, <3>2
    <3>4. stage \in {"sources", "refused", "died", "overrun", "assembled", "loaded", "reassembled",
                     "not reassembled"}
      BY Zenon DEF BuildInv
    <3>. QED
      BY <3>3, <3>4
  <2>2. ASSUME NamesGiven, DistinctNames, NEW o \in DOMAIN image.code
        PROVE  /\ o >= 0 /\ o + EmittedSize(image.code[o]) <= image.size
               /\ \A p \in DOMAIN image.code : p > o => p >= o + EmittedSize(image.code[o])
    <3>1. CASE stage = "assembled" \/ Built
      <4>1. Assembled /\ 0 \in Members
        BY <2>2, <3>1 DEF Assembled, Members
      <4>2. image = UnitResult(0).image
        BY <4>1, MembersBuilt
      <4>3. IsCode(image.code) /\ Fits(image.code, image.size)
        BY <2>2, <4>1, <4>2, MembersMade, UnitFits
      <4>. QED
        BY <2>2, <4>3 DEF Fits, IsCode
    <3>2. CASE ~(stage = "assembled" \/ Built)
      <4>1. image = NoImage
        BY <3>2 DEF BuildInv
      <4>2. NoImage.code = <<>>
        BY DEF NoImage
      <4>3. DOMAIN image.code = {}
        BY <4>1, <4>2
      <4>. QED
        BY <2>2, <4>3
    <3>. QED
      BY <3>1, <3>2
  <2>. QED
    BY <2>1, <2>2 DEF TypeOK
<1>. QED
  BY <1>1, BuildHolds, NeverOverruns, PTL

-----------------------------------------------------------------------------
(***************************************************************************)
(* The instructions of a body are what the source means by it.             *)
(***************************************************************************)
LEMMA PickedOnce ==
  ASSUME NEW p, NEW q, NEW lines, NEW S, IsPick(p, lines, S), IsPick(q, lines, S)
  PROVE  p = q
<1> DEFINE n == Cardinality(S)
<1>1. /\ p = [k \in 1..n |-> p[k]] /\ q = [k \in 1..n |-> q[k]]
      /\ \A k \in 1..n : \E i \in S : Upto(S, i) = k /\ p[k] = lines[i]
      /\ \A i \in S : q[Upto(S, i)] = lines[i]
  BY DEF IsPick
<1>2. ASSUME NEW k \in 1..n
      PROVE  p[k] = q[k]
  BY <1>1
<1> HIDE DEF n
<1>. QED
  BY <1>1, <1>2

\* A selection from a selection is a selection.
Nested(n, lines, O, S, p, I) ==
  /\ n \in Nat /\ O \in SUBSET (1..n) /\ S \in SUBSET O /\ IsPick(p, lines, O)
  /\ I \in SUBSET (1..Cardinality(O)) /\ \A i \in O : Upto(O, i) \in I <=> i \in S
LEMMA NestedRanks ==
  ASSUME NEW n, NEW lines, NEW O, NEW S, NEW p, NEW I, Nested(n, lines, O, S, p, I)
  PROVE  \A i \in Nat : Upto(I, Upto(O, i)) = Upto(S, i)
<1>0. /\ n \in Nat /\ O \in SUBSET (1..n) /\ S \in SUBSET O /\ IsPick(p, lines, O)
      /\ I \in SUBSET (1..Cardinality(O)) /\ \A i \in O : Upto(O, i) \in I <=> i \in S
  BY DEF Nested
<1> USE <1>0
<1> DEFINE c == Cardinality(O)
<1>1. /\ c \in Nat /\ \A i \in O : Upto(O, i) \in 1..c /\ p[Upto(O, i)] = lines[i]
      /\ \A k \in 1..c : \E i \in O : Upto(O, i) = k
  BY DEF IsPick
<1>2. S \in SUBSET (1..n)
  OBVIOUS
<1>3. Counted(n, O) /\ Counted(n, S) /\ Counted(c, I)
  BY <1>1, <1>2, UptoCounts
<1> DEFINE Q == {i \in Nat : Upto(O, i) \in Nat /\ Upto(I, Upto(O, i)) = Upto(S, i)}
<1>4. 0 \in Q
  BY <1>3 DEF Counted
<1>5. ASSUME NEW i \in Nat, i \in Q
      PROVE  i + 1 \in Q
  <2>1. PICK u : u = Upto(O, i)
    OBVIOUS
  <2>2. u \in Nat /\ Upto(I, u) = Upto(S, i) /\ Upto(I, u) \in Nat
    BY <1>3, <1>5, <2>1 DEF Counted
  <2>3. Upto(S, i + 1) = IF i + 1 \in S THEN Upto(S, i) + 1 ELSE Upto(S, i)
    BY <1>3 DEF Counted
  <2>4. CASE i + 1 \in O
    <3>1. Upto(O, i + 1) = u + 1
      BY <1>3, <2>1, <2>4 DEF Counted
    <3>2. u + 1 \in I <=> i + 1 \in S
      BY <2>4, <3>1
    <3>3. Upto(I, u + 1) = IF u + 1 \in I THEN Upto(I, u) + 1 ELSE Upto(I, u)
      BY <1>3, <2>2 DEF Counted
    <3>4. Upto(I, u + 1) = Upto(S, i + 1)
      BY <2>2, <2>3, <3>2, <3>3
    <3>. QED
      BY <2>2, <3>1, <3>4
  <2>5. CASE i + 1 \notin O
    <3>1. Upto(O, i + 1) = u
      BY <1>3, <2>1, <2>5 DEF Counted
    <3>. QED
      BY <2>2, <2>3, <2>5, <3>1
  <2>. QED
    BY <2>4, <2>5
<1>6. Nat \subseteq Q
  <2> HIDE DEF Q
  <2>. QED
    BY <1>4, <1>5, CountingUp
<1>. QED
  BY <1>6

LEMMA PickedTwice ==
  ASSUME NEW n, NEW lines, NEW O, NEW S, NEW p, NEW I, Nested(n, lines, O, S, p, I)
  PROVE  Pick(p, I) = Pick(lines, S) /\ Cardinality(I) = Cardinality(S)
<1>0. /\ n \in Nat /\ O \in SUBSET (1..n) /\ S \in SUBSET O /\ IsPick(p, lines, O)
      /\ I \in SUBSET (1..Cardinality(O)) /\ \A i \in O : Upto(O, i) \in I <=> i \in S
  BY DEF Nested
<1> USE <1>0
<1> DEFINE c == Cardinality(O)
<1>1. /\ c \in Nat /\ \A i \in O : Upto(O, i) \in 1..c /\ p[Upto(O, i)] = lines[i]
      /\ \A k \in 1..c : \E i \in O : Upto(O, i) = k
  BY DEF IsPick
<1>2. S \in SUBSET (1..n)
  OBVIOUS
<1>3. Counted(n, O) /\ Counted(n, S) /\ Counted(c, I)
  BY <1>1, <1>2, UptoCounts
<1>7. \A i \in Nat : Upto(I, Upto(O, i)) = Upto(S, i)
  BY NestedRanks
<1>8. Cardinality(I) = Cardinality(S)
  <2>1. Upto(O, n) = c /\ Upto(I, c) = Cardinality(I) /\ Upto(S, n) = Cardinality(S)
    BY <1>3 DEF Counted
  <2>. QED
    BY <1>7, <2>1
<1>9. IsPick(Pick(p, I), p, I) /\ IsPick(Pick(lines, S), lines, S)
  BY <1>1, <1>2, Picked
<1> DEFINE a == Pick(p, I) b == Pick(lines, S)
<1> HIDE DEF a, b, c
<1>10. /\ a = [k \in 1..Cardinality(S) |-> a[k]] /\ b = [k \in 1..Cardinality(S) |-> b[k]]
       /\ \A i \in I : a[Upto(I, i)] = p[i]
       /\ \A k \in 1..Cardinality(S) : \E i \in S : Upto(S, i) = k /\ b[k] = lines[i]
  BY <1>8, <1>9 DEF IsPick, a, b
<1>11. ASSUME NEW k \in 1..Cardinality(S)
       PROVE  a[k] = b[k]
  <2>1. PICK i \in S : Upto(S, i) = k /\ b[k] = lines[i]
    BY <1>10
  <2>2. i \in O /\ i \in Nat /\ Upto(O, i) \in I
    OBVIOUS
  <2>3. a[Upto(I, Upto(O, i))] = p[Upto(O, i)]
    BY <1>10, <2>2
  <2>. QED
    BY <1>1, <1>7, <2>1, <2>2, <2>3
<1>. QED
  BY <1>8, <1>10, <1>11 DEF a, b

\* What is selected from an entry body that has its own lines in the selection:
\* its first line, what is selected of the file, and its last five lines.
EntryPicks(r, n, main) ==
  [k \in 1..(n + 6) |-> IF k = 1 THEN EntryBody(<<>>, main)[1]
                        ELSE IF k <= n + 1 THEN r[k - 1] ELSE EntryBody(<<>>, main)[k - n]]

AsEntry(e, m, main) ==
  /\ e[1] = Line("ress", <<"local">>)
  /\ e[m + 2] = Line("frame", << <<"", 1>> >>)
  /\ e[m + 3] = Line("param", << <<"", 0>>, <<"", 1>> >>)
  /\ e[m + 4] = Line("call", << <<"", 1>>, main>>)
  /\ e[m + 5] = Line("move", << <<"", 0>>, <<"", 1>> >>)
  /\ e[m + 6] = Line("halt", <<>>)

LEMMA EntryAs ==
  ASSUME NEW lines, IsSequence(lines), NEW main
  PROVE  /\ AsEntry(EntryBody(lines, main), Len(lines), main)
         /\ Len(lines) \in Nat /\ DOMAIN EntryBody(lines, main) = 1..(Len(lines) + 6)
         /\ \A i \in 1..Len(lines) : EntryBody(lines, main)[1 + i] = lines[i]
  BY EntryLines DEF AsEntry

LEMMA SameEnds ==
  ASSUME NEW E, NEW F, NEW m, NEW z, NEW main, AsEntry(E, m, main), AsEntry(F, z, main), z = 0
  PROVE  E[1] = F[1] /\ \A j \in 2..6 : E[m + j] = F[j]
<1>1. /\ E[1] = F[1] /\ E[m + 2] = F[z + 2] /\ E[m + 3] = F[z + 3] /\ E[m + 4] = F[z + 4]
      /\ E[m + 5] = F[z + 5] /\ E[m + 6] = F[z + 6]
  BY Zenon DEF AsEntry
<1>2. E[m + 2] = F[2] /\ E[m + 3] = F[3] /\ E[m + 4] = F[4] /\ E[m + 5] = F[5] /\ E[m + 6] = F[6]
  BY <1>1
<1>3. \A j \in 2..6 : j = 2 \/ j = 3 \/ j = 4 \/ j = 5 \/ j = 6
  OBVIOUS
<1>. QED
  BY <1>1, <1>2, <1>3

LEMMA EntryEnds ==
  ASSUME NEW lines, IsSequence(lines), NEW main
  PROVE  LET E == EntryBody(lines, main) F == EntryBody(<<>>, main) m == Len(lines)
         IN /\ m \in Nat /\ DOMAIN E = 1..(m + 6)
            /\ E[1] = F[1] /\ \A j \in 2..6 : E[m + j] = F[j]
            /\ \A i \in 1..m : E[1 + i] = lines[i]
<1>1. PICK empty : empty = <<>>
  OBVIOUS
<1>2. IsSequence(empty) /\ Len(empty) = 0
  BY <1>1 DEF IsSequence
<1>3. /\ AsEntry(EntryBody(empty, main), Len(empty), main) /\ AsEntry(EntryBody(lines, main), Len(lines), main)
      /\ Len(lines) \in Nat /\ DOMAIN EntryBody(lines, main) = 1..(Len(lines) + 6)
      /\ \A i \in 1..Len(lines) : EntryBody(lines, main)[1 + i] = lines[i]
  BY <1>2, EntryAs
<1>. QED
  BY <1>1, <1>2, <1>3, SameEnds

LEMMA EntryPicked ==
  ASSUME NEW lines, IsSequence(lines), NEW main, NEW K \in SUBSET (1..Len(lines)),
         NEW KE \in SUBSET (1..(Len(lines) + 6)),
         \A x \in 1..(Len(lines) + 6) : x \in KE <=> x = 1 \/ x > Len(lines) + 1 \/ x - 1 \in K
  PROVE  /\ Cardinality(K) \in Nat /\ Cardinality(KE) = Cardinality(K) + 6
         /\ Pick(EntryBody(lines, main), KE) = EntryPicks(Pick(lines, K), Cardinality(K), main)
<1> DEFINE E == EntryBody(lines, main) F == EntryBody(<<>>, main) m == Len(lines)
           r == Pick(lines, K) p == Pick(E, KE) n == Cardinality(K)
<1>1. /\ m \in Nat /\ DOMAIN E = 1..(m + 6)
      /\ E[1] = F[1] /\ \A j \in 2..6 : E[m + j] = F[j]
      /\ \A i \in 1..m : E[1 + i] = lines[i]
  BY EntryEnds
<1>2. Counted(m, K) /\ Counted(m + 6, KE) /\ IsPick(r, lines, K) /\ IsPick(p, E, KE)
  <2>1. m + 6 \in Nat
    BY <1>1
  <2>. QED
    BY <1>1, <2>1, UptoCounts, Picked
<1>3. /\ 1 \in KE /\ \A i \in 1..m : i + 1 \in KE <=> i \in K
      /\ \A j \in 2..6 : m + j \in KE
  <2>1. 1 \in 1..(m + 6) /\ \A i \in 1..m : i + 1 \in 1..(m + 6) /\ (i + 1) - 1 = i /\ i + 1 # 1 /\ ~(i + 1 > m + 1)
    BY <1>1
  <2>2. \A j \in 2..6 : m + j \in 1..(m + 6) /\ m + j > m + 1
    BY <1>1
  <2>. QED
    BY <2>1, <2>2
<1> DEFINE Q == {i \in Nat : i <= m => Upto(KE, i + 1) = Upto(K, i) + 1}
<1>4. 0 \in Q
  <2>1. Upto(KE, 0) = 0 /\ Upto(K, 0) = 0 /\ Upto(KE, 0 + 1) = IF 0 + 1 \in KE THEN Upto(KE, 0) + 1 ELSE Upto(KE, 0)
    BY <1>2 DEF Counted
  <2>2. 0 + 1 = 1
    OBVIOUS
  <2>. QED
    BY <1>3, <2>1, <2>2
<1>5. ASSUME NEW i \in Nat, i \in Q
      PROVE  i + 1 \in Q
  <2> SUFFICES ASSUME i + 1 <= m
               PROVE  Upto(KE, (i + 1) + 1) = Upto(K, i + 1) + 1
    OBVIOUS
  <2>1. i <= m /\ i + 1 \in Nat /\ i + 1 \in 1..m
    BY <1>1
  <2>2. Upto(KE, i + 1) = Upto(K, i) + 1 /\ Upto(K, i) \in Nat
    BY <1>2, <1>5, <2>1 DEF Counted
  <2>3. Upto(KE, (i + 1) + 1) = IF (i + 1) + 1 \in KE THEN Upto(KE, i + 1) + 1 ELSE Upto(KE, i + 1)
    BY <1>2, <2>1 DEF Counted
  <2>4. Upto(K, i + 1) = IF i + 1 \in K THEN Upto(K, i) + 1 ELSE Upto(K, i)
    BY <1>2 DEF Counted
  <2>5. (i + 1) + 1 \in KE <=> i + 1 \in K
    BY <1>3, <2>1
  <2>. QED
    BY <2>2, <2>3, <2>4, <2>5
<1>6. Nat \subseteq Q
  <2> HIDE DEF Q
  <2>. QED
    BY <1>4, <1>5, CountingUp
<1>7. n \in Nat /\ Upto(KE, m + 1) = n + 1
  <2>1. Upto(K, m) = n /\ n \in Nat
    BY <1>2 DEF Counted
  <2>. QED
    BY <1>1, <1>6, <2>1
<1>8. \A j \in 2..6 : Upto(KE, m + j) = Upto(KE, m + (j - 1)) + 1
  <2>1. ASSUME NEW j \in 2..6
        PROVE  Upto(KE, m + j) = Upto(KE, m + (j - 1)) + 1
    <3>0. m + (j - 1) \in Nat
      BY <1>1
    <3>1. PICK i \in Nat : i = m + (j - 1)
      BY <3>0
    <3>2. i + 1 = m + j
      BY <1>1, <3>1
    <3>3. Upto(KE, i + 1) = IF i + 1 \in KE THEN Upto(KE, i) + 1 ELSE Upto(KE, i)
      BY <1>2 DEF Counted
    <3>. QED
      BY <1>3, <3>1, <3>2, <3>3
  <2>. QED
    BY <2>1
<1>9. \A j \in 2..6 : Upto(KE, m + j) = n + j
  <2> HIDE DEF E, F, m, r, p, n
  <2> DEFINE u(j) == Upto(KE, m + j)
  <2>1. u(1) = n + 1
    BY <1>7
  <2>2. u(2) = u(1) + 1 /\ u(3) = u(2) + 1 /\ u(4) = u(3) + 1 /\ u(5) = u(4) + 1 /\ u(6) = u(5) + 1
    <3>1. \A j \in 2..6 : u(j) = u(j - 1) + 1
      BY <1>8
    <3> HIDE DEF u
    <3>. QED
      BY <3>1
  <2> HIDE DEF u
  <2>3. u(2) = n + 2 /\ u(3) = n + 3 /\ u(4) = n + 4 /\ u(5) = n + 5 /\ u(6) = n + 6
    BY <1>7, <2>1, <2>2
  <2>4. \A j \in 2..6 : j = 2 \/ j = 3 \/ j = 4 \/ j = 5 \/ j = 6
    OBVIOUS
  <2>5. \A j \in 2..6 : u(j) = n + j
    BY <2>3, <2>4
  <2>. QED
    BY <2>5 DEF u
<1>10. Cardinality(KE) = n + 6
  <2>1. Upto(KE, m + 6) = Cardinality(KE)
    BY <1>2 DEF Counted
  <2>. QED
    BY <1>9, <2>1
<1>11. /\ p = [k \in 1..(n + 6) |-> p[k]] /\ \A x \in KE : p[Upto(KE, x)] = E[x]
       /\ \A k \in 1..n : \E i \in K : Upto(K, i) = k /\ r[k] = lines[i]
  BY <1>2, <1>10 DEF IsPick
<1> HIDE DEF E, F, p, r, n
<1>12. p[1] = F[1]
  <2>1. Upto(KE, 1) = 1
    <3>1. Upto(K, 0) = 0 /\ 0 \in Q /\ 0 <= m /\ 0 + 1 = 1
      BY <1>1, <1>2, <1>4 DEF Counted
    <3>. QED
      BY <3>1
  <2>. QED
    BY <1>1, <1>3, <1>11, <2>1
<1>13. ASSUME NEW k \in 2..(n + 1)
       PROVE  p[k] = r[k - 1]
  <2>1. k - 1 \in 1..n
    BY <1>7
  <2>2. PICK i \in K : Upto(K, i) = k - 1 /\ r[k - 1] = lines[i]
    BY <1>11, <2>1
  <2>3. i \in 1..m /\ i \in Nat /\ i <= m /\ 1 + i = i + 1
    BY <1>1
  <2>4. Upto(KE, i + 1) = k
    <3>1. Upto(KE, i + 1) = Upto(K, i) + 1
      BY <1>6, <2>3
    <3>. QED
      BY <1>7, <2>2, <3>1
  <2>5. i + 1 \in KE
    BY <1>3, <2>3
  <2>6. p[k] = E[i + 1]
    BY <1>11, <2>4, <2>5
  <2>. QED
    BY <1>1, <2>2, <2>3, <2>6
<1>14. ASSUME NEW k \in (n + 2)..(n + 6)
       PROVE  p[k] = F[k - n]
  <2>1. k - n \in 2..6 /\ n + (k - n) = k
    BY <1>7
  <2>2. PICK j \in 2..6 : j = k - n
    BY <2>1
  <2>3. Upto(KE, m + j) = k /\ m + j \in KE
    BY <1>3, <1>9, <2>1, <2>2
  <2>. QED
    BY <1>1, <1>11, <2>2, <2>3, ZenonT(60)
<1>15. ASSUME NEW k \in 1..(n + 6)
       PROVE  p[k] = IF k = 1 THEN F[1] ELSE IF k <= n + 1 THEN r[k - 1] ELSE F[k - n]
  <2>1. CASE k = 1
    BY <1>12, <2>1
  <2>2. CASE k # 1 /\ k <= n + 1
    <3>1. k \in 2..(n + 1)
      BY <1>7, <2>2
    <3>. QED
      BY <1>13, <2>2, <3>1
  <2>3. CASE k # 1 /\ ~(k <= n + 1)
    <3>1. k \in (n + 2)..(n + 6)
      BY <1>7, <2>3
    <3>. QED
      BY <1>14, <2>3, <3>1
  <2>. QED
    BY <2>1, <2>2, <2>3
<1>16. p = EntryPicks(r, n, main)
  BY <1>11, <1>15 DEF EntryPicks, F
<1>. QED
  BY <1>7, <1>10, <1>16 DEF p, r, n, E

\* The lines outside of bodies.
Outside(lines) ==
  {i \in DOMAIN lines : \A o \in Opens(lines) : ~(o <= i /\ i <= Closing(lines, o))}

LEMMA TopLevelLines ==
  ASSUME NEW lines
  PROVE  Listing!TopLevel(lines) = Pick(lines, Outside(lines))
<1> DEFINE inside(i) == \E o \in DOMAIN lines :
             /\ lines[o].op \in {".function:", ".block:"}
             /\ o <= i /\ i <= Listing!Min({j \in DOMAIN lines : j > o /\ lines[j].op = ".end"})
<1>1. \A S : Listing!Min(S) = Min(S)
  BY DEF Listing!Min, Min
<1>2. \A i \in DOMAIN lines : ~inside(i) <=> i \in Outside(lines)
  BY <1>1 DEF Outside, Opens, Closing
<1>3. Outside(lines) = {i \in DOMAIN lines : ~inside(i)}
  <2>1. Outside(lines) \subseteq DOMAIN lines
    BY DEF Outside
  <2> HIDE DEF inside
  <2>. QED
    BY <1>2, <2>1
<1>4. Listing!TopLevel(lines) = Listing!Pick(lines, {i \in DOMAIN lines : ~inside(i)})
  BY DEF Listing!TopLevel
<1>. QED
  BY <1>3, <1>4 DEF Listing!Pick, Pick, Listing!Cardinality, Cardinality

LEMMA EntryKept ==
  ASSUME NEW lines, IsFile(lines), NEW main, CanCompile(EntryBody(lines, main))
  PROVE  /\ Kept(lines) \in SUBSET Outside(lines) /\ Outside(lines) \in SUBSET (1..Len(lines))
         /\ \A i \in Outside(lines) : i \in Kept(lines) <=> ~IsDirective(lines[i])
<1> DEFINE m == Len(lines) E == EntryBody(lines, main)
<1>1. m \in Nat /\ DOMAIN lines = 1..m
  BY SequenceDomain DEF IsFile
<1>2. /\ DOMAIN E = 1..(m + 6) /\ \A i \in 1..m : E[1 + i] = lines[i]
  BY EntryMnemonics
<1>3. ASSUME NEW i \in Kept(lines)
      PROVE  i \in Outside(lines) /\ ~IsDirective(lines[i])
  <2>1. i \in 1..m /\ ~Within(lines, i, ".function:") /\ ~Within(lines, i, ".block:")
    BY <1>1 DEF Kept
  <2>2. i \in Outside(lines)
    BY <1>1, <2>1 DEF Outside, Opens, Within
  <2>3. i + 1 \in 1..(m + 6) /\ (i + 1) - 1 = i /\ 1 + i = i + 1
    BY <1>1, <2>1
  <2>4. i + 1 \in Kept(E)
    BY <2>3, EntryKeeps
  <2>5. m + 6 \in Nat
    BY <1>1
  <2>6. ~IsDirective(E[i + 1])
    <3> HIDE DEF E
    <3>. QED
      BY <1>2, <2>4, <2>5, KeptLines DEF E
  <2>. QED
    BY <1>2, <2>1, <2>2, <2>3, <2>6
<1>4. ASSUME NEW i \in Outside(lines), ~IsDirective(lines[i])
      PROVE  i \in Kept(lines)
  <2>1. i \in DOMAIN lines /\ \A o \in Opens(lines) : ~(o <= i /\ i <= Closing(lines, o))
    BY DEF Outside
  <2>2. lines[i].op \notin Skipped
    BY <1>4, Directive
  <2>3. ASSUME NEW d \in {".function:", ".block:", ".class:"}
        PROVE  ~Within(lines, i, d)
    <3>1. \A o \in DOMAIN lines : lines[o].op # ".class:"
      BY DEF IsFile
    <3>. QED
      BY <2>1, <3>1 DEF Within, Opens
  <2>. QED
    BY <2>1, <2>2, <2>3 DEF Kept
<1>5. Outside(lines) \in SUBSET (1..m)
  BY <1>1 DEF Outside
<1>. QED
  BY <1>3, <1>4, <1>5

LEMMA EntryMeans ==
  ASSUME NEW lines, IsFile(lines), NEW main, CanCompile(EntryBody(lines, main))
  PROVE  Filter(EntryBody(lines, main)) = Listing!InstructionsOf(EntryBody(Listing!TopLevel(lines), main))
<1> DEFINE m == Len(lines) E == EntryBody(lines, main) K == Kept(lines) O == Outside(lines)
           top == Listing!TopLevel(lines) T == EntryBody(top, main) c == Cardinality(O)
           I == {k \in 1..c : ~IsDirective(top[k])} KT == {x \in DOMAIN T : ~IsDirective(T[x])}
<1>1. IsSequence(lines) /\ m \in Nat /\ DOMAIN lines = 1..m
  BY SequenceDomain DEF IsFile
<1>2. K \in SUBSET O /\ O \in SUBSET (1..m) /\ \A i \in O : i \in K <=> ~IsDirective(lines[i])
  BY EntryKept
<1>3. IsPick(top, lines, O)
  BY <1>1, <1>2, TopLevelLines, Picked
<1>4. IsSequence(top) /\ Len(top) = c /\ c \in Nat
  BY <1>3 DEF IsPick, IsSequence
<1>5. Pick(top, I) = Pick(lines, K) /\ Cardinality(I) = Cardinality(K)
  <2>1. \A i \in O : Upto(O, i) \in 1..c /\ top[Upto(O, i)] = lines[i]
    BY <1>3 DEF IsPick
  <2>2. \A i \in O : Upto(O, i) \in I <=> i \in K
    BY <1>2, <2>1
  <2>3. I \in SUBSET (1..c)
    OBVIOUS
  <2>4. Nested(m, lines, O, K, top, I)
    <3> HIDE DEF K, O, top, I
    <3>. QED
      BY <1>1, <1>2, <1>3, <2>2, <2>3 DEF Nested
  <2>. QED
    BY <2>4, PickedTwice
<1>6. Pick(E, Kept(E)) = EntryPicks(Pick(lines, K), Cardinality(K), main)
  <2>1. Kept(E) \in SUBSET (1..(m + 6))
    BY EntryMnemonics DEF Kept
  <2>2. \A x \in 1..(m + 6) : x \in Kept(E) <=> x = 1 \/ x > m + 1 \/ x - 1 \in K
    BY EntryKeeps
  <2>3. K \in SUBSET (1..m)
    BY <1>2
  <2> HIDE DEF K
  <2>. QED
    BY <1>1, <2>1, <2>2, <2>3, EntryPicked
<1>7. Pick(T, KT) = EntryPicks(Pick(top, I), Cardinality(I), main)
  <2> HIDE DEF top
  <2>1. /\ DOMAIN T = 1..(c + 6) /\ AsEntry(T, c, main) /\ \A i \in 1..c : T[1 + i] = top[i]
    BY <1>4, EntryAs
  <2>2. ~IsDirective(T[1]) /\ ~IsDirective(T[c + 2]) /\ ~IsDirective(T[c + 3]) /\ ~IsDirective(T[c + 4])
        /\ ~IsDirective(T[c + 5]) /\ ~IsDirective(T[c + 6])
    <3>1. \A args : \A op \in {"ress", "frame", "param", "call", "move", "halt"} : ~IsDirective(Line(op, args))
      <4>1. \A op \in {"ress", "frame", "param", "call", "move", "halt"} : op \in Implemented
        BY DEF Implemented, RegisterInstructions, CallInstructions, ObjectInstructions
      <4>. QED
        BY <4>1, Directive DEF Line
    <3> HIDE DEF T, c
    <3>. QED
      BY <2>1, <3>1, Zenon DEF AsEntry
  <2>3. KT \in SUBSET (1..(c + 6)) /\ I \in SUBSET (1..c)
    BY <2>1
  <2>4. ASSUME NEW x \in 1..(c + 6)
        PROVE  x \in KT <=> x = 1 \/ x > c + 1 \/ x - 1 \in I
    <3> HIDE DEF T, c
    <3>1. CASE x = 1
      BY <2>1, <2>2, <3>1
    <3>2. CASE x > c + 1
      <4>1. x = c + 2 \/ x = c + 3 \/ x = c + 4 \/ x = c + 5 \/ x = c + 6
        BY <1>4, <3>2
      <4>. QED
        BY <2>1, <2>2, <3>2, <4>1
    <3>3. CASE x # 1 /\ ~(x > c + 1)
      <4>1. x - 1 \in 1..c /\ 1 + (x - 1) = x
        BY <1>4, <3>3
      <4>2. T[x] = top[x - 1]
        BY <2>1, <4>1
      <4>. QED
        BY <2>1, <3>3, <4>1, <4>2
    <3>. QED
      BY <3>1, <3>2, <3>3
  <2> HIDE DEF I, KT, c, T
  <2>. QED
    BY <1>4, <2>3, <2>4, EntryPicked DEF T
<1>8. Filter(E) = Pick(E, Kept(E))
  BY DEF Filter, Kept, Skipped
<1>9. Listing!InstructionsOf(T) = Pick(T, KT)
  <2>1. KT = {i \in DOMAIN T : Listing!IsInstruction(T[i])}
    BY DEF IsDirective, Listing!IsInstruction
  <2> HIDE DEF T, KT
  <2>. QED
    BY <2>1 DEF Listing!InstructionsOf, Listing!Pick, Pick, Listing!Cardinality, Cardinality
<1> HIDE DEF E, T, KT, I, K, top
<1>. QED
  BY <1>5, <1>6, <1>7, <1>8, <1>9 DEF E, T, top

UnitBody(u, k) == AllBodies(File(u), UnitFlags(u))[k]

\* A body that is generated has a definition or is that of the entry function.
UnitBodyAt(u, k) ==
  \/ \E i \in Opens(File(u)) : Rank(File(u), i) = k /\ BodyAt(UnitBody(u, k), File(u), i)
  \/ u = 0 /\ k = Blocks(File(u)) + Functions(File(u)) + 1 /\ EntryAt(UnitBody(u, k), File(u), UnitFlags(u))

LEMMA UnitBodies ==
  ASSUME Assembled, DistinctNames, NEW u \in Members, UnitMade(u), NEW k \in 1..UnitCount(u)
  PROVE  UnitBodyAt(u, k) /\ CanCompile(UnitBody(u, k).lines) /\ k \in DOMAIN AllBodies(File(u), UnitFlags(u))
<1> DEFINE lines == File(u) flags == UnitFlags(u) libs == UnitLibs(u)
<1>1. IsFile(lines) /\ ProperFile(lines)
  BY MembersBuilt, MembersDistinct
<1>2. DOMAIN AllBodies(lines, flags) = 1..UnitCount(u)
  BY DEF UnitMade, IsSection, UnitCount
<1>3. flags.as_lib = (u # 0)
  BY DEF UnitFlags, Flags
<1>4. /\ AllOwn(lines, libs, flags)
      /\ Accepted(lines, flags, MainFunction(lines, flags), GatherFunctions(lines), GatherBlocks(lines),
                  FunctionsOf(lines, flags), LinkedTo(lines, libs, flags))
  BY DEF UnitMade, Succeeded
<1> HIDE DEF lines, flags, libs
<1>5. CanCompile(AllBodies(lines, flags)[k].lines)
  BY <1>1, <1>2, <1>4, BodiesCompile
<1>6. \/ \E i \in Opens(lines) : Rank(lines, i) = k /\ BodyAt(AllBodies(lines, flags)[k], lines, i)
      \/ /\ ~flags.as_lib /\ k = Blocks(lines) + Functions(lines) + 1
         /\ EntryAt(AllBodies(lines, flags)[k], lines, flags)
  BY <1>1, <1>2, BodyOfRank
<1>. QED
  BY <1>2, <1>3, <1>5, <1>6 DEF UnitBodyAt, UnitBody, lines, flags

\* The source a definition stands for.
LEMMA BodyOfName ==
  ASSUME Assembled, DistinctNames, NEW u \in Members, NEW i \in Opens(File(u))
  PROVE  /\ Body(u, File(u)[i].args[1]) = BodyLines(File(u), i)
         /\ File(u)[i].args[1] # EntryFunctionName
         /\ IsPlain(BodyLines(File(u), i))
         /\ \E n \in Nat : DOMAIN BodyLines(File(u), i) = 1..n
<1> DEFINE lines == File(u) name == lines[i].args[1]
           S == Listing!DefinedAt(lines, ".function:", name) \cup Listing!DefinedAt(lines, ".block:", name)
<1>1. IsFile(lines) /\ ProperFile(lines)
  BY MembersBuilt, MembersDistinct
<1>2. name # EntryFunctionName /\ \A j \in Opens(lines) : lines[j].args[1] = name => j = i
  BY <1>1 DEF ProperFile
<1>3. S = {i}
  BY <1>2 DEF Listing!DefinedAt, Opens
<1>4. i \in Int /\ Closes(lines, i)
  BY <1>1, SliceLines, ClosingLine
<1>5. Max(S) = i
  BY <1>3, <1>4, MaxIsOnly
<1>6. Listing!BodyFrom(lines, i) = BodyLines(lines, i)
  BY DEF Listing!BodyFrom, BodyLines, Closing, Listing!Min, Min
<1>7. Body(u, name) = Listing!BodyFrom(lines, Max(S))
  BY <1>2 DEF Body
<1>8. IsPlain(BodyLines(lines, i)) /\ \E n \in Nat : DOMAIN BodyLines(lines, i) = 1..n
  <2>1. /\ Len(BodyLines(lines, i)) \in Nat /\ DOMAIN BodyLines(lines, i) = 1..Len(BodyLines(lines, i))
        /\ \A k \in 1..Len(BodyLines(lines, i)) :
             BodyLines(lines, i)[k] = lines[i + k] /\ i + k \in Slice(lines, i) /\ i + k \in DOMAIN lines
    BY <1>1, SliceLines
  <2>2. \A j \in Slice(lines, i) : lines[j].op \notin {".function:", ".block:"}
    BY <1>4 DEF Closes, Slice
  <2>3. \A j \in DOMAIN lines : lines[j].op # ".class:"
    BY <1>1 DEF IsFile
  <2>. QED
    BY <2>1, <2>2, <2>3 DEF IsPlain
<1>. QED
  BY <1>2, <1>5, <1>6, <1>7, <1>8

\* The instructions of a body are those its name means.
LEMMA BodyMeans ==
  ASSUME Assembled, DistinctNames, NEW u \in Members, UnitMade(u), NEW k \in 1..UnitCount(u)
  PROVE  Filter(UnitBody(u, k).lines) = InstructionsIn(Body(u, UnitBody(u, k).name))
<1> DEFINE lines == File(u) b == UnitBody(u, k)
<1>1. UnitBodyAt(u, k) /\ CanCompile(b.lines)
  BY UnitBodies
<1>2. IsFile(lines)
  BY MembersBuilt
<1>3. CASE \E i \in Opens(lines) : Rank(lines, i) = k /\ BodyAt(b, lines, i)
  <2>1. PICK i \in Opens(lines) : BodyAt(b, lines, i)
    BY <1>3
  <2>2. b.name = lines[i].args[1] /\ b.lines = BodyLines(lines, i)
    BY <2>1 DEF BodyAt
  <2>3. /\ Body(u, b.name) = b.lines /\ IsPlain(b.lines) /\ \E n \in Nat : DOMAIN b.lines = 1..n
    BY <2>2, BodyOfName
  <2>. QED
    BY <1>1, <2>3, FilterIsInstructions DEF InstructionsIn
<1>4. CASE u = 0 /\ EntryAt(b, lines, UnitFlags(u))
  <2> DEFINE main == MainFunction(lines, UnitFlags(u))
  <2>1. b.name = EntryFunctionName /\ b.lines = EntryBody(lines, main)
    BY <1>4 DEF EntryAt
  <2>2. UnitFlags(u) = Flags(FALSE)
    BY <1>4 DEF UnitFlags
  <2>3. Body(u, b.name) = EntryBody(Listing!TopLevel(lines), main)
    BY <2>1, <2>2 DEF Body
  <2> HIDE DEF main
  <2>. QED
    BY <1>1, <1>2, <2>1, <2>3, EntryMeans DEF InstructionsIn
<1>. QED
  BY <1>1, <1>3, <1>4 DEF UnitBodyAt

\* The instructions of a file, with the lines they come from.
LEMMA UnitCoded ==
  ASSUME Assembled, DistinctNames, NEW u \in Members, UnitMade(u), NEW k \in 1..UnitCount(u)
  PROVE  LET s == UnitCode(u, k) b == UnitBody(u, k) meant == InstructionsIn(Body(u, b.name))
         IN /\ IsCoded(s, b.lines, u, b.name) /\ DOMAIN s = DOMAIN meant /\ Filter(b.lines) = meant
            /\ \A j \in DOMAIN s : IsInstr(s[j]) /\ s[j].source = <<u, b.name, j>> /\ s[j].op = meant[j].op
<1> DEFINE s == UnitCode(u, k) b == UnitBody(u, k) meant == InstructionsIn(Body(u, b.name))
<1>1. s = Coded(b.lines, u, b.name)
  BY DEF UnitCode, BodyCode, UnitBody
<1>2. Ready(b, u)
  BY DEF UnitMade, IsSection, UnitCount, UnitBody
<1>3. IsCoded(s, b.lines, u, b.name)
  BY <1>1, <1>2 DEF Ready
<1>4. Filter(b.lines) = meant
  BY BodyMeans
<1> HIDE DEF s, b, meant
<1>5. DOMAIN s = DOMAIN Filter(b.lines)
  BY <1>3 DEF IsCoded, IsPick
<1>6. \A j \in DOMAIN s : IsInstr(s[j]) /\ s[j].source = <<u, b.name, j>> /\ s[j].op = Filter(b.lines)[j].op
  BY <1>3 DEF IsCoded
<1>. QED
  BY <1>3, <1>4, <1>5, <1>6 DEF s, b, meant

\* Where an instruction of the image comes from.
LEMMA ImageFromSource ==
  ASSUME Assembled, DistinctNames, NEW o \in DOMAIN image.code
  PROVE  \E u \in Members : \E k \in 1..UnitCount(u) : \E j \in DOMAIN UnitCode(u, k) :
           Alike(image.code[o], UnitCode(u, k)[j])
<1>1. 0 \in Members
  BY DEF Members
<1>2. image = UnitResult(0).image
  BY <1>1, MembersBuilt
<1>3. UnitMade(0) /\ \A v \in ToSet(UnitLinks(0)) : GoodUnit(v)
  BY <1>1, MembersMade
<1>4. FromSource(image.code[o])
  BY <1>1, <1>2, <1>3, CodeFromSource
<1>. QED
  BY <1>4 DEF FromSource

-----------------------------------------------------------------------------
(***************************************************************************)
(* The sizes of the instructions of a project.                             *)
(***************************************************************************)
Arguments(lines) == \A i \in DOMAIN lines : IsSequence(lines[i].args)

LEMMA BodyFound ==
  ASSUME NEW lines, IsFile(lines), NEW name,
         name \in Listing!Defined(lines, ".function:") \cup Listing!Defined(lines, ".block:")
  PROVE  LET S == Listing!DefinedAt(lines, ".function:", name) \cup Listing!DefinedAt(lines, ".block:", name)
         IN Max(S) \in Opens(lines) /\ Listing!BodyFrom(lines, Max(S)) = BodyLines(lines, Max(S))
<1> DEFINE S == Listing!DefinedAt(lines, ".function:", name) \cup Listing!DefinedAt(lines, ".block:", name)
<1>1. S # {} /\ S \subseteq Opens(lines)
  BY DEF Listing!Defined, Listing!DefinedAt, Opens
<1>2. Len(lines) \in Nat /\ DOMAIN lines = 1..Len(lines)
  BY SequenceDomain DEF IsFile
<1>3. S \in SUBSET (1..Len(lines))
  BY <1>1, <1>2 DEF Opens
<1> HIDE DEF S
<1>4. Max(S) \in S
  BY <1>1, <1>2, <1>3, MaxIsIn
<1>5. \A i : Listing!BodyFrom(lines, i) = BodyLines(lines, i)
  BY DEF Listing!BodyFrom, BodyLines, Closing, Listing!Min, Min
<1>. QED
  BY <1>1, <1>4, <1>5 DEF S

LEMMA BodyArguments ==
  ASSUME project \in Projects, NEW u \in Units, NEW name \in Bodies(u)
  PROVE  Arguments(Body(u, name)) /\ \E m \in Nat : DOMAIN Body(u, name) = 1..m
<1> DEFINE lines == File(u) body == Body(u, name)
<1>1. IsFile(lines)
  BY ProjectParts DEF Units, File
<1>2. Len(lines) \in Nat /\ DOMAIN lines = 1..Len(lines) /\ IsSequence(lines) /\ Arguments(lines)
  BY <1>1, SequenceDomain DEF IsFile, Arguments
<1>3. CASE name = EntryFunctionName
  <2> DEFINE top == Listing!TopLevel(lines) main == MainFunction(lines, Flags(FALSE))
  <2>1. body = EntryBody(top, main)
    BY <1>3 DEF Body
  <2>2. top = Pick(lines, Outside(lines))
    BY TopLevelLines
  <2>3. Outside(lines) \in SUBSET (1..Len(lines))
    BY <1>2 DEF Outside
  <2>4. IsPick(top, lines, Outside(lines))
    BY <1>2, <2>2, <2>3, Picked
  <2> HIDE DEF top, main, lines
  <2>5. IsSequence(top)
    <3>1. PICK m \in Nat : m = Cardinality(Outside(lines))
      BY <2>4 DEF IsPick
    <3>2. top = [k \in 1..m |-> top[k]]
      BY <2>4, <3>1 DEF IsPick
    <3>3. Len(top) = m
      BY <2>4, <3>1 DEF IsPick
    <3>. QED
      BY <3>2, <3>3 DEF IsSequence
  <2>6. Arguments(top)
    <3> SUFFICES ASSUME NEW k \in DOMAIN top
                 PROVE  IsSequence(top[k].args)
      BY DEF Arguments
    <3>1. PICK i \in Outside(lines) : top[k] = lines[i]
      BY <2>4 DEF IsPick
    <3>2. i \in DOMAIN lines
      BY DEF Outside
    <3>. QED
      BY <1>2, <3>1, <3>2 DEF Arguments
  <2>7. Len(top) \in Nat /\ DOMAIN EntryBody(top, main) = 1..(Len(top) + 6)
    BY <2>5, EntryAdds
  <2>8. Arguments(EntryBody(top, main))
    <3> SUFFICES ASSUME NEW k \in DOMAIN EntryBody(top, main)
                 PROVE  IsSequence(EntryBody(top, main)[k].args)
      BY DEF Arguments
    <3>1. \/ \E j \in DOMAIN top : EntryBody(top, main)[k] = top[j]
          \/ CompleteLine(EntryBody(top, main)[k])
      BY <2>5, EntryAdds
    <3>. QED
      BY <2>6, <3>1 DEF Arguments, CompleteLine
  <2>9. PICK m \in Nat : m = Len(top) + 6
    BY <2>7
  <2>. QED
    BY <2>1, <2>7, <2>8, <2>9 DEF body
<1>4. CASE name # EntryFunctionName
  <2>1. PICK o \in Opens(lines) : body = BodyLines(lines, o)
    BY <1>1, <1>4, BodyFound DEF Body, Bodies
  <2> HIDE DEF lines, body
  <2>2. /\ Len(BodyLines(lines, o)) \in Nat /\ DOMAIN BodyLines(lines, o) = 1..Len(BodyLines(lines, o))
        /\ \A k \in 1..Len(BodyLines(lines, o)) : BodyLines(lines, o)[k] = lines[o + k] /\ o + k \in DOMAIN lines
    BY <1>1, SliceLines
  <2>3. Arguments(BodyLines(lines, o))
    <3> SUFFICES ASSUME NEW k \in DOMAIN BodyLines(lines, o)
                 PROVE  IsSequence(BodyLines(lines, o)[k].args)
      BY DEF Arguments
    <3>1. PICK i : i = o + k
      OBVIOUS
    <3>2. BodyLines(lines, o)[k] = lines[i] /\ i \in DOMAIN lines
      BY <2>2, <3>1
    <3>. QED
      BY <1>2, <3>2 DEF Arguments
  <2>. QED
    BY <2>1, <2>2, <2>3 DEF body
<1>. QED
  BY <1>3, <1>4

\* The parts that deal with bytes agree on the size of every instruction of
\* the project whose line gives its names, whatever the project.
THEOREM SizesAgree == Spec => []LayoutsAgree
<1>1. BuildInv => LayoutsAgree
  <2> SUFFICES ASSUME BuildInv, NEW u \in Units, NEW name \in Bodies(u), CanCompile(Body(u, name)),
                      NEW k \in DOMAIN Filter(Body(u, name)), GivesNames(Filter(Body(u, name))[k])
               PROVE  \A size \in {CountedSize(Filter(Body(u, name))[k]), WalkedSize(Compile(Body(u, name))[k]),
                                   DisassembledSize(Compile(Body(u, name))[k])} :
                        size = EmittedSize(Compile(Body(u, name))[k])
    BY DEF LayoutsAgree
  <2>1. PICK body : body = Body(u, name)
    OBVIOUS
  <2>2. PICK m \in Nat : DOMAIN body = 1..m /\ Arguments(body)
    <3>1. project \in Projects
      BY DEF BuildInv
    <3>. QED
      BY <2>1, <3>1, BodyArguments
  <2>3. IsPick(Filter(body), body, Kept(body))
    BY <2>2, FilterPicks
  <2>4. PICK i \in Kept(body) : Filter(body)[k] = body[i]
    BY <2>1, <2>3 DEF IsPick
  <2>5. IsSequence(Filter(body)[k].args)
    BY <2>2, <2>4 DEF Arguments, Kept
  <2>6. CanCompileLine(Filter(body)[k], k - 1, Marks(body), Names(body))
    BY <2>1 DEF CanCompile
  <2>7. Compile(body)[k] = CompileLine(Filter(body)[k], k - 1, Marks(body), Names(body))
    BY <2>1 DEF Compile
  <2>8. GivesNames(Filter(body)[k])
    BY <2>1
  <2>9. Agree(Filter(body)[k], CompileLine(Filter(body)[k], k - 1, Marks(body), Names(body)))
    BY <2>5, <2>6, <2>8, LineSizesAgree
  <2>. QED
    BY <2>1, <2>7, <2>9 DEF Agree
<1>. QED
  BY <1>1, BuildHolds, PTL

-----------------------------------------------------------------------------
(***************************************************************************)
(* The tables lead to where the bodies start.                              *)
(***************************************************************************)
LEMMA LinesCounted ==
  ASSUME NEW lines, IsFile(lines), Instructions(lines)
  PROVE  /\ \A o \in Opens(lines) : CountBytes(BodyLines(lines, o)) \in Nat
         /\ \A main : CountBytes(EntryBody(lines, main)) \in Nat
<1>1. LineSizes(lines) \in Seq(Nat)
  BY LinesSized DEF IsFile
<1>2. ASSUME NEW o \in Opens(lines)
      PROVE  CountBytes(BodyLines(lines, o)) \in Nat
  BY <1>1, BodyMass, MaskedSizes
<1>3. ASSUME NEW main
      PROVE  CountBytes(EntryBody(lines, main)) \in Nat
  <2> DEFINE E == EntryBody(lines, main) m == Len(lines)
  <2>1. /\ m \in Nat /\ DOMAIN E = 1..(m + 6) /\ DOMAIN lines = 1..m
        /\ E[1].op = "ress" /\ E[m + 2].op = "frame" /\ E[m + 3].op = "param" /\ E[m + 4].op = "call"
        /\ E[m + 5].op = "move" /\ E[m + 6].op = "halt"
        /\ \A i \in 1..m : E[1 + i] = lines[i]
    BY EntryMnemonics
  <2>2. IsSequence(E)
    BY EntryMade
  <2>3. \A op \in {"ress", "frame", "param", "call", "move", "halt"} : op \in DOMAIN OpSize
    BY SizeTable DEF Gives
  <2> HIDE DEF E, m
  <2>4. ASSUME NEW x \in DOMAIN E
        PROVE  IsDirective(E[x]) \/ E[x].op \in DOMAIN OpSize
    <3>1. CASE x \in 2..(m + 1)
      <4>1. PICK i : i = x - 1
        OBVIOUS
      <4>2. i \in 1..m /\ x = 1 + i
        BY <2>1, <3>1, <4>1
      <4>3. E[x] = lines[i]
        BY <2>1, <4>2
      <4>. QED
        BY <2>1, <4>2, <4>3 DEF Instructions
    <3>2. CASE x \notin 2..(m + 1)
      <4>1. x \in {1, m + 2, m + 3, m + 4, m + 5, m + 6}
        BY <2>1, <3>2
      <4>2. E[x].op \in {"ress", "frame", "param", "call", "move", "halt"}
        BY <2>1, <4>1
      <4>. QED
        BY <2>3, <4>2
    <3>. QED
      BY <3>1, <3>2
  <2>5. Instructions(E)
    BY <2>4 DEF Instructions
  <2>. QED
    BY <2>2, <2>5, LinesSized DEF E
<1>. QED
  BY <1>2, <1>3

\* A body that a line opens takes what is counted for its lines.
LEMMA SizeOfBody ==
  ASSUME NEW lines, IsFile(lines), ProperFile(lines), NEW flags, NEW i \in Opens(lines)
  PROVE  BodySize(AllBodies(lines, flags)[Rank(lines, i)]) = CountBytes(BodyLines(lines, i))
<1> DEFINE b == AllBodies(lines, flags)[Rank(lines, i)]
<1>1. BodyAt(b, lines, i)
  BY BodiesOfFile DEF Bodied
<1>2. b.name # EntryFunctionName /\ b.lines = BodyLines(lines, i)
  BY <1>1 DEF BodyAt, ProperFile
<1>. QED
  BY <1>2 DEF BodySize

BlockSizesOf(lines) ==
  LET blocks == GatherBlocks(lines)
  IN [k \in DOMAIN blocks.names |-> CountBytes(blocks.bodies[blocks.names[k]])]
FunctionSizesOf(lines, flags) ==
  LET functions == FunctionsOf(lines, flags)
  IN [k \in DOMAIN functions.names |-> CountBytes(functions.bodies[functions.names[k]])]
LEMMA BlockSizesMade ==
  ASSUME NEW lines, IsFile(lines), ProperFile(lines), Instructions(lines), NEW flags
  PROVE  /\ Blocks(lines) \in Nat
         /\ BlockSizesOf(lines) \in Seq(Nat) /\ Len(BlockSizesOf(lines)) = Blocks(lines)
         /\ \A k \in 1..Blocks(lines) : BlockSizesOf(lines)[k] = BodySize(AllBodies(lines, flags)[k])
<1> DEFINE d == ".block:" names == Named1(lines, d) n == Blocks(lines) s == BlockSizesOf(lines)
<1>1. IsNamed1(names, lines, d)
  BY NamesOfLines DEF IsFile
<1>2. n \in Nat /\ DOMAIN names = 1..n
  BY <1>1 DEF IsNamed1, Blocks
<1>3. s = [k \in 1..n |-> CountBytes(Invokables(lines, d)[names[k]])]
  <2>1. GatherBlocks(lines).names = names /\ GatherBlocks(lines).bodies = Invokables(lines, d)
    BY DEF GatherBlocks, BlockNames
  <2>. QED
    BY <1>2, <2>1 DEF BlockSizesOf
<1>4. ASSUME NEW k \in 1..n
      PROVE  s[k] \in Nat /\ s[k] = BodySize(AllBodies(lines, flags)[k])
  <2>1. PICK i \in Of(lines, d) : Upto(Of(lines, d), i) = k /\ names[k] = lines[i].args[1]
    BY <1>1 DEF IsNamed1, Blocks
  <2>2. i \in Opens(lines) /\ lines[i].op = d
    BY DEF Of, Opens
  <2>3. Rank(lines, i) = k
    BY <2>1, <2>2 DEF Rank
  <2>4. Invokables(lines, d)[lines[i].args[1]] = BodyLines(lines, i)
    BY InvokableBodies
  <2>5. s[k] = CountBytes(BodyLines(lines, i))
    BY <1>3, <2>1, <2>4
  <2>6. CountBytes(BodyLines(lines, i)) \in Nat
    BY <2>2, LinesCounted
  <2>. QED
    BY <2>2, <2>3, <2>5, <2>6, SizeOfBody
<1>5. s \in [1..n -> Nat]
  <2> HIDE DEF n, names
  <2>. QED
    BY <1>3, <1>4
<1> HIDE DEF s, n
<1>. QED
  BY <1>2, <1>4, <1>5 DEF s, n

LEMMA FunctionSizesMade ==
  ASSUME NEW lines, IsFile(lines), ProperFile(lines), Instructions(lines), NEW flags
  PROVE  /\ Functions(lines) \in Nat /\ Blocks(lines) \in Nat
         /\ FunctionSizesOf(lines, flags) \in Seq(Nat)
         /\ Len(FunctionSizesOf(lines, flags)) = Functions(lines) + IF flags.as_lib THEN 0 ELSE 1
         /\ \A k \in 1..Functions(lines) :
              FunctionSizesOf(lines, flags)[k] = BodySize(AllBodies(lines, flags)[Blocks(lines) + k])
<1> DEFINE d == ".function:" names == Named1(lines, d) n == Functions(lines) s == FunctionSizesOf(lines, flags)
           functions == FunctionsOf(lines, flags) c == n + IF flags.as_lib THEN 0 ELSE 1
           main == MainFunction(lines, flags)
<1>1. IsNamed1(names, lines, d)
  BY NamesOfLines DEF IsFile
<1>2. /\ n \in Nat /\ DOMAIN names = 1..n
      /\ functions.names \in Seq(ToSet(functions.names))
      /\ Len(functions.names) = c
      /\ \A k \in 1..n : functions.names[k] = names[k]
      /\ ~flags.as_lib => functions.names[n + 1] = EntryFunctionName
      /\ \A name : (name # EntryFunctionName \/ flags.as_lib) /\ name \in DOMAIN Invokables(lines, d) =>
           functions.bodies[name] = Invokables(lines, d)[name]
      /\ ~flags.as_lib => functions.bodies[EntryFunctionName] = EntryBody(lines, main)
  BY FunctionsGathered
<1>3. Blocks(lines) \in Nat
  BY BodiesOfFile DEF Bodied
<1>4. s = [k \in DOMAIN functions.names |-> CountBytes(functions.bodies[functions.names[k]])]
  BY DEF FunctionSizesOf
<1> HIDE DEF functions, n, names, s
<1>5. DOMAIN functions.names = 1..c /\ c \in Nat
  BY <1>2
<1>6. ASSUME NEW k \in 1..n
      PROVE  s[k] \in Nat /\ s[k] = BodySize(AllBodies(lines, flags)[Blocks(lines) + k])
  <2>1. PICK i \in Of(lines, d) : Upto(Of(lines, d), i) = k /\ names[k] = lines[i].args[1]
    BY <1>1 DEF IsNamed1, n, Functions
  <2>2. i \in Opens(lines) /\ lines[i].op = d
    BY DEF Of, Opens
  <2>3. Rank(lines, i) = Blocks(lines) + k
    BY <2>1, <2>2 DEF Rank
  <2>4. /\ Invokables(lines, d)[lines[i].args[1]] = BodyLines(lines, i)
        /\ lines[i].args[1] \in DOMAIN Invokables(lines, d)
    BY InvokableBodies
  <2>5. lines[i].args[1] # EntryFunctionName
    BY <2>2 DEF ProperFile
  <2>6. k \in 1..c
    BY <1>2
  <2>7. s[k] = CountBytes(BodyLines(lines, i))
    BY <1>2, <1>4, <1>5, <2>1, <2>4, <2>5, <2>6
  <2>8. CountBytes(BodyLines(lines, i)) \in Nat
    BY <2>2, LinesCounted
  <2>. QED
    BY <2>2, <2>3, <2>7, <2>8, SizeOfBody
<1>7. ASSUME NEW k \in 1..c
      PROVE  s[k] \in Nat
  <2>1. CASE k \in 1..n
    BY <1>6, <2>1
  <2>2. CASE k \notin 1..n
    <3>1. ~flags.as_lib /\ k = n + 1
      BY <1>2, <2>2
    <3>2. s[k] = CountBytes(EntryBody(lines, main))
      BY <1>2, <1>4, <1>5, <3>1
    <3>. QED
      BY <3>2, LinesCounted
  <2>. QED
    BY <2>1, <2>2
<1>8. s \in [1..c -> Nat]
  <2> HIDE DEF c
  <2>. QED
    BY <1>4, <1>5, <1>7
<1> HIDE DEF c
<1>9. s \in Seq(Nat) /\ Len(s) = c
  BY <1>5, <1>8
<1>. QED
  BY <1>2, <1>3, <1>6, <1>9 DEF s, n, c

\* Blocks come first, functions behind them.
PlacesAgree(lines, flags) ==
  LET starts == Starts(lines, flags) b == Blocks(lines) f == Functions(lines)
  IN /\ b \in Nat /\ f \in Nat /\ starts[b + f] \in Nat
     /\ \A k \in 0..b : BlockPlaces(lines)[k] = starts[k]
     /\ \A k \in 0..f : BlockBytes(lines) + FunctionPlaces(lines, flags)[k] = starts[b + k]
LEMMA TablePlaces ==
  ASSUME NEW unit, NEW lines, IsFile(lines), ProperFile(lines), Instructions(lines), NEW flags,
         IsSection(unit, lines, flags)
  PROVE  PlacesAgree(lines, flags)
<1> DEFINE b == Blocks(lines) f == Functions(lines) bs == BlockSizesOf(lines) fs == FunctionSizesOf(lines, flags)
           all == SectionSizes(AllBodies(lines, flags)) c == f + IF flags.as_lib THEN 0 ELSE 1
<1>1. /\ b \in Nat /\ bs \in Seq(Nat) /\ Len(bs) = b
      /\ \A k \in 1..b : bs[k] = BodySize(AllBodies(lines, flags)[k])
  BY BlockSizesMade
<1>2. /\ f \in Nat /\ fs \in Seq(Nat) /\ Len(fs) = c
      /\ \A k \in 1..f : fs[k] = BodySize(AllBodies(lines, flags)[b + k])
  BY FunctionSizesMade
<1>3. all \in Seq(Nat) /\ Len(all) = b + c /\ DOMAIN AllBodies(lines, flags) = 1..(b + c)
  <2>1. all \in Seq(Nat) /\ Len(all) = Count(lines, flags) /\ DOMAIN AllBodies(lines, flags) = 1..Count(lines, flags)
    BY DEF IsSection
  <2>2. Count(lines, flags) = b + c
    BY <1>1, <1>2 DEF Count
  <2>. QED
    BY <2>1, <2>2
<1>4. \A k \in 1..(b + c) : all[k] = BodySize(AllBodies(lines, flags)[k])
  BY <1>3 DEF SectionSizes
<1>5. /\ BlockPlaces(lines) = Places(bs) /\ BlockBytes(lines) = Total(bs)
      /\ FunctionPlaces(lines, flags) = Places(fs) /\ Starts(lines, flags) = Places(all)
  BY DEF BlockPlaces, BlockBytes, FunctionPlaces, Starts, BlockSizesOf, FunctionSizesOf
<1>6. c \in Nat /\ f <= c
  BY <1>2
<1> HIDE DEF b, f, bs, fs, all, c
<1>7. PICK t : t = bs \o fs
  OBVIOUS
<1>8. /\ t \in Seq(Nat) /\ Len(t) = b + c
      /\ \A k \in 0..b : Places(t)[k] = Places(bs)[k]
      /\ \A k \in 0..c : Places(t)[b + k] = Total(bs) + Places(fs)[k]
  BY <1>1, <1>2, <1>7, PlacesTogether
<1>9. PICK m : m = b + f
  OBVIOUS
<1>10. m \in Nat /\ m <= b + c
  BY <1>1, <1>2, <1>6, <1>9
<1>11. ASSUME NEW k \in 1..m
       PROVE  all[k] = t[k]
  <2>1. k \in 1..(b + c)
    BY <1>1, <1>6, <1>10
  <2>2. CASE k \in 1..b
    <3>1. t[k] = bs[k]
      BY <1>1, <1>2, <1>7, <2>2, ConcatProperties
    <3>. QED
      BY <1>1, <1>4, <2>1, <2>2, <3>1
  <2>3. CASE k \notin 1..b
    <3>1. PICK j : j = k - b
      OBVIOUS
    <3>2. j \in 1..f /\ k = b + j /\ j \in 1..c
      BY <1>1, <1>2, <1>6, <1>9, <2>3, <3>1
    <3>3. t[k] = fs[j]
      <4>1. k > Len(bs) /\ k <= Len(bs) + Len(fs) /\ k - Len(bs) = j
        BY <1>1, <1>2, <2>1, <3>1, <3>2
      <4>. QED
        BY <1>1, <1>2, <1>7, <2>1, <4>1, ConcatProperties
    <3>. QED
      BY <1>2, <1>4, <2>1, <3>2, <3>3
  <2>. QED
    BY <2>2, <2>3
<1>12. \A k \in 0..m : Places(all)[k] = Places(t)[k]
  <2>1. m <= Len(all) /\ m <= Len(t)
    BY <1>3, <1>8, <1>10
  <2>. QED
    BY <1>3, <1>8, <1>10, <1>11, <2>1, SameBeginning
<1>13. ASSUME NEW k \in 0..b
       PROVE  Places(bs)[k] = Places(all)[k]
  <2>1. k \in 0..m
    BY <1>1, <1>2, <1>9
  <2>. QED
    BY <1>8, <1>12, <2>1
<1>14. ASSUME NEW k \in 0..f
       PROVE  Total(bs) + Places(fs)[k] = Places(all)[b + k]
  <2>1. PICK i : i = b + k
    OBVIOUS
  <2>2. i \in 0..m /\ k \in 0..c
    BY <1>1, <1>2, <1>6, <1>9, <2>1
  <2>. QED
    BY <1>8, <1>12, <2>1, <2>2
<1>15. Places(all)[b + f] \in Nat
  <2>1. PICK i : i = b + f
    OBVIOUS
  <2>2. i \in 0..Len(all)
    BY <1>1, <1>2, <1>3, <1>6, <2>1
  <2>. QED
    BY <1>3, <2>1, <2>2, PlacesAdd
<1>. QED
  BY <1>1, <1>2, <1>5, <1>13, <1>14, <1>15 DEF PlacesAgree, b, f

-----------------------------------------------------------------------------
(***************************************************************************)
(* Looking up a name in a table.                                           *)
(***************************************************************************)
\* All entries a table has for the name lead to the address.
Entered(table, name, address) ==
  /\ \E n \in Nat : DOMAIN table = 1..n
  /\ \E i \in DOMAIN table : table[i][1] = name
  /\ \A i \in DOMAIN table : table[i][1] = name => table[i][2] = address
LEMMA AddressFound ==
  ASSUME NEW table, NEW name, NEW address, Entered(table, name, address)
  PROVE  /\ AddressIn(table, name) = address
         /\ name \in DOMAIN LoadMap(table).mapping /\ LoadMap(table).mapping[name] = address
<1> DEFINE S == {i \in DOMAIN table : table[i][1] = name}
<1>1. PICK n \in Nat : DOMAIN table = 1..n
  BY DEF Entered
<1>2. S \in SUBSET (1..n) /\ S # {}
  BY <1>1 DEF Entered
<1>3. Max(S) \in S
  <2> HIDE DEF S
  <2>. QED
    BY <1>2, MaxIsIn
<1>4. table[Max(S)][2] = address
  BY <1>3 DEF Entered
<1>5. AddressIn(table, name) = table[Max(S)][2]
  BY DEF AddressIn
<1>6. name \in {table[i][1] : i \in DOMAIN table}
  BY <1>3
<1>7. LoadMap(table).mapping = [x \in {table[i][1] : i \in DOMAIN table} |->
                                 table[Max({i \in DOMAIN table : table[i][1] = x})][2]]
  BY DEF LoadMap
<1>. QED
  BY <1>4, <1>5, <1>6, <1>7

\* Where the functions of a file are in the table of its image.
LEMMA OwnRows ==
  ASSUME NEW lines, IsFile(lines), ProperFile(lines), NEW flags
  PROVE  LET names == FunctionsOf(lines, flags).names n == Len(names) f == Functions(lines)
         IN /\ f \in Nat /\ n = f + (IF flags.as_lib THEN 0 ELSE 1) /\ DOMAIN names = 1..n
            /\ \A i \in Of(lines, ".function:") :
                 LET k == Upto(Of(lines, ".function:"), i)
                 IN k \in 1..f /\ \A r \in 1..n : names[r] = lines[i].args[1] <=> r = k
            /\ ~flags.as_lib => \A r \in 1..n : names[r] = EntryFunctionName <=> r = n
<1> DEFINE d == ".function:" names == FunctionsOf(lines, flags).names n == Len(names) f == Functions(lines)
           own == Named1(lines, d) S == Of(lines, d)
<1>1. /\ f \in Nat /\ DOMAIN own = 1..f
      /\ names \in Seq(ToSet(names))
      /\ n = f + (IF flags.as_lib THEN 0 ELSE 1)
      /\ \A k \in 1..f : names[k] = own[k]
      /\ ~flags.as_lib => names[f + 1] = EntryFunctionName
  BY FunctionsGathered
<1>2. IsNamed1(own, lines, d)
  BY NamesOfLines DEF IsFile
<1>3. /\ \A i \in S : Upto(S, i) \in 1..f /\ own[Upto(S, i)] = lines[i].args[1]
      /\ \A k \in 1..f : \E i \in S : Upto(S, i) = k /\ own[k] = lines[i].args[1]
  BY <1>2 DEF IsNamed1, Functions
<1>4. \A i \in S : i \in Opens(lines)
  BY DEF Of, Opens
<1>5. \A i, j \in S : lines[i].args[1] # EntryFunctionName /\ (lines[i].args[1] = lines[j].args[1] => i = j)
  BY <1>4 DEF ProperFile
<1> HIDE DEF names, f, own, S
<1>6. DOMAIN names = 1..n /\ n \in Nat
  BY <1>1
<1>7. ASSUME NEW r \in 1..f
      PROVE  /\ names[r] # EntryFunctionName
             /\ \A i \in S : names[r] = lines[i].args[1] => r = Upto(S, i)
  <2>1. PICK j \in S : Upto(S, j) = r /\ own[r] = lines[j].args[1]
    BY <1>3
  <2>2. names[r] = lines[j].args[1]
    BY <1>1, <2>1
  <2>. QED
    BY <1>5, <2>1, <2>2
<1>8. ASSUME NEW i \in S, NEW r \in 1..n
      PROVE  names[r] = lines[i].args[1] <=> r = Upto(S, i)
  <2>1. CASE r \in 1..f
    <3>1. r = Upto(S, i) => names[r] = lines[i].args[1]
      BY <1>1, <1>3, <2>1
    <3>. QED
      BY <1>7, <2>1, <3>1
  <2>2. CASE r \notin 1..f
    <3>1. ~flags.as_lib /\ r = f + 1
      BY <1>1, <2>2
    <3>2. names[r] = EntryFunctionName
      BY <1>1, <3>1
    <3>. QED
      BY <1>3, <1>5, <2>2, <3>2
  <2>. QED
    BY <2>1, <2>2
<1>9. ASSUME ~flags.as_lib, NEW r \in 1..n
      PROVE  names[r] = EntryFunctionName <=> r = n
  <2>1. n = f + 1
    BY <1>1, <1>9
  <2>2. CASE r \in 1..f
    <3>1. r # n
      BY <1>1, <2>1, <2>2
    <3>. QED
      BY <1>7, <2>2, <3>1
  <2>3. CASE r \notin 1..f
    <3>1. r = f + 1
      BY <1>1, <2>1, <2>3
    <3>. QED
      BY <1>1, <1>9, <2>1, <3>1
  <2>. QED
    BY <2>2, <2>3
<1>. QED
  BY <1>1, <1>3, <1>6, <1>8, <1>9 DEF names, f, S

UnitStart(u, k) == Starts(File(u), UnitFlags(u))[k]
LEMMA UnitTables ==
  ASSUME Assembled, DistinctNames, NEW u \in Members, UnitMade(u)
  PROVE  /\ IsFile(File(u)) /\ ProperFile(File(u)) /\ PlacesAgree(File(u), UnitFlags(u))
         /\ HasTables(UnitResult(u).image, File(u), UnitLibs(u), UnitFlags(u))
<1>1. IsFile(File(u)) /\ ProperFile(File(u))
  BY MembersBuilt, MembersDistinct
<1>2. Instructions(File(u))
  BY UnitFits DEF Verified
<1>3. IsSection(u, File(u), UnitFlags(u)) /\ HasTables(UnitResult(u).image, File(u), UnitLibs(u), UnitFlags(u))
  BY DEF UnitMade
<1>. QED
  BY <1>1, <1>2, <1>3, TablePlaces

\* The functions of the file itself.
LEMMA OwnEntered ==
  ASSUME Assembled, DistinctNames, NEW u \in Members, UnitMade(u), \A v \in ToSet(UnitLinks(u)) : GoodUnit(v),
         NEW i \in Of(File(u), ".function:")
  PROVE  Entered(UnitResult(u).image.functions, File(u)[i].args[1], UnitStart(u, Rank(File(u), i) - 1))
<1> DEFINE lines == File(u) flags == UnitFlags(u) names == FunctionsOf(lines, flags).names n == Len(names)
           f == Functions(lines) k == Upto(Of(lines, ".function:"), i) name == lines[i].args[1]
           linked == LinkedTo(lines, UnitLibs(u), flags) table == UnitResult(u).image.functions c == Len(linked)
           b == Blocks(lines) fp == FunctionPlaces(lines, flags) starts == Starts(lines, flags)
<1>1. IsFile(lines) /\ ProperFile(lines) /\ PlacesAgree(lines, flags)
  BY UnitTables
<1>2. /\ n \in Nat /\ c \in Nat /\ DOMAIN linked = 1..c /\ DOMAIN names = 1..n
      /\ DOMAIN table = 1..(n + c)
      /\ \A r \in 1..n : table[r] = <<names[r], BlockBytes(lines) + fp[r - 1]>>
      /\ \A r \in 1..c : table[n + r][1] = linked[r][1]
  BY UnitTables, Pairs DEF HasTables
<1>3. f \in Nat /\ f <= n /\ k \in 1..f /\ \A r \in 1..n : names[r] = name <=> r = k
  <2>1. f \in Nat /\ n = f + (IF flags.as_lib THEN 0 ELSE 1) /\ k \in 1..f /\ \A r \in 1..n : names[r] = name <=> r = k
    BY <1>1, OwnRows
  <2>. QED
    BY <2>1
<1>4. name \in ToSet(names)
  BY <1>2, <1>3 DEF ToSet
<1>5. \A r \in 1..c : linked[r][1] # name
  <2>1. name \notin NamesIn(linked)
    BY <1>4, OwnNotLinked
  <2> HIDE DEF linked, c, name
  <2>. QED
    BY <1>2, <2>1 DEF NamesIn
<1>6. Rank(lines, i) = b + k
  BY DEF Rank, Of
<1>7. b \in Nat /\ \A j \in 0..f : BlockBytes(lines) + fp[j] = starts[b + j]
  BY <1>1 DEF PlacesAgree
<1> HIDE DEF lines, flags, names, n, f, k, name, linked, table, c, b, fp, starts
<1>8. PICK j : j = k - 1
  OBVIOUS
<1>9. j \in 0..f /\ b + j = (b + k) - 1
  BY <1>3, <1>7, <1>8
<1>10. BlockBytes(lines) + fp[k - 1] = starts[(b + k) - 1]
  BY <1>7, <1>8, <1>9
<1>11. k \in 1..n /\ k \in 1..(n + c)
  BY <1>2, <1>3
<1>12. table[k][1] = name /\ table[k][2] = starts[(b + k) - 1]
  BY <1>2, <1>3, <1>10, <1>11
<1>13. ASSUME NEW r \in 1..(n + c), table[r][1] = name
       PROVE  r = k
  <2>1. CASE r \in 1..n
    BY <1>2, <1>3, <1>13, <2>1
  <2>2. CASE r \notin 1..n
    <3>1. PICK q : q = r - n
      OBVIOUS
    <3>2. q \in 1..c /\ r = n + q
      BY <1>2, <2>2, <3>1
    <3>. QED
      BY <1>2, <1>5, <1>13, <3>2
  <2>. QED
    BY <2>1, <2>2
<1>14. Entered(table, name, starts[(b + k) - 1])
  <2>1. n + c \in Nat
    BY <1>2
  <2>. QED
    BY <1>2, <1>11, <1>12, <1>13, <2>1 DEF Entered
<1>. QED
  BY <1>6, <1>14 DEF UnitStart, lines, flags, name, table, starts, b, k

\* The entry function.
LEMMA EntryEntered ==
  ASSUME Assembled, DistinctNames, UnitMade(0), \A v \in ToSet(UnitLinks(0)) : GoodUnit(v)
  PROVE  Entered(UnitResult(0).image.functions, EntryFunctionName, UnitStart(0, Blocks(File(0)) + Functions(File(0))))
<1> DEFINE lines == File(0) flags == UnitFlags(0) names == FunctionsOf(lines, flags).names n == Len(names)
           f == Functions(lines) name == EntryFunctionName
           linked == LinkedTo(lines, UnitLibs(0), flags) table == UnitResult(0).image.functions c == Len(linked)
           b == Blocks(lines) fp == FunctionPlaces(lines, flags) starts == Starts(lines, flags)
<1>0. 0 \in Members /\ ~flags.as_lib
  BY DEF Members, UnitFlags, Flags
<1>1. IsFile(lines) /\ ProperFile(lines) /\ PlacesAgree(lines, flags)
  BY <1>0, UnitTables
<1>2. /\ n \in Nat /\ c \in Nat /\ DOMAIN linked = 1..c /\ DOMAIN names = 1..n
      /\ DOMAIN table = 1..(n + c)
      /\ \A r \in 1..n : table[r] = <<names[r], BlockBytes(lines) + fp[r - 1]>>
      /\ \A r \in 1..c : table[n + r][1] = linked[r][1]
  <2>1. HasTables(UnitResult(0).image, lines, UnitLibs(0), flags)
    BY <1>0, UnitTables
  <2>. QED
    BY <2>1, Pairs DEF HasTables
<1>3. f \in Nat /\ n = f + 1 /\ \A r \in 1..n : names[r] = name <=> r = n
  <2>1. f \in Nat /\ n = f + (IF flags.as_lib THEN 0 ELSE 1) /\ \A r \in 1..n : names[r] = name <=> r = n
    BY <1>0, <1>1, OwnRows
  <2>. QED
    BY <1>0, <2>1
<1>4. name \in ToSet(names)
  <2> HIDE DEF names, n, name, f
  <2>1. n \in 1..n
    BY <1>2, <1>3
  <2>. QED
    BY <1>2, <1>3, <2>1 DEF ToSet
<1>5. \A r \in 1..c : linked[r][1] # name
  <2>1. name \notin NamesIn(linked)
    BY <1>0, <1>4, OwnNotLinked
  <2> HIDE DEF linked, c, name
  <2>. QED
    BY <1>2, <2>1 DEF NamesIn
<1>7. b \in Nat /\ BlockBytes(lines) + fp[f] = starts[b + f]
  BY <1>1, <1>3 DEF PlacesAgree
<1> HIDE DEF lines, flags, names, n, f, name, linked, table, c, b, fp, starts
<1>8. n \in 1..n /\ n \in 1..(n + c) /\ n - 1 = f
  BY <1>2, <1>3
<1>9. table[n][1] = name /\ table[n][2] = starts[b + f]
  BY <1>2, <1>3, <1>7, <1>8
<1>10. ASSUME NEW r \in 1..(n + c), table[r][1] = name
       PROVE  r = n
  <2>1. CASE r \in 1..n
    <3>1. names[r] = name
      BY <1>2, <1>10, <2>1, Pairs
    <3>. QED
      BY <1>3, <2>1, <3>1
  <2>2. CASE r \notin 1..n
    <3>1. PICK q : q = r - n
      OBVIOUS
    <3>2. q \in 1..c /\ r = n + q
      BY <1>2, <2>2, <3>1
    <3>. QED
      BY <1>2, <1>5, <1>10, <3>2
  <2>. QED
    BY <2>1, <2>2
<1>11. Entered(table, name, starts[b + f])
  <2>1. n + c \in Nat
    BY <1>2
  <2>. QED
    BY <1>2, <1>8, <1>9, <1>10, <2>1 DEF Entered
<1>. QED
  BY <1>11 DEF UnitStart, lines, flags, name, table, starts, b, f

\* The blocks.
LEMMA BlockEntered ==
  ASSUME Assembled, DistinctNames, NEW u \in Members, UnitMade(u), NEW i \in Of(File(u), ".block:")
  PROVE  Entered(UnitResult(u).image.blocks, File(u)[i].args[1], UnitStart(u, Rank(File(u), i) - 1))
<1> DEFINE lines == File(u) flags == UnitFlags(u) d == ".block:" names == Named1(lines, d) S == Of(lines, d)
           b == Blocks(lines) k == Upto(S, i) name == lines[i].args[1]
           table == UnitResult(u).image.blocks bp == BlockPlaces(lines) starts == Starts(lines, flags)
<1>1. IsFile(lines) /\ ProperFile(lines) /\ PlacesAgree(lines, flags)
  BY UnitTables
<1>2. IsNamed1(names, lines, d)
  BY <1>1, NamesOfLines DEF IsFile
<1>3. /\ b \in Nat /\ DOMAIN names = 1..b /\ \A j \in S : Upto(S, j) \in 1..b /\ names[Upto(S, j)] = lines[j].args[1]
      /\ \A r \in 1..b : \E j \in S : Upto(S, j) = r /\ names[r] = lines[j].args[1]
  BY <1>2 DEF IsNamed1, Blocks
<1>4. DOMAIN table = 1..b /\ \A r \in 1..b : table[r] = <<names[r], 0 + bp[r - 1]>>
  <2>1. HasTables(UnitResult(u).image, lines, UnitLibs(u), flags)
    BY UnitTables
  <2>2. GatherBlocks(lines).names = names
    BY DEF GatherBlocks, BlockNames
  <2>. QED
    BY <1>3, <2>1, <2>2 DEF HasTables
<1>5. \A j \in S : lines[j].args[1] = name => j = i
  BY <1>1 DEF ProperFile, Of, Opens
<1>6. Rank(lines, i) = k
  BY DEF Rank, Of
<1>7. /\ \A j \in 0..b : bp[j] = starts[j]
      /\ i \in S
  BY <1>1 DEF PlacesAgree
<1>8. starts[k - 1] \in Nat
  <2>1. IsSection(u, lines, flags)
    BY DEF UnitMade
  <2>2. \A j \in 0..Count(lines, flags) : starts[j] \in Nat
    BY <2>1 DEF IsSection
  <2>3. Functions(lines) \in Nat
    BY <1>1 DEF PlacesAgree
  <2>4. k - 1 \in 0..Count(lines, flags)
    <3>1. k \in 1..b
      BY <1>3
    <3> HIDE DEF k, b
    <3>2. k - 1 \in 0..b /\ b <= Count(lines, flags) /\ Count(lines, flags) \in Nat
      BY <1>3, <2>3, <3>1 DEF Count, b
    <3>3. PICK q : q = Count(lines, flags)
      OBVIOUS
    <3>4. k - 1 \in 0..q
      BY <1>3, <3>1, <3>2, <3>3
    <3>. QED
      BY <3>3, <3>4
  <2>. QED
    BY <2>2, <2>4
<1>9. k \in 1..b /\ names[k] = name
  BY <1>3
<1> HIDE DEF lines, flags, names, S, b, k, name, table, bp, starts
<1>10. table[k][1] = name /\ table[k][2] = starts[k - 1]
  <2>1. PICK j : j = k - 1
    OBVIOUS
  <2>2. j \in 0..b
    BY <1>3, <1>9, <2>1
  <2>3. 0 + bp[k - 1] = starts[k - 1]
    BY <1>7, <1>8, <2>1, <2>2
  <2>. QED
    BY <1>4, <1>9, <2>3
<1>11. ASSUME NEW r \in 1..b, table[r][1] = name
       PROVE  table[r][2] = starts[k - 1]
  <2>1. PICK j \in S : Upto(S, j) = r /\ names[r] = lines[j].args[1]
    BY <1>3
  <2>2. lines[j].args[1] = name
    BY <1>4, <1>11, <2>1
  <2>3. j = i
    BY <1>5, <2>2
  <2>4. r = k
    BY <2>1, <2>3 DEF k
  <2>. QED
    BY <1>10, <2>4
<1>12. Entered(table, name, starts[k - 1])
  BY <1>3, <1>4, <1>9, <1>10, <1>11 DEF Entered
<1>. QED
  BY <1>6, <1>12 DEF UnitStart, lines, flags, name, table, starts, k

-----------------------------------------------------------------------------
(***************************************************************************)
(* The instructions of a body are where its name leads.                    *)
(***************************************************************************)
LEMMA StartsAt ==
  ASSUME Assembled, DistinctNames, NEW u \in Members, UnitMade(u), NEW k \in 1..UnitCount(u),
         1 \in DOMAIN UnitCode(u, k)
  PROVE  LET code == UnitResult(u).image.code o == UnitStart(u, k - 1)
         IN o \in Nat /\ o \in DOMAIN code /\ Alike(code[o], UnitCode(u, k)[1])
<1> DEFINE lines == File(u) flags == UnitFlags(u) s == UnitCode(u, k) own == OwnCode(u, lines, UnitLibs(u), flags)
           code == UnitResult(u).image.code o == UnitStart(u, k - 1) q == PlaceOf(u, lines, flags, k, 1)
<1>1. /\ HasBodies(own, u, lines, flags) /\ IsSection(u, lines, flags)
      /\ IsImage(UnitResult(u).image, u, lines, UnitLibs(u), Len(UnitLinks(u)), flags)
  BY DEF UnitMade
<1>2. q \in DOMAIN own /\ Alike(own[q], s[1])
  BY <1>1 DEF HasBodies, UnitCount, UnitCode
<1>3. q \in DOMAIN code /\ code[q] = own[q]
  BY <1>1, <1>2 DEF IsImage
<1>4. o \in Nat
  <2>1. \A j \in 0..UnitCount(u) : UnitStart(u, j) \in Nat
    BY <1>1 DEF IsSection, UnitCount, UnitStart
  <2>2. UnitCount(u) \in Nat
    BY <1>1 DEF IsSection, UnitCount
  <2>3. k - 1 \in 0..UnitCount(u)
    BY <2>2
  <2>. QED
    BY <2>1, <2>3
<1>5. Places(Sizes(s))[0] = 0
  <2>1. PICK n \in Nat : DOMAIN s = 1..n /\ \A j \in 1..n : IsInstr(s[j])
    <3>1. IsCoded(s, UnitBody(u, k).lines, u, UnitBody(u, k).name)
      BY UnitCoded
    <3>. QED
      BY <3>1 DEF IsCoded
  <2>. QED
    BY <2>1, BodySizes
<1>6. q = o
  <2>1. q = o + Places(Sizes(s))[1 - 1]
    BY DEF PlaceOf, UnitStart, UnitCode
  <2>2. 1 - 1 = 0
    OBVIOUS
  <2> HIDE DEF q, o, s
  <2>. QED
    BY <1>4, <1>5, <2>1, <2>2
<1>. QED
  BY <1>2, <1>3, <1>4, <1>6

\* With one library, that links none, every library that is reached is this one.
LEMMA OneLinked ==
  ASSUME Assembled, OneLibrary, NEW u \in Reached
  PROVE  /\ Len(UnitLinks(0)) = 1 /\ DOMAIN UnitLibs(0) = 1..1 /\ UnitLibs(0)[1] = built[u]
         /\ u \in ToSet(UnitLinks(0)) /\ UnitLinks(u) = <<>> /\ u # 0 /\ u \in Members
<1> DEFINE links == project.links own == ToSet(links)
<1>1. /\ Len(links) \in Nat /\ DOMAIN links = 1..Len(links) /\ UnitLinks(0) = links
  BY MembersBuilt DEF Members, UnitLinks
<1>2. u # 0 /\ u \in Members
  BY ReachedUnits DEF Assembled, Members
<1>3. own \subseteq Reached
  BY <1>1, ReachedUnits DEF Assembled, Members
<1>4. \A v \in own : ToSet(project.libs[v].links) \subseteq own
  <2>1. \A v \in own : project.libs[v].links = <<>>
    BY <1>3 DEF OneLibrary
  <2>2. ToSet(<<>>) = {}
    BY DEF ToSet
  <2>. QED
    BY <2>1, <2>2
<1>5. own \in SUBSET DOMAIN project.libs
  <2>1. DOMAIN project.libs = 1..Len(project.libs)
    BY ProjectParts DEF Assembled, BuildInv
  <2>. QED
    BY <1>3, <2>1, ReachedUnits DEF Assembled
<1>6. u \in own
  <2>1. \A units \in SUBSET DOMAIN project.libs :
          /\ ToSet(project.links) \subseteq units
          /\ \A v \in units : ToSet(project.libs[v].links) \subseteq units
          => u \in units
    BY DEF Reached
  <2>. QED
    BY <1>4, <1>5, <2>1
<1>7. PICK l \in DOMAIN links : u = links[l]
  BY <1>6 DEF ToSet
<1>8. Len(links) <= 1 /\ project.libs[u].links = <<>>
  BY DEF OneLibrary
<1> HIDE DEF links, own
<1>9. Len(links) = 1 /\ l = 1
  BY <1>1, <1>7, <1>8
<1>10. UnitLibs(0) = [i \in 1..1 |-> built[links[i]]]
  BY <1>1, <1>9 DEF UnitLibs, Links
<1>11. UnitLinks(u) = <<>>
  BY <1>2, <1>8 DEF UnitLinks
<1>. QED
  BY <1>1, <1>2, <1>6, <1>7, <1>9, <1>10, <1>11 DEF own, links

LEMMA LinkedNamesOfOne ==
  ASSUME NEW libs, DOMAIN libs = 1..1, IsTable(libs[1].functions), NEW offset
  PROVE  LET t == LinkedFunctions(libs, offset) functions == libs[1].functions
         IN /\ Len(t) \in Nat /\ DOMAIN t = 1..Len(t)
            /\ t = [f \in DOMAIN functions.order |->
                      <<functions.order[f], functions.mapping[functions.order[f]] + offset>>]
<1>1. PICK n \in Nat : n = 1
  OBVIOUS
<1>2. DOMAIN libs = 1..n /\ \A l \in 1..n : IsTable(libs[l].functions)
  BY <1>1
<1>3. PICK t : t = LinkedFunctions(libs, offset)
  OBVIOUS
<1>4. /\ Len(t) \in Nat /\ DOMAIN t = 1..Len(t)
      /\ n = 1 => t = [f \in DOMAIN libs[1].functions.order |->
                        <<libs[1].functions.order[f],
                          libs[1].functions.mapping[libs[1].functions.order[f]] + offset>>]
  BY <1>2, <1>3, LinkedNames
<1>. QED
  BY <1>1, <1>3, <1>4
\* The rows of a table of functions: those of the file, then those it links.
LEMMA Rows ==
  ASSUME NEW written, NEW lines, NEW libs, NEW flags, HasTables(written, lines, libs, flags)
  PROVE  LET names == FunctionsOf(lines, flags).names linked == LinkedTo(lines, libs, flags)
             n == Len(names) c == Len(linked) table == written.functions
         IN /\ n \in Nat /\ DOMAIN names = 1..n /\ c \in Nat /\ DOMAIN linked = 1..c /\ DOMAIN table = 1..(n + c)
            /\ \A r \in 1..n : table[r] = <<names[r], BlockBytes(lines) + FunctionPlaces(lines, flags)[r - 1]>>
            /\ \A r \in 1..n : table[r][1] = names[r]
            /\ \A r \in 1..c : table[n + r] = <<linked[r][1], AddressIn(linked, linked[r][1])>>
            /\ \A r \in 1..c : table[n + r][1] = linked[r][1]
  BY Pairs DEF HasTables

\* The functions of the library are in the table of the program.
LEMMA LinkedEntered ==
  ASSUME Assembled, DistinctNames, OneLibrary, NEW u \in Reached, NEW i \in Of(File(u), ".function:")
  PROVE  Entered(UnitResult(0).image.functions, File(u)[i].args[1],
                 UnitStart(u, Rank(File(u), i) - 1) + LocalSize(File(0), UnitFlags(0)))
<1> DEFINE lines == File(0) flags == UnitFlags(0) libs == UnitLibs(0) names == FunctionsOf(lines, flags).names
           n == Len(names) linked == LinkedTo(lines, libs, flags) c == Len(linked)
           table == UnitResult(0).image.functions
           off == LocalSize(lines, flags) name == File(u)[i].args[1] start == UnitStart(u, Rank(File(u), i) - 1)
           theirs == LoadMap(UnitResult(u).image.functions) to == start + off
<1>1. /\ DOMAIN libs = 1..1 /\ libs[1] = built[u] /\ u # 0 /\ u \in Members /\ 0 \in Members
  BY OneLinked DEF Members
<1>2. UnitMade(u) /\ UnitMade(0) /\ (\A v \in ToSet(UnitLinks(0)) : GoodUnit(v)) /\ \A v \in ToSet(UnitLinks(u)) : GoodUnit(v)
  BY <1>1, MembersMade
<1>3. libs[1].functions = theirs
  <2>1. built[u] = LibraryOf(UnitResult(u).image)
    BY <1>1, MembersBuilt
  <2>2. PICK w : w = UnitResult(u).image
    OBVIOUS
  <2>3. LibraryOf(w).functions = LoadMap(w.functions)
    BY DEF LibraryOf, ExecutableOf, LoadFunctionsMap
  <2>. QED
    BY <1>1, <2>1, <2>2, <2>3
<1>4. theirs.mapping[name] = start /\ name \in DOMAIN theirs.mapping
  BY <1>1, <1>2, OwnEntered, AddressFound
<1>5. IsTable(theirs) /\ DOMAIN theirs.mapping = ToSet(theirs.order)
  <2>1. HasTables(UnitResult(u).image, File(u), UnitLibs(u), UnitFlags(u))
    BY <1>1, <1>2, UnitTables
  <2>. QED
    BY <2>1, LoadedNames
<1>6. /\ c \in Nat /\ DOMAIN linked = 1..c
      /\ linked = [f \in DOMAIN theirs.order |-> <<theirs.order[f], theirs.mapping[theirs.order[f]] + off>>]
  <2>1. \A l \in 1..1 : IsTable(libs[l].functions)
    BY <1>3, <1>5
  <2>2. LinkedTo(lines, libs, flags) = LinkedFunctions(libs, off)
    BY DEF LinkedTo
  <2> HIDE DEF libs, theirs, off, lines, flags
  <2>3. PICK t : t = LinkedFunctions(libs, off)
    OBVIOUS
  <2>4. /\ Len(t) \in Nat /\ DOMAIN t = 1..Len(t)
        /\ t = [f \in DOMAIN libs[1].functions.order |->
                  <<libs[1].functions.order[f], libs[1].functions.mapping[libs[1].functions.order[f]] + off>>]
    BY <1>1, <2>1, <2>3, LinkedNamesOfOne
  <2>. QED
    BY <1>3, <2>2, <2>3, <2>4
<1>7. /\ n \in Nat /\ DOMAIN names = 1..n /\ c \in Nat /\ DOMAIN linked = 1..c /\ DOMAIN table = 1..(n + c)
      /\ \A r \in 1..n : table[r] = <<names[r], BlockBytes(lines) + FunctionPlaces(lines, flags)[r - 1]>>
      /\ \A r \in 1..n : table[r][1] = names[r]
      /\ \A r \in 1..c : table[n + r] = <<linked[r][1], AddressIn(linked, linked[r][1])>>
      /\ \A r \in 1..c : table[n + r][1] = linked[r][1]
  <2>1. HasTables(UnitResult(0).image, lines, libs, flags)
    BY <1>1, <1>2, UnitTables
  <2>2. PICK w : w = UnitResult(0).image
    OBVIOUS
  <2>3. HasTables(w, lines, libs, flags)
    BY <2>1, <2>2
  <2> HIDE DEF lines, libs, flags
  <2>4. /\ n \in Nat /\ DOMAIN names = 1..n /\ c \in Nat /\ DOMAIN linked = 1..c /\ DOMAIN w.functions = 1..(n + c)
        /\ \A r \in 1..n : w.functions[r] = <<names[r], BlockBytes(lines) + FunctionPlaces(lines, flags)[r - 1]>>
        /\ \A r \in 1..n : w.functions[r][1] = names[r]
        /\ \A r \in 1..c : w.functions[n + r] = <<linked[r][1], AddressIn(linked, linked[r][1])>>
        /\ \A r \in 1..c : w.functions[n + r][1] = linked[r][1]
    BY <2>3, Rows
  <2>. QED
    BY <2>2, <2>4
<1>8. \A own \in ToSet(names) : own \notin NamesIn(linked)
  BY <1>1, <1>2, OwnNotLinked
<1> HIDE DEF lines, flags, libs, names, n, linked, c, table, off, name, start, theirs, to
<1>9. PICK f \in 1..c : theirs.order[f] = name
  <2>1. PICK f \in DOMAIN theirs.order : theirs.order[f] = name
    BY <1>4, <1>5 DEF ToSet
  <2>. QED
    BY <1>6, <2>1
<1>10. \A r \in 1..c : linked[r][1] = theirs.order[r] /\ linked[r][2] = theirs.mapping[theirs.order[r]] + off
  <2> SUFFICES ASSUME NEW r \in 1..c
               PROVE  linked[r][1] = theirs.order[r] /\ linked[r][2] = theirs.mapping[theirs.order[r]] + off
    OBVIOUS
  <2>1. r \in DOMAIN theirs.order
    BY <1>6
  <2>2. linked[r] = <<theirs.order[r], theirs.mapping[theirs.order[r]] + off>>
    BY <1>6, <2>1
  <2>. QED
    BY <2>2, Pairs
<1>11. Entered(linked, name, to)
  <2>1. \A r \in 1..c : linked[r][1] = name => linked[r][2] = to
    BY <1>4, <1>10 DEF to
  <2>. QED
    BY <1>6, <1>9, <1>10, <2>1 DEF Entered
<1>12. AddressIn(linked, name) = to
  BY <1>11, AddressFound
<1>13. name \in NamesIn(linked)
  BY <1>6, <1>9, <1>10 DEF NamesIn
<1>14. \E r \in 1..(n + c) : table[r][1] = name
  <2>1. PICK q : q = n + f
    OBVIOUS
  <2>2. q \in 1..(n + c)
    BY <1>6, <1>7, <2>1
  <2>3. table[q][1] = name
    BY <1>7, <1>9, <1>10, <2>1, Pairs
  <2>. QED
    BY <2>2, <2>3
<1>15. ASSUME NEW r \in 1..(n + c), table[r][1] = name
       PROVE  table[r][2] = to
  <2>1. CASE r \in 1..n
    <3>1. names[r] = name /\ names[r] \in ToSet(names)
      BY <1>7, <1>15, <2>1 DEF ToSet
    <3>. QED
      BY <1>8, <1>13, <3>1
  <2>2. CASE r \notin 1..n
    <3>1. PICK q : q = r - n
      OBVIOUS
    <3>2. q \in 1..c /\ r = n + q
      BY <1>6, <1>7, <2>2, <3>1
    <3>3. table[r] = <<linked[q][1], AddressIn(linked, linked[q][1])>>
      BY <1>7, <3>2
    <3>4. linked[q][1] = name
      BY <1>15, <3>3, Pairs
    <3>. QED
      BY <1>12, <3>3, <3>4, Pairs
  <2>. QED
    BY <2>1, <2>2
<1>16. Entered(table, name, to)
  <2>1. n + c \in Nat
    BY <1>6, <1>7
  <2>. QED
    BY <1>7, <1>14, <1>15, <2>1 DEF Entered
<1>. QED
  BY <1>16 DEF table, name, to, start, off, lines, flags

\* The code of the library is behind that of the program.
LEMMA LinkedStartsAt ==
  ASSUME Assembled, DistinctNames, OneLibrary, NEW u \in Reached, NEW p \in DOMAIN UnitResult(u).image.code
  PROVE  LET code == UnitResult(0).image.code o == p + LocalSize(File(0), UnitFlags(0))
         IN o \in DOMAIN code /\ Alike(code[o], UnitResult(u).image.code[p])
<1> DEFINE lines == File(0) flags == UnitFlags(0) libs == UnitLibs(0) written == UnitResult(0).image
           off == LocalSize(lines, flags) used == Used(lines, flags) linked == LibraryCode(lines, libs, flags)
           code == UnitResult(u).image.code at == Places(LibrarySizes(libs))
<1>1. /\ DOMAIN libs = 1..1 /\ libs[1] = built[u] /\ u # 0 /\ u \in Members /\ 0 \in Members /\ Len(UnitLinks(0)) = 1
  BY OneLinked DEF Members
<1>2. UnitMade(u) /\ UnitMade(0)
  BY <1>1, MembersMade
<1>3. libs[1].code = code
  <2>1. built[u] = LibraryOf(UnitResult(u).image)
    BY <1>1, MembersBuilt
  <2>2. PICK w : w = UnitResult(u).image
    OBVIOUS
  <2>3. LibraryOf(w).code = w.code
    BY DEF LibraryOf, ExecutableOf, LoadBytecode
  <2>. QED
    BY <1>1, <2>1, <2>2, <2>3
<1>4. used = off /\ off \in Nat
  BY <1>1, <1>2, UnitFits
<1>5. IsImage(written, 0, lines, libs, 1, flags)
  <2>1. IsImage(written, 0, lines, libs, Len(UnitLinks(0)), flags)
    BY <1>2 DEF UnitMade
  <2>. QED
    BY <1>1, <2>1
<1>6. AreLinked(linked, libs, 1, used, off)
  BY <1>5 DEF IsImage
<1>7. at[0] = 0
  BY <1>6 DEF AreLinked
<1>8. /\ used + at[1 - 1] + p \in DOMAIN linked
      /\ linked[used + at[1 - 1] + p] = Relocated(libs[1], off)[p]
      /\ Alike(Relocated(libs[1], off)[p], code[p])
  <2>1. p \in DOMAIN libs[1].code /\ 1 \in 1..1
    BY <1>3
  <2> HIDE DEF linked, libs, used, off, at, code
  <2>2. /\ used + at[1 - 1] + p \in DOMAIN linked
        /\ linked[used + at[1 - 1] + p] = Relocated(libs[1], off)[p]
    BY <1>6, <2>1 DEF AreLinked, at
  <2>3. Retargeted(Relocated(libs[1], off), libs[1].code)
    BY <1>6, <2>1 DEF AreLinked
  <2>. QED
    BY <1>3, <2>1, <2>2, <2>3 DEF Retargeted
<1>9. p \in Nat
  BY <1>1, <1>2, UnitFits DEF IsCode
<1>10. used + at[1 - 1] + p = p + off
  <2> HIDE DEF used, off, at
  <2>1. 1 - 1 = 0
    OBVIOUS
  <2>. QED
    BY <1>4, <1>7, <1>9, <2>1
<1>11. p + off \in DOMAIN linked /\ Alike(linked[p + off], code[p])
  BY <1>8, <1>10
<1>12. p + off \in DOMAIN written.code /\ written.code[p + off] = linked[p + off]
  BY <1>5, <1>11 DEF IsImage
<1>. QED
  BY <1>11, <1>12

-----------------------------------------------------------------------------
(***************************************************************************)
(* The names instructions refer to.                                        *)
(***************************************************************************)
KnownIn(u) == ToSet(FunctionsOf(File(u), UnitFlags(u)).names) \cup NamesIn(LinkedTo(File(u), UnitLibs(u), UnitFlags(u)))
\* A line of an entry function that is not in the file.
Supplied(line, main) ==
  line.op \in {"ress", "frame", "param", "move", "halt"} \/ \E reg : line = Line("call", <<reg, main>>)
LEMMA LineOfUnit ==
  ASSUME Assembled, DistinctNames, NEW u \in Members, UnitMade(u), NEW k \in 1..UnitCount(u),
         NEW j \in DOMAIN UnitCode(u, k)
  PROVE  /\ \/ \E x \in DOMAIN File(u) : Filter(UnitBody(u, k).lines)[j] = File(u)[x]
            \/ u = 0 /\ Supplied(Filter(UnitBody(u, k).lines)[j], MainFunction(File(u), UnitFlags(u)))
         /\ CompleteLine(Filter(UnitBody(u, k).lines)[j])
<1> DEFINE lines == File(u) b == UnitBody(u, k) l == Filter(b.lines)[j] main == MainFunction(lines, UnitFlags(u))
<1>1. UnitBodyAt(u, k) /\ IsFile(lines)
  BY UnitBodies, MembersBuilt
<1>6. \A x \in DOMAIN lines : CompleteLine(lines[x])
  BY MembersDistinct DEF ProperFile, Complete, CompleteLine
<1>2. PICK i \in Kept(b.lines) : l = b.lines[i]
  <2>1. IsCoded(UnitCode(u, k), b.lines, u, b.name)
    BY UnitCoded
  <2>. QED
    BY <2>1 DEF IsCoded, IsPick
<1>3. i \in DOMAIN b.lines
  BY DEF Kept
<1>4. CASE \E o \in Opens(lines) : BodyAt(b, lines, o)
  <2>1. PICK o \in Opens(lines) : BodyAt(b, lines, o)
    BY <1>4
  <2>2. b.lines = BodyLines(lines, o)
    BY <2>1 DEF BodyAt
  <2>3. b.lines[i] = lines[o + i] /\ o + i \in DOMAIN lines
    BY <1>1, <1>3, <2>2, SliceLines
  <2>. QED
    BY <1>2, <1>6, <2>3
<1>5. CASE u = 0 /\ EntryAt(b, lines, UnitFlags(u))
  <2> DEFINE E == EntryBody(lines, main) m == Len(lines)
  <2>1. b.lines = E
    BY <1>5 DEF EntryAt
  <2>2. /\ m \in Nat /\ DOMAIN E = 1..(m + 6) /\ DOMAIN lines = 1..m
        /\ Made(E[1], "ress") /\ Made(E[m + 2], "frame") /\ Made(E[m + 3], "param")
        /\ \E reg : E[m + 4] = Line("call", <<reg, main>>)
        /\ Made(E[m + 5], "move") /\ Made(E[m + 6], "halt")
        /\ \A x \in 1..m : E[1 + x] = lines[x]
    BY <1>1, EntryMade
  <2>3. \A op, line : Made(line, op) => line.op = op
    BY DEF Made, Line
  <2>8. CompleteLine(l)
    <3>1. i \in DOMAIN E /\ l = E[i]
      BY <1>2, <1>3, <2>1
    <3>2. (\E x \in DOMAIN lines : E[i] = lines[x]) \/ CompleteLine(E[i])
      BY <1>1, <3>1, EntryAdds DEF IsFile
    <3>. QED
      BY <1>6, <3>1, <3>2
  <2> HIDE DEF E, m, main, lines
  <2>4. /\ Supplied(E[1], main) /\ Supplied(E[m + 2], main) /\ Supplied(E[m + 3], main)
        /\ Supplied(E[m + 4], main) /\ Supplied(E[m + 5], main) /\ Supplied(E[m + 6], main)
    BY <2>2, <2>3, Zenon DEF Supplied
  <2>5. i \in 1..(m + 6) /\ l = E[i]
    BY <1>2, <1>3, <2>1, <2>2
  <2>6. CASE i \in 2..(m + 1)
    <3>1. PICK x : x = i - 1
      OBVIOUS
    <3>2. m \in Nat
      BY <2>2
    <3>3. x \in 1..m /\ i = 1 + x
      BY <2>6, <3>1, <3>2
    <3>. QED
      BY <2>2, <2>5, <2>8, <3>3 DEF lines
  <2>7. CASE i \notin 2..(m + 1)
    <3>1. i \in {1, m + 2, m + 3, m + 4, m + 5, m + 6}
      BY <2>2, <2>5, <2>7
    <3>2. Supplied(E[i], main)
      BY <2>4, <3>1
    <3>. QED
      BY <1>5, <2>5, <2>8, <3>2 DEF main, lines
  <2>. QED
    BY <2>6, <2>7
<1>. QED
  BY <1>1, <1>4, <1>5 DEF UnitBodyAt

\* The name an instruction refers to is that of its line.
NamesOf(c, line) ==
  /\ c.op = line.op
  /\ line.op = "call" => c.args[2] = CalledName(line)
  /\ line.op \in {"closure", "function"} => c.args[2] = TextAt(line.args, 2)
  /\ line.op = "enter" => c.args[1] = TextAt(line.args, 1)
LEMMA CompiledNames ==
  ASSUME NEW line, NEW k, NEW marks, NEW names, CompleteLine(line), CanCompileLine(line, k, marks, names)
  PROVE  NamesOf(CompileLine(line, k, marks, names), line)
<1> DEFINE c == CompileLine(line, k, marks, names) a == Operands(line, k)
<1>1. /\ c.op = line.op
      /\ \A i \in DOMAIN Layout[line.op] : Layout[line.op][i] = "name" => c.args[i] = a[i]
  BY CompiledLine
<1>2. /\ line.op = "call" => a[2] = CalledName(line)
      /\ line.op \in Naming \ {"call"} => a[2] = TextAt(line.args, 2)
      /\ line.op \in Entering => a[1] = TextAt(line.args, 1)
  <2>1. line.op \in Implemented /\ Len(a) >= Len(Layout[line.op])
    BY DEF CanCompileLine
  <2>2. IsSequence(line.args) /\ GivesNames(line)
    BY DEF CompleteLine
  <2>. QED
    BY <2>1, <2>2, OperandsOfNames
<1> HIDE DEF c, a
<1>3. /\ \A op \in Naming : op \in DOMAIN Layout /\ Layout[op] = <<"operand", "name">>
      /\ \A op \in Entering : op \in DOMAIN Layout /\ Layout[op] = <<"name">>
  BY Formats DEF Gives, Named
<1>4. line.op \in Naming => c.args[2] = a[2]
  BY <1>1, <1>3
<1>5. line.op \in Entering => c.args[1] = a[1]
  BY <1>1, <1>3
<1>6. {"call", "closure", "function"} \subseteq Naming /\ "enter" \in Entering
  BY DEF Naming, Entering
<1>7. line.op = "call" => c.args[2] = CalledName(line)
  BY <1>2, <1>4, <1>6
<1>8. line.op \in {"closure", "function"} => c.args[2] = TextAt(line.args, 2)
  BY <1>2, <1>4, <1>6
<1>9. line.op = "enter" => c.args[1] = TextAt(line.args, 1)
  BY <1>2, <1>5, <1>6
<1>. QED
  BY <1>1, <1>7, <1>8, <1>9 DEF NamesOf, c

Refers(c, known, signatures, blocks) ==
  /\ c.op \in {"call", "closure", "function"} => c.args[2] \in known \cup signatures
  /\ c.op = "enter" => c.args[1] \in blocks
LEMMA Referred ==
  ASSUME Assembled, DistinctNames, NEW u \in Members, UnitMade(u), NEW k \in 1..UnitCount(u),
         NEW j \in DOMAIN UnitCode(u, k)
  PROVE  Refers(UnitCode(u, k)[j], KnownIn(u), Signatures(File(u)),
                ToSet(BlockNames(File(u))) \cup BlockSignatures(File(u)))
<1> DEFINE lines == File(u) flags == UnitFlags(u) b == UnitBody(u, k) l == Filter(b.lines)[j] c == UnitCode(u, k)[j]
           main == MainFunction(lines, flags) known == KnownIn(u) signatures == Signatures(lines)
           blocks == ToSet(BlockNames(lines)) \cup BlockSignatures(lines)
<1>1. NamesOf(c, l)
  <2>1. IsCoded(UnitCode(u, k), b.lines, u, b.name)
    BY UnitCoded
  <2>2. c.op = l.op /\ c.args = CompileLine(l, j - 1, Marks(b.lines), Names(b.lines)).args
    BY <2>1 DEF IsCoded
  <2>3. PICK d : d = CompileLine(l, j - 1, Marks(b.lines), Names(b.lines))
    OBVIOUS
  <2>5. CanCompileLine(l, j - 1, Marks(b.lines), Names(b.lines)) /\ CompleteLine(l)
    BY <2>1, LineOfUnit DEF IsCoded
  <2>4. NamesOf(d, l)
    BY <2>3, <2>5, CompiledNames
  <2> HIDE DEF c, l
  <2>. QED
    BY <2>2, <2>3, <2>4 DEF NamesOf
<1>2. Accepted(lines, flags, main, GatherFunctions(lines), GatherBlocks(lines), FunctionsOf(lines, flags),
               LinkedTo(lines, UnitLibs(u), flags))
  BY DEF UnitMade, Succeeded
<1>3. FunctionsOf(lines, flags).signatures = signatures
  <2>1. IsFile(lines)
    BY MembersBuilt
  <2>. QED
    BY <2>1, FunctionsGathered
<1>4. /\ FunctionCallsAreDefined(lines, known, signatures) /\ CallableCreations(lines, known, signatures)
      /\ flags.as_lib \/ main \in known
  BY <1>2, <1>3 DEF Accepted, KnownIn
<1>5. BlockTries(lines, GatherBlocks(lines))
  BY <1>2 DEF Accepted, Verified
<1>6. \A x \in DOMAIN lines : lines[x].op = "enter" => TextAt(lines[x].args, 1) \in blocks
  BY <1>5 DEF BlockTries, Lines, GatherBlocks
<1>7. \A x \in DOMAIN lines : /\ lines[x].op = "call" => CalledName(lines[x]) \in known \cup signatures
                              /\ lines[x].op \in {"closure", "function"} =>
                                   TextAt(lines[x].args, 2) \in known \cup signatures
  BY <1>4 DEF FunctionCallsAreDefined, CallableCreations, Lines
<1>8. ASSUME \E x \in DOMAIN lines : l = lines[x]
      PROVE  Refers(c, known, signatures, blocks)
  <2> HIDE DEF lines, l, c, known, signatures, blocks
  <2>. QED
    BY <1>1, <1>6, <1>7, <1>8 DEF NamesOf, Refers
<1>9. ASSUME u = 0, Supplied(l, main)
      PROVE  Refers(c, known, signatures, blocks)
  <2>1. main \in known
    BY <1>4, <1>9 DEF UnitFlags, Flags
  <2> HIDE DEF lines, l, c, known, signatures, blocks, main
  <2>2. CASE l.op \in {"ress", "frame", "param", "move", "halt"}
    BY <1>1, <2>2 DEF NamesOf, Refers
  <2>3. CASE \E reg : l = Line("call", <<reg, main>>)
    <3>1. l.op = "call" /\ CalledName(l) = main
      <4>1. PICK reg, a : a = <<reg, main>> /\ l = Line("call", a)
        BY <2>3
      <4>2. l.op = "call" /\ l.args = a
        BY <4>1 DEF Line
      <4>3. IsSequence(a) /\ Len(a) = 2 /\ a[2] = main
        BY <4>1 DEF IsSequence
      <4>4. Len(a) >= 2 /\ Len(l.args) # 1
        <5>1. PICK n : n = Len(a)
          OBVIOUS
        <5>2. n = 2
          BY <4>3, <5>1
        <5>3. n >= 2 /\ n # 1
          BY <5>2
        <5>. QED
          BY <4>2, <5>1, <5>3
      <4>5. TextAt(a, 2) = a[2]
        BY <4>3, <4>4, TextsOfPair
      <4>. QED
        BY <4>2, <4>3, <4>4, <4>5 DEF CalledName
    <3>. QED
      BY <1>1, <2>1, <3>1 DEF NamesOf, Refers
  <2>. QED
    BY <1>9, <2>2, <2>3 DEF Supplied
<1>10. Refers(c, known, signatures, blocks)
  BY <1>8, <1>9, LineOfUnit
<1>. QED
  BY <1>10

\* What refers to a name goes on referring to it wherever it is put.
LEMMA AlikeRefers ==
  ASSUME NEW c, NEW d, Alike(c, d), NEW known, NEW signatures, NEW blocks, Refers(d, known, signatures, blocks)
  PROVE  Refers(c, known, signatures, blocks)
<1>1. /\ \A op \in Naming : op \in DOMAIN Layout /\ Layout[op] = <<"operand", "name">>
      /\ \A op \in Entering : op \in DOMAIN Layout /\ Layout[op] = <<"name">>
  BY Formats DEF Gives, Named
<1>2. {"call", "closure", "function"} \subseteq Naming /\ "enter" \in Entering
  BY DEF Naming, Entering
<1>3. d.op \in Naming => c.args[2] = d.args[2]
  BY <1>1 DEF Alike, Fields
<1>4. d.op \in Entering => c.args[1] = d.args[1]
  BY <1>1 DEF Alike, Fields
<1>5. c.op = d.op
  BY DEF Alike
<1>. QED
  BY <1>2, <1>3, <1>4, <1>5 DEF Refers

-----------------------------------------------------------------------------
(***************************************************************************)
(* A name leads to the first instruction of its body.                      *)
(***************************************************************************)
LEMMA EmptyPick ==
  ASSUME NEW p, NEW lines, NEW S, IsPick(p, lines, S), p # <<>>
  PROVE  1 \in DOMAIN p
<1>1. Cardinality(S) \in Nat /\ p = [k \in 1..Cardinality(S) |-> p[k]] /\ DOMAIN p = 1..Cardinality(S)
  BY DEF IsPick
<1>2. PICK n \in Nat : n = Cardinality(S)
  BY <1>1
<1>3. CASE n = 0
  <2>1. PICK empty : empty = <<>>
    OBVIOUS
  <2>2. p = [k \in 1..0 |-> p[k]]
    BY <1>1, <1>2, <1>3
  <2>3. empty = [k \in 1..0 |-> p[k]]
    BY <2>1
  <2>. QED
    BY <2>1, <2>2, <2>3
<1>4. CASE n # 0
  BY <1>1, <1>2, <1>4
<1>. QED
  BY <1>3, <1>4

LEMMA FirstOf ==
  ASSUME Assembled, DistinctNames, NEW u \in Members, UnitMade(u), NEW i \in Opens(File(u))
  PROVE  LET k == Rank(File(u), i) name == File(u)[i].args[1]
         IN /\ k \in 1..UnitCount(u)
            /\ InstructionsIn(Body(u, name)) # <<>> =>
                 1 \in DOMAIN UnitCode(u, k) /\ UnitCode(u, k)[1].source = Starting(u, name)
<1> DEFINE lines == File(u) k == Rank(lines, i) name == lines[i].args[1] b == UnitBody(u, k)
<1>1. IsFile(lines) /\ ProperFile(lines)
  BY UnitTables
<1>2. /\ Blocks(lines) \in Nat /\ Functions(lines) \in Nat
      /\ k \in 1..(Blocks(lines) + Functions(lines)) /\ BodyAt(b, lines, i)
  BY <1>1, BodiesOfFile DEF Bodied, UnitBody
<1>3. k \in 1..UnitCount(u)
  <2> HIDE DEF k
  <2>1. UnitCount(u) = Blocks(lines) + Functions(lines) + IF UnitFlags(u).as_lib THEN 0 ELSE 1
    BY DEF UnitCount, Count
  <2>. QED
    BY <1>2, <2>1
<1>4. b.name = name
  BY <1>2 DEF BodyAt
<1>5. ASSUME InstructionsIn(Body(u, name)) # <<>>
      PROVE  1 \in DOMAIN UnitCode(u, k) /\ UnitCode(u, k)[1].source = Starting(u, name)
  <2> DEFINE s == UnitCode(u, k) meant == InstructionsIn(Body(u, b.name))
  <2>1. /\ IsCoded(s, b.lines, u, b.name) /\ DOMAIN s = DOMAIN meant /\ Filter(b.lines) = meant
        /\ \A j \in DOMAIN s : s[j].source = <<u, b.name, j>>
    BY <1>3, UnitCoded
  <2>2. IsPick(meant, b.lines, Kept(b.lines))
    BY <2>1 DEF IsCoded
  <2>3. meant # <<>>
    BY <1>4, <1>5
  <2> HIDE DEF s, meant
  <2>4. 1 \in DOMAIN meant
    BY <2>2, <2>3, EmptyPick
  <2>. QED
    BY <1>4, <2>1, <2>4 DEF Starting, s
<1>. QED
  BY <1>3, <1>5

\* The entry function has instructions.
LEMMA FirstOfEntry ==
  ASSUME Assembled, DistinctNames, UnitMade(0)
  PROVE  LET k == Blocks(File(0)) + Functions(File(0)) + 1
         IN /\ k \in 1..UnitCount(0) /\ k - 1 = Blocks(File(0)) + Functions(File(0))
            /\ 1 \in DOMAIN UnitCode(0, k) /\ UnitCode(0, k)[1].source = Starting(0, EntryFunctionName)
<1> DEFINE lines == File(0) flags == UnitFlags(0) k == Blocks(lines) + Functions(lines) + 1 b == UnitBody(0, k)
           main == MainFunction(lines, flags) E == EntryBody(lines, main)
<1>0. 0 \in Members /\ ~flags.as_lib
  BY DEF Members, UnitFlags, Flags
<1>1. IsFile(lines) /\ ProperFile(lines)
  BY <1>0, UnitTables
<1>2. Blocks(lines) \in Nat /\ Functions(lines) \in Nat /\ EntryAt(b, lines, flags)
  <2>1. Bodied(AllBodies(lines, flags), lines, flags)
    BY <1>1, BodiesOfFile
  <2>. QED
    BY <1>0, <2>1 DEF Bodied, UnitBody
<1>3. k \in 1..UnitCount(0) /\ k - 1 = Blocks(lines) + Functions(lines)
  <2>1. UnitCount(0) = Blocks(lines) + Functions(lines) + 1
    BY <1>0 DEF UnitCount, Count
  <2>. QED
    BY <1>2, <2>1
<1>4. b.name = EntryFunctionName /\ b.lines = E
  BY <1>2 DEF EntryAt
<1>5. /\ IsCoded(UnitCode(0, k), b.lines, 0, b.name)
      /\ \A j \in DOMAIN UnitCode(0, k) : UnitCode(0, k)[j].source = <<0, b.name, j>>
  BY <1>0, <1>3, UnitCoded
<1>6. 1 \in Kept(E)
  <2>1. Len(lines) \in Nat
    BY <1>1, SequenceDomain DEF IsFile
  <2>2. 1 \in 1..(Len(lines) + 6)
    BY <2>1
  <2>. QED
    BY <1>1, <2>2, EntryKeeps
<1>7. 1 \in DOMAIN UnitCode(0, k)
  <2>1. PICK n \in Nat : /\ n = Cardinality(Kept(b.lines)) /\ DOMAIN UnitCode(0, k) = 1..n
                         /\ IsPick(Filter(b.lines), b.lines, Kept(b.lines))
    BY <1>5 DEF IsCoded
  <2>2. Upto(Kept(b.lines), 1) \in 1..n
    BY <1>4, <1>6, <2>1 DEF IsPick
  <2>3. n >= 1
    BY <2>2
  <2>. QED
    BY <2>1, <2>3
<1>. QED
  BY <1>3, <1>4, <1>5, <1>7 DEF Starting

-----------------------------------------------------------------------------
Leads(mapping, u, name) ==
  /\ name \in DOMAIN mapping
  /\ InstructionsIn(Body(u, name)) # <<>> => At(mapping[name]) = Starting(u, name)
\* What is loaded of the executable.
LEMMA LoadedTables ==
  ASSUME BuildInv, NamesGiven, Built
  PROVE  /\ Assembled /\ 0 \in Members /\ image = UnitResult(0).image
         /\ loaded.functions.mapping = LoadMap(UnitResult(0).image.functions).mapping
         /\ loaded.blocks.mapping = LoadMap(UnitResult(0).image.blocks).mapping
<1>1. Assembled /\ 0 \in Members
  BY DEF Assembled, Members
<1>2. image = UnitResult(0).image
  BY <1>1, MembersBuilt
<1>3. loaded = ExecutableOf(image)
  BY DEF BuildInv
<1>4. PICK w : w = image
  OBVIOUS
<1>5. ExecutableOf(w).functions = LoadMap(w.functions) /\ ExecutableOf(w).blocks = LoadMap(w.blocks)
  BY DEF ExecutableOf, LoadFunctionsMap, LoadBlocksMap
<1>6. loaded.functions = LoadMap(UnitResult(0).image.functions) /\ loaded.blocks = LoadMap(UnitResult(0).image.blocks)
  BY <1>2, <1>3, <1>4, <1>5
<1>. QED
  BY <1>1, <1>2, <1>6

LEMMA ProgramLeads ==
  ASSUME BuildInv, Built, NamesGiven, DistinctNames, NEW i \in Opens(File(0))
  PROVE  Leads(IF File(0)[i].op = ".block:" THEN loaded.blocks.mapping ELSE loaded.functions.mapping,
               0, File(0)[i].args[1])
<1> DEFINE lines == File(0) name == lines[i].args[1] k == Rank(lines, i) result == UnitResult(0)
           mapping == IF lines[i].op = ".block:" THEN loaded.blocks.mapping ELSE loaded.functions.mapping
<1>1. /\ Assembled /\ 0 \in Members /\ image = result.image
      /\ loaded.functions.mapping = LoadMap(result.image.functions).mapping
      /\ loaded.blocks.mapping = LoadMap(result.image.blocks).mapping
  BY LoadedTables
<1>2. UnitMade(0) /\ \A v \in ToSet(UnitLinks(0)) : GoodUnit(v)
  BY <1>1, MembersMade
<1>3. name \in DOMAIN mapping /\ mapping[name] = UnitStart(0, k - 1)
  <2>1. CASE lines[i].op = ".block:"
    <3>1. i \in Of(lines, ".block:")
      BY <2>1 DEF Opens, Of
    <3>2. Entered(result.image.blocks, name, UnitStart(0, k - 1))
      BY <1>1, <1>2, <3>1, BlockEntered
    <3>. QED
      BY <1>1, <2>1, <3>2, AddressFound
  <2>2. CASE lines[i].op # ".block:"
    <3>1. i \in Of(lines, ".function:")
      BY <2>2 DEF Opens, Of
    <3>2. Entered(result.image.functions, name, UnitStart(0, k - 1))
      BY <1>1, <1>2, <3>1, OwnEntered
    <3>. QED
      BY <1>1, <2>2, <3>2, AddressFound
  <2>. QED
    BY <2>1, <2>2
<1>4. ASSUME InstructionsIn(Body(0, name)) # <<>>
      PROVE  At(mapping[name]) = Starting(0, name)
  <2>1. k \in 1..UnitCount(0) /\ 1 \in DOMAIN UnitCode(0, k) /\ UnitCode(0, k)[1].source = Starting(0, name)
    BY <1>1, <1>2, <1>4, FirstOf
  <2>2. /\ UnitStart(0, k - 1) \in DOMAIN result.image.code
        /\ Alike(result.image.code[UnitStart(0, k - 1)], UnitCode(0, k)[1])
    BY <1>1, <1>2, <2>1, StartsAt
  <2> HIDE DEF result, k, mapping, name
  <2>. QED
    BY <1>1, <1>3, <2>1, <2>2 DEF At, Alike
<1>. QED
  BY <1>3, <1>4 DEF Leads

LEMMA LibraryLeads ==
  ASSUME BuildInv, Built, NamesGiven, DistinctNames, OneLibrary, NEW u \in Reached, NEW i \in Of(File(u), ".function:")
  PROVE  Leads(loaded.functions.mapping, u, File(u)[i].args[1])
<1> DEFINE name == File(u)[i].args[1] k == Rank(File(u), i) result == UnitResult(0) mapping == loaded.functions.mapping
           code == UnitResult(u).image.code o == UnitStart(u, k - 1) to == o + LocalSize(File(0), UnitFlags(0))
<1>1. /\ Assembled /\ 0 \in Members /\ image = result.image /\ mapping = LoadMap(result.image.functions).mapping
  BY LoadedTables
<1>2. u \in Members
  BY DEF Members
<1>3. UnitMade(u)
  BY <1>1, <1>2, MembersMade
<1>4. name \in DOMAIN mapping /\ mapping[name] = to
  <2>1. Entered(result.image.functions, name, to)
    BY <1>1, LinkedEntered
  <2>. QED
    BY <1>1, <2>1, AddressFound
<1>5. ASSUME InstructionsIn(Body(u, name)) # <<>>
      PROVE  At(mapping[name]) = Starting(u, name)
  <2>0. i \in Opens(File(u))
    BY DEF Of, Opens
  <2>1. k \in 1..UnitCount(u) /\ 1 \in DOMAIN UnitCode(u, k) /\ UnitCode(u, k)[1].source = Starting(u, name)
    BY <1>1, <1>2, <1>3, <1>5, <2>0, FirstOf
  <2>2. o \in DOMAIN code /\ Alike(code[o], UnitCode(u, k)[1])
    BY <1>1, <1>2, <1>3, <2>1, StartsAt
  <2>3. to \in DOMAIN result.image.code /\ Alike(result.image.code[to], code[o])
    BY <1>1, <2>2, LinkedStartsAt
  <2> HIDE DEF result, k, mapping, name, code, o, to
  <2>. QED
    BY <1>1, <1>4, <2>1, <2>2, <2>3 DEF At, Alike
<1>. QED
  BY <1>4, <1>5 DEF Leads

\* Names the files know are in the tables of the program.
LEMMA NamesFound ==
  ASSUME BuildInv, Built, NamesGiven, DistinctNames, OneLibrary, NEW u \in Members
  PROVE  KnownIn(u) \subseteq DOMAIN loaded.functions.mapping
<1> DEFINE lines == File(u) flags == UnitFlags(u) libs == UnitLibs(u) names == FunctionsOf(lines, flags).names
           linked == LinkedTo(lines, libs, flags)
<1>1. Assembled /\ loaded.functions.mapping = LoadMap(UnitResult(0).image.functions).mapping
  BY LoadedTables
<1>2. UnitMade(u) /\ IsFile(lines)
  BY <1>1, MembersMade, MembersBuilt
<1>3. CASE u = 0
  <2>1. HasTables(UnitResult(u).image, lines, libs, flags)
    BY <1>1, <1>2, UnitTables
  <2>2. DOMAIN LoadMap(UnitResult(u).image.functions).mapping = ToSet(names) \cup NamesIn(linked)
    BY <2>1, LoadedNames
  <2>. QED
    BY <1>1, <1>3, <2>2 DEF KnownIn
<1>4. CASE u # 0
  <2>1. u \in Reached /\ flags.as_lib
    BY <1>4 DEF Members, UnitFlags, Flags
  <2>2. NamesIn(linked) = {}
    <3>1. UnitLinks(u) = <<>>
      BY <1>1, <2>1, OneLinked
    <3>2. PICK n \in Nat : n = 0
      OBVIOUS
    <3>3. DOMAIN libs = 1..n
      BY <3>1, <3>2 DEF UnitLibs, Links
    <3>4. linked = LinkedFunctions(libs, LocalSize(lines, flags))
      BY DEF LinkedTo
    <3>5. PICK t : t = LinkedFunctions(libs, LocalSize(lines, flags))
      OBVIOUS
    <3> HIDE DEF libs, lines, flags
    <3>6. \A l \in 1..n : IsTable(libs[l].functions)
      BY <3>2
    <3>7. n = 0 => t = <<>>
      BY <3>3, <3>5, <3>6, LinkedNames
    <3>8. NamesIn(t) = {}
      BY <3>2, <3>7 DEF NamesIn
    <3>. QED
      BY <3>4, <3>5, <3>8
  <2>3. ASSUME NEW name \in ToSet(names)
        PROVE  name \in DOMAIN loaded.functions.mapping
    <3>1. \E i \in Of(lines, ".function:") : lines[i].args[1] = name
      BY <1>2, <2>1, OwnNames, ZenonT(60)
    <3>2. PICK i \in Of(lines, ".function:") : lines[i].args[1] = name
      BY <3>1
    <3>. QED
      BY <2>1, <3>2, LibraryLeads DEF Leads
  <2>. QED
    BY <2>2, <2>3 DEF KnownIn
<1>. QED
  BY <1>3, <1>4

LEMMA BlocksFound ==
  ASSUME BuildInv, Built, NamesGiven, DistinctNames, NoBlocksInLibraries, NEW u \in Members
  PROVE  ToSet(BlockNames(File(u))) \subseteq DOMAIN loaded.blocks.mapping
<1> DEFINE lines == File(u) S == Of(lines, ".block:")
<1>1. Assembled /\ IsFile(lines)
  BY LoadedTables, MembersBuilt
<1>2. ToSet(BlockNames(lines)) = {lines[i].args[1] : i \in S}
  BY <1>1, NamesOfLines DEF IsFile, BlockNames
<1>3. CASE u = 0
  <2>1. \A i \in S : i \in Opens(lines) /\ lines[i].op = ".block:"
    BY DEF Of, Opens
  <2>2. \A i \in S : lines[i].args[1] \in DOMAIN loaded.blocks.mapping
    BY <1>3, <2>1, ProgramLeads DEF Leads
  <2>. QED
    BY <1>2, <2>2
<1>4. CASE u # 0
  <2>1. Listing!Defined(lines, ".block:") = {}
    BY <1>4 DEF Members, NoBlocksInLibraries
  <2>2. S = {}
    BY <2>1 DEF Listing!Defined, Of
  <2>. QED
    BY <1>2, <2>2
<1>. QED
  BY <1>3, <1>4

\* The parts of EntryPoints.
LEMMA FunctionsLead ==
  ASSUME BuildInv, Built, NamesGiven, DistinctNames, OneLibrary, NEW u \in {0} \cup Reached,
         NEW name \in Listing!Defined(File(u), ".function:")
  PROVE  Leads(loaded.functions.mapping, u, name)
<1>1. PICK i \in Of(File(u), ".function:") : name = File(u)[i].args[1]
  BY DEF Listing!Defined, Of
<1>2. CASE u = 0
  <2>1. i \in Opens(File(u)) /\ File(u)[i].op = ".function:"
    BY DEF Of, Opens
  <2>2. File(0)[i].op # ".block:" /\ i \in Opens(File(0))
    BY <1>2, <2>1
  <2>. QED
    BY <1>1, <1>2, <2>2, ProgramLeads
<1>3. CASE u \in Reached
  BY <1>1, <1>3, LibraryLeads
<1>. QED
  BY <1>2, <1>3

LEMMA BlocksLead ==
  ASSUME BuildInv, Built, NamesGiven, DistinctNames, NEW name \in Listing!Defined(File(0), ".block:")
  PROVE  Leads(loaded.blocks.mapping, 0, name)
<1>1. PICK i \in Of(File(0), ".block:") : name = File(0)[i].args[1]
  BY DEF Listing!Defined, Of
<1>2. i \in Opens(File(0)) /\ File(0)[i].op = ".block:"
  BY DEF Of, Opens
<1>. QED
  BY <1>1, <1>2, ProgramLeads

LEMMA EntryLeads ==
  ASSUME BuildInv, Built, NamesGiven, DistinctNames
  PROVE  At(loaded.functions.mapping[EntryFunctionName]) = Starting(0, EntryFunctionName)
<1> DEFINE k == Blocks(File(0)) + Functions(File(0)) + 1 code == UnitResult(0).image.code
<1>1. /\ Assembled /\ 0 \in Members /\ image = UnitResult(0).image
      /\ loaded.functions.mapping = LoadMap(UnitResult(0).image.functions).mapping
  BY LoadedTables
<1>2. UnitMade(0) /\ \A v \in ToSet(UnitLinks(0)) : GoodUnit(v)
  BY <1>1, MembersMade
<1>3. /\ k \in 1..UnitCount(0) /\ k - 1 = Blocks(File(0)) + Functions(File(0))
      /\ 1 \in DOMAIN UnitCode(0, k) /\ UnitCode(0, k)[1].source = Starting(0, EntryFunctionName)
  BY <1>1, <1>2, FirstOfEntry
<1>4. loaded.functions.mapping[EntryFunctionName] = UnitStart(0, k - 1)
  <2>1. Entered(UnitResult(0).image.functions, EntryFunctionName, UnitStart(0, Blocks(File(0)) + Functions(File(0))))
    BY <1>1, <1>2, EntryEntered
  <2> HIDE DEF k
  <2>. QED
    BY <1>1, <1>3, <2>1, AddressFound
<1>5. UnitStart(0, k - 1) \in DOMAIN code /\ Alike(code[UnitStart(0, k - 1)], UnitCode(0, k)[1])
  BY <1>1, <1>2, <1>3, StartsAt
<1> HIDE DEF k, code
<1>. QED
  BY <1>1, <1>3, <1>4, <1>5 DEF At, Alike, code

LEMMA NamesReferred ==
  ASSUME BuildInv, Built, NamesGiven, DistinctNames, OneLibrary, NoBlocksInLibraries, NEW o \in DOMAIN image.code
  PROVE  LET file == File(image.code[o].source[1])
         IN Refers(image.code[o], DOMAIN loaded.functions.mapping, Signatures(file),
                   DOMAIN loaded.blocks.mapping \cup BlockSignatures(file))
<1>1. Assembled
  BY LoadedTables
<1>2. PICK u \in Members : \E k \in 1..UnitCount(u) : \E j \in DOMAIN UnitCode(u, k) :
                             Alike(image.code[o], UnitCode(u, k)[j])
  BY <1>1, ImageFromSource
<1>3. PICK k \in 1..UnitCount(u) : \E j \in DOMAIN UnitCode(u, k) : Alike(image.code[o], UnitCode(u, k)[j])
  BY <1>2
<1>4. PICK j \in DOMAIN UnitCode(u, k) : Alike(image.code[o], UnitCode(u, k)[j])
  BY <1>3
<1>5. UnitMade(u)
  BY <1>1, MembersMade
<1>6. image.code[o].source[1] = u
  <2>1. image.code[o].source = <<u, UnitBody(u, k).name, j>>
    BY <1>1, <1>4, <1>5, UnitCoded DEF Alike
  <2>. QED
    BY <2>1
<1> DEFINE blocks == ToSet(BlockNames(File(u))) \cup BlockSignatures(File(u)) signatures == Signatures(File(u))
           names == DOMAIN loaded.functions.mapping tables == DOMAIN loaded.blocks.mapping
<1>7. Refers(UnitCode(u, k)[j], KnownIn(u), signatures, blocks)
  BY <1>1, <1>5, Referred
<1>8. Refers(image.code[o], KnownIn(u), signatures, blocks)
  BY <1>4, <1>7, AlikeRefers
<1>9. KnownIn(u) \subseteq names /\ ToSet(BlockNames(File(u))) \subseteq tables
  BY NamesFound, BlocksFound
<1>10. Refers(image.code[o], names, signatures, tables \cup BlockSignatures(File(u)))
  <2> HIDE DEF names, tables, signatures
  <2>. QED
    BY <1>8, <1>9 DEF Refers
<1>. QED
  BY <1>6, <1>10

-----------------------------------------------------------------------------
\* The tables lead to the first instruction of every function and block, the
\* functions of the linked library included, and have every name that an
\* instruction refers to and that is not declared with a signature: for every
\* project whose lines give their names, whose names are distinct, with at most
\* one library and no blocks in it.
THEOREM TablesLead == Spec => []EntryPoints
<1>1. BuildInv => EntryPoints
  <2> SUFFICES ASSUME BuildInv, Built, NamesGiven, DistinctNames, OneLibrary, NoBlocksInLibraries
               PROVE  LET functions == loaded.functions.mapping
                          blocks == loaded.blocks.mapping
                          leads(mapping, u, name) ==
                            /\ name \in DOMAIN mapping
                            /\ InstructionsIn(Body(u, name)) # <<>> => At(mapping[name]) = Starting(u, name)
                      IN /\ \A u \in {0} \cup Reached : \A name \in Listing!Defined(File(u), ".function:") :
                              leads(functions, u, name)
                         /\ \A name \in Listing!Defined(File(0), ".block:") : leads(blocks, 0, name)
                         /\ At(functions[EntryFunctionName]) = Starting(0, EntryFunctionName)
                         /\ \A o \in DOMAIN image.code :
                              LET instruction == image.code[o]
                                  file == File(instruction.source[1])
                              IN /\ instruction.op \in {"call", "closure", "function"} =>
                                      instruction.args[2] \in DOMAIN functions \cup Signatures(file)
                                 /\ instruction.op = "enter" =>
                                      instruction.args[1] \in DOMAIN blocks \cup BlockSignatures(file)
    BY DEF EntryPoints
  <2>1. ASSUME NEW u \in {0} \cup Reached, NEW name \in Listing!Defined(File(u), ".function:")
        PROVE  /\ name \in DOMAIN loaded.functions.mapping
               /\ InstructionsIn(Body(u, name)) # <<>> => At(loaded.functions.mapping[name]) = Starting(u, name)
    BY FunctionsLead DEF Leads
  <2>2. ASSUME NEW name \in Listing!Defined(File(0), ".block:")
        PROVE  /\ name \in DOMAIN loaded.blocks.mapping
               /\ InstructionsIn(Body(0, name)) # <<>> => At(loaded.blocks.mapping[name]) = Starting(0, name)
    BY BlocksLead DEF Leads
  <2>3. At(loaded.functions.mapping[EntryFunctionName]) = Starting(0, EntryFunctionName)
    BY EntryLeads
  <2>4. ASSUME NEW o \in DOMAIN image.code
        PROVE  LET instruction == image.code[o]
                   file == File(instruction.source[1])
               IN /\ instruction.op \in {"call", "closure", "function"} =>
                       instruction.args[2] \in DOMAIN loaded.functions.mapping \cup Signatures(file)
                  /\ instruction.op = "enter" =>
                       instruction.args[1] \in DOMAIN loaded.blocks.mapping \cup BlockSignatures(file)
    BY NamesReferred DEF Refers
  <2>. QED
    BY <2>1, <2>2, <2>3, <2>4
<1>. QED
  BY <1>1, BuildHolds, PTL

=============================================================================
