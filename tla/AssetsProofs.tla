---------------------------- MODULE AssetsProofs ----------------------------
(***************************************************************************)
(* Proofs about the asset cache and the uploads of Assets, for any number  *)
(* of requests, pieces, uploads and crashes.  Neither touches the files of *)
(* the other, so each has an invariant of its own.                         *)
(***************************************************************************)
EXTENDS Assets, TLAPS

(* The part of the types the cache needs.                                  *)
CacheTypes ==
  /\ cached \in Files \union {None} /\ temp \in Files \union {None}
  /\ content \in [Files -> SUBSET All]
  /\ download \in [Downloads ->
       [pc : {"new", "fetching", "copying", "renaming", "answered", "failed"},
        file : Files \union {None}, offset : 0..Pieces]]
  /\ \A d \in Downloads : Writing(d) => download[d].file \in Files
  /\ \A d \in Downloads : download[d].pc = "copying" => download[d].offset < Pieces
  /\ \A d \in Downloads : download[d].pc = "renaming" => download[d].offset = Pieces
  /\ crashes \in Nat /\ shared \in BOOLEAN
  /\ abandoned \subseteq Files

(* The file named for a request does not exist before it creates it.       *)
Early(d) == download[d].pc \in {"new", "fetching"}
Unborn ==
  \A d \in Downloads : Early(d) =>
    /\ d # temp /\ d # cached
    /\ \A e \in Downloads : Writing(e) => download[e].file # d

(* A file is not at both paths.                                            *)
Apart == temp # None => temp # cached

(* A file that is not whole is being completed, or was given up.           *)
Completing(f, d) ==
  /\ Writing(d) /\ download[d].file = f
  /\ All \subseteq content[f] \union (download[d].offset + 1)..Pieces
Whole(f) == content[f] = All \/ f \in abandoned \/ \E d \in Downloads : Completing(f, d)
PathsWhole == (temp # None => Whole(temp)) /\ (cached # None => Whole(cached))

(* While no file was shared, the one request that is writing has written   *)
(* what it has got to, and the cache is whole.                             *)
Exclusive ==
  ~shared =>
    /\ \A d \in Downloads : Writing(d) =>
         /\ download[d].file = temp
         /\ 1..download[d].offset \subseteq content[temp]
    /\ \A d, e \in Downloads : Writing(d) /\ Writing(e) => d = e
    /\ cached # None => content[cached] = All

Inv == CacheTypes /\ Unborn /\ Apart /\ TempOwned /\ PathsWhole /\ Exclusive

(* The steps that touch the cache.                                         *)
CacheStep(d) == Stat(d) \/ Create(d) \/ FetchFails(d) \/ CopyPiece(d) \/ GiveUp(d) \/ Finish(d)
UploadStep(u) == MakeDir(u) \/ WriteData(u) \/ WriteMetadata(u)

LEMMA NextCases ==
  ASSUME [Next]_vars
  PROVE  \/ \E d \in Downloads : CacheStep(d)
         \/ Crash
         \/ UNCHANGED <<cacheVars, crashes>>
<1>1. ASSUME NEW u \in Uploads, UploadStep(u) PROVE UNCHANGED <<cacheVars, crashes>>
  BY <1>1 DEF UploadStep, MakeDir, WriteData, WriteMetadata
<1>2. UNCHANGED vars => UNCHANGED <<cacheVars, crashes>>
  BY DEF vars, cacheVars
<1> QED BY <1>1, <1>2 DEF Next, CacheStep, UploadStep

LEMMA InitInv == Init => Inv
<1> SUFFICES ASSUME Init PROVE Inv
  OBVIOUS
<1> USE AssetsAssumption DEF Init, Waiting, All, Files
<1>1. CacheTypes
  <2>1. Waiting \in [pc : {"new", "fetching", "copying", "renaming", "answered", "failed"},
                     file : Files \union {None}, offset : 0..Pieces]
    OBVIOUS
  <2>2. \A d \in Downloads : download[d].pc = "new"
    OBVIOUS
  <2>3. content \in [Files -> SUBSET All]
    OBVIOUS
  <2> QED BY <2>1, <2>2, <2>3 DEF CacheTypes, Writing
<1>2. \A d \in Downloads : ~Writing(d)
  BY DEF Writing
<1>3. Unborn
  BY <1>2 DEF Unborn
<1>4. Apart /\ TempOwned /\ PathsWhole
  BY DEF Apart, TempOwned, PathsWhole
<1>5. Exclusive
  BY <1>2 DEF Exclusive
<1> QED BY <1>1, <1>3, <1>4, <1>5 DEF Inv

(* The effect of CopyPiece.                                                *)
LEMMA CopyFacts ==
  ASSUME CacheTypes, NEW d \in Downloads, CopyPiece(d)
  PROVE  LET f == download[d].file
             n == download[d].offset + 1
         IN /\ Writing(d) /\ f \in Files
            /\ n \in 1..Pieces
            /\ content' = [content EXCEPT ![f] = content[f] \union {n}]
            /\ download' = [download EXCEPT ![d] =
                 [pc |-> IF n = Pieces THEN "renaming" ELSE "copying", file |-> f, offset |-> n]]
            /\ UNCHANGED <<cached, temp, shared, abandoned, crashes>>
<1> DEFINE f == download[d].file
           n == download[d].offset + 1
<1>3. Writing(d) /\ f \in Files
  BY DEF CopyPiece, Writing, CacheTypes
<1>4. n \in 1..Pieces
  BY AssetsAssumption DEF CopyPiece, CacheTypes
<1> QED BY <1>3, <1>4 DEF CopyPiece, Becomes

LEMMA TypesStep == CacheTypes /\ [Next]_vars => CacheTypes'
<1> SUFFICES ASSUME CacheTypes, [Next]_vars PROVE CacheTypes'
  OBVIOUS
<1> USE AssetsAssumption DEF CacheTypes, Files, All, Writing, Becomes, Ended, Waiting
<1>1. ASSUME NEW d \in Downloads, Stat(d) PROVE CacheTypes'
  BY <1>1 DEF Stat
<1>2. ASSUME NEW d \in Downloads, Create(d) PROVE CacheTypes'
  BY <1>2 DEF Create
<1>3. ASSUME NEW d \in Downloads, FetchFails(d) PROVE CacheTypes'
  BY <1>3 DEF FetchFails
<1>4. ASSUME NEW d \in Downloads, CopyPiece(d) PROVE CacheTypes'
  <2> DEFINE f == download[d].file
             n == download[d].offset + 1
             k == [pc |-> IF n = Pieces THEN "renaming" ELSE "copying", file |-> f, offset |-> n]
  <2>1. /\ f \in Files /\ n \in 1..Pieces
        /\ content' = [content EXCEPT ![f] = content[f] \union {n}]
        /\ download' = [download EXCEPT ![d] = k]
        /\ UNCHANGED <<cached, temp, shared, abandoned, crashes>>
    BY <1>4, CopyFacts
  <2> HIDE DEF n, f
  <2>2. /\ n \in 0..Pieces
        /\ n # Pieces => n < Pieces
    BY <2>1
  <2>3. k \in [pc : {"new", "fetching", "copying", "renaming", "answered", "failed"},
               file : Files \union {None}, offset : 0..Pieces]
    BY <2>1, <2>2
  <2>4. content' \in [Files -> SUBSET All]
    BY <2>1
  <2>5. /\ k.file = f
        /\ k.pc = "copying" => k.offset < Pieces
        /\ k.pc = "renaming" => k.offset = Pieces
    BY <2>2
  <2> HIDE DEF k
  <2>6. download' \in [Downloads ->
          [pc : {"new", "fetching", "copying", "renaming", "answered", "failed"},
           file : Files \union {None}, offset : 0..Pieces]]
    BY <2>1, <2>3
  <2>7. \A e \in Downloads : download'[e] = IF e = d THEN k ELSE download[e]
    BY <2>1
  <2> QED BY <2>1, <2>4, <2>5, <2>6, <2>7
<1>5. ASSUME NEW d \in Downloads, GiveUp(d) PROVE CacheTypes'
  BY <1>5 DEF GiveUp
<1>6. ASSUME NEW d \in Downloads, Finish(d) PROVE CacheTypes'
  BY <1>6 DEF Finish
<1>7. CASE Crash
  BY <1>7 DEF Crash
<1>8. CASE UNCHANGED <<cacheVars, crashes>>
  BY <1>8 DEF cacheVars
<1> QED BY <1>1, <1>2, <1>3, <1>4, <1>5, <1>6, <1>7, <1>8, NextCases DEF CacheStep

(* The effect of Create.                                                   *)
LEMMA CreateFacts ==
  ASSUME CacheTypes, NEW d \in Downloads, Create(d)
  PROVE  /\ download[d].pc = "fetching"
         /\ temp' = (IF temp = None THEN d ELSE temp)
         /\ temp' \in Files
         /\ content' = [content EXCEPT ![temp'] = {}]
         /\ download' = [download EXCEPT ![d] = [pc |-> "copying", file |-> temp', offset |-> 0]]
         /\ shared' = (shared \/ \E e \in Downloads : Writing(e) /\ download[e].file = temp')
         /\ UNCHANGED <<cached, abandoned, crashes>>
BY DEF Create, Becomes, CacheTypes, Files

(* A request that gives up or renames is no longer writing.                *)
LEMMA EndFacts ==
  ASSUME CacheTypes, NEW d \in Downloads, GiveUp(d) \/ Finish(d)
  PROVE  /\ Writing(d) /\ download[d].file \in Files
         /\ \A e \in Downloads \ {d} : download'[e] = download[e]
         /\ ~Writing(d)' /\ ~Early(d)'
         /\ temp' = None
         /\ content' = content /\ shared' = shared /\ crashes' = crashes
BY AssetsAssumption DEF GiveUp, Finish, Writing, Becomes, CacheTypes, Ended, Waiting, Files, Early

LEMMA UnbornStep == CacheTypes /\ Unborn /\ [Next]_vars => Unborn'
<1> SUFFICES ASSUME CacheTypes, Unborn, [Next]_vars PROVE Unborn'
  OBVIOUS
<1> USE AssetsAssumption DEF Unborn, Early, Writing
<1>1. ASSUME NEW d \in Downloads, Stat(d) \/ FetchFails(d) PROVE Unborn'
  BY <1>1 DEF Stat, FetchFails, Becomes, CacheTypes, Ended, Waiting
<1>2. ASSUME NEW d \in Downloads, Create(d) PROVE Unborn'
  <2>1. \A e \in Downloads : Early(e)' => Early(e) /\ e # d
    BY <1>2, CreateFacts DEF CacheTypes
  <2>2. \A e \in Downloads : Writing(e)' =>
          download'[e].file = IF e = d THEN temp' ELSE download[e].file
    BY <1>2, CreateFacts DEF CacheTypes
  <2>3. \A e \in Downloads : Writing(e)' => Writing(e) \/ e = d
    BY <1>2, CreateFacts DEF CacheTypes
  <2>4. \A e \in Downloads : Early(e)' => e # temp' /\ e # cached'
    BY <1>2, <2>1, CreateFacts
  <2> QED BY <2>1, <2>2, <2>3, <2>4
<1>3. ASSUME NEW d \in Downloads, CopyPiece(d) PROVE Unborn'
  <2> DEFINE f == download[d].file
             n == download[d].offset + 1
             k == [pc |-> IF n = Pieces THEN "renaming" ELSE "copying", file |-> f, offset |-> n]
  <2>1. Writing(d) /\ download' = [download EXCEPT ![d] = k] /\ UNCHANGED <<cached, temp>>
    BY <1>3, CopyFacts
  <2>2. \A e \in Downloads :
          /\ Early(e)' => Early(e)
          /\ Writing(e)' => Writing(e)
          /\ download'[e].file = download[e].file
    BY <2>1 DEF CacheTypes
  <2> QED BY <2>1, <2>2
<1>4. ASSUME NEW d \in Downloads, GiveUp(d) \/ Finish(d) PROVE Unborn'
  <2>1. cached' = cached \/ cached' = temp
    BY <1>4 DEF GiveUp, Finish
  <2>2. \A e \in Downloads : (Early(e)' => Early(e)) /\ (Writing(e)' => Writing(e) /\ e # d)
    BY <1>4, EndFacts
  <2> QED BY <1>4, <2>1, <2>2, EndFacts
<1>5. CASE Crash
  BY <1>5 DEF Crash, CacheTypes, Ended, Waiting
<1>6. CASE UNCHANGED <<cacheVars, crashes>>
  BY <1>6 DEF cacheVars
<1> QED BY <1>1, <1>2, <1>3, <1>4, <1>5, <1>6, NextCases DEF CacheStep

LEMMA PathsStep ==
  CacheTypes /\ Unborn /\ Apart /\ TempOwned /\ [Next]_vars => Apart' /\ TempOwned'
<1> SUFFICES ASSUME CacheTypes, Unborn, Apart, TempOwned, [Next]_vars PROVE Apart' /\ TempOwned'
  OBVIOUS
<1> USE AssetsAssumption DEF Apart, TempOwned
<1>1. ASSUME NEW d \in Downloads, Stat(d) \/ FetchFails(d) PROVE Apart' /\ TempOwned'
  <2>1. \A e \in Downloads : Writing(e) => Writing(e)' /\ download'[e] = download[e]
    BY <1>1 DEF Stat, FetchFails, Becomes, CacheTypes, Ended, Waiting, Writing
  <2> QED BY <1>1, <2>1 DEF Stat, FetchFails
<1>2. ASSUME NEW d \in Downloads, Create(d) PROVE Apart' /\ TempOwned'
  <2>1. Writing(d)' /\ download'[d].file = temp'
    BY <1>2, CreateFacts DEF CacheTypes, Writing
  <2>2. temp' # cached'
    BY <1>2, CreateFacts DEF Unborn, Early
  <2> QED BY <2>1, <2>2
<1>3. ASSUME NEW d \in Downloads, CopyPiece(d) PROVE Apart' /\ TempOwned'
  <2>1. \A e \in Downloads : Writing(e) => Writing(e)' /\ download'[e].file = download[e].file
    BY <1>3, CopyFacts DEF CacheTypes, Writing
  <2>2. UNCHANGED <<cached, temp, abandoned, crashes>>
    BY <1>3, CopyFacts
  <2> QED BY <2>1, <2>2
<1>4. ASSUME NEW d \in Downloads, GiveUp(d) \/ Finish(d) PROVE Apart' /\ TempOwned'
  BY <1>4, EndFacts
<1>5. CASE Crash
  <2>1. crashes' > 0
    BY <1>5 DEF Crash, CacheTypes
  <2>2. UNCHANGED <<cached, temp>>
    BY <1>5 DEF Crash
  <2>3. temp # None => temp \in abandoned'
    BY <1>5 DEF Crash
  <2> QED BY <2>1, <2>2, <2>3
<1>6. CASE UNCHANGED <<cacheVars, crashes>>
  BY <1>6 DEF cacheVars, Writing
<1> QED BY <1>1, <1>2, <1>3, <1>4, <1>5, <1>6, NextCases DEF CacheStep
(* A file that is whole, or on its way, stays so while it is at a path.    *)
LEMMA WholeStep ==
  ASSUME CacheTypes, Unborn, Apart, [Next]_vars, NEW f \in {temp, cached} \ {None}, Whole(f),
         f \in {temp', cached'}
  PROVE  Whole(f)'
<1> USE AssetsAssumption
<1>f. f \in Files /\ f # None
  BY DEF CacheTypes, Files
<1>1. ASSUME NEW d \in Downloads, Stat(d) \/ FetchFails(d) PROVE Whole(f)'
  <2>1. UNCHANGED <<content, abandoned>>
    BY <1>1 DEF Stat, FetchFails
  <2>2. \A e \in Downloads : Completing(f, e) => Completing(f, e)'
    BY <1>1, <2>1
       DEF Stat, FetchFails, Becomes, CacheTypes, Ended, Waiting, Writing, Completing, All
  <2> QED BY <2>1, <2>2 DEF Whole, All
<1>2. ASSUME NEW d \in Downloads, Create(d) PROVE Whole(f)'
  <2>1. CASE f = temp'
    <3>1. Writing(d)' /\ download'[d].file = f /\ download'[d].offset = 0
      BY <1>2, <2>1, CreateFacts DEF CacheTypes, Writing
    <3>2. All \subseteq content'[f] \union (download'[d].offset + 1)..Pieces
      BY <3>1 DEF All
    <3> QED BY <3>1, <3>2 DEF Whole, Completing, All
  <2>2. CASE f # temp'
    <3>1. content'[f] = content[f] /\ abandoned' = abandoned
      BY <1>2, <2>2, CreateFacts DEF CacheTypes
    <3>2. \A e \in Downloads : Writing(e) => Writing(e)' /\ download'[e] = download[e]
      BY <1>2, CreateFacts DEF CacheTypes, Writing
    <3>3. \A e \in Downloads : Completing(f, e) => Completing(f, e)'
      BY <3>1, <3>2 DEF Completing, All
    <3> QED BY <3>1, <3>3 DEF Whole, All
  <2> QED BY <2>1, <2>2
<1>3. ASSUME NEW d \in Downloads, CopyPiece(d) PROVE Whole(f)'
  <2> DEFINE g == download[d].file
             n == download[d].offset + 1
             k == [pc |-> IF n = Pieces THEN "renaming" ELSE "copying", file |-> g, offset |-> n]
  <2>1. /\ Writing(d) /\ g \in Files /\ n \in 1..Pieces
        /\ content' = [content EXCEPT ![g] = content[g] \union {n}]
        /\ download' = [download EXCEPT ![d] = k]
        /\ UNCHANGED <<cached, temp, shared, abandoned, crashes>>
    BY <1>3, CopyFacts
  <2>2. content[f] \subseteq content'[f] /\ content'[f] \subseteq All
    BY <1>f, <2>1 DEF CacheTypes, All
  <2>3. CASE content[f] = All
    BY <2>2, <2>3 DEF Whole, All
  <2>4. CASE f \in abandoned
    BY <2>1, <2>4 DEF Whole
  <2>5. ASSUME NEW e \in Downloads, Completing(f, e) PROVE Completing(f, e)'
    <3>1. CASE e = d
      <4>1. download'[d] = k /\ n \in content'[f] /\ n \in Nat
        BY <1>f, <2>1, <2>5, <3>1 DEF Completing, CacheTypes
      <4>2. Writing(d)' /\ download'[d].file = f /\ download'[d].offset = n
        BY <4>1, <2>5, <3>1 DEF Writing, Completing
      <4>3. All \subseteq content[f] \union n..Pieces
        BY <2>5, <3>1 DEF Completing
      <4> HIDE DEF n
      <4>4. All \subseteq content'[f] \union (n + 1)..Pieces
        BY <4>1, <4>3, <2>2 DEF All
      <4> QED BY <3>1, <4>2, <4>4 DEF Completing, All
    <3>2. CASE e # d
      <4>1. download'[e] = download[e]
        BY <2>1, <3>2 DEF CacheTypes
      <4> QED BY <2>2, <2>5, <4>1 DEF Completing, Writing, All
    <3> QED BY <3>1, <3>2
  <2> QED BY <2>3, <2>4, <2>5 DEF Whole
<1>4. ASSUME NEW d \in Downloads, GiveUp(d) PROVE Whole(f)'
  <2>1. abandoned' = abandoned \union {download[d].file}
    BY <1>4 DEF GiveUp
  <2>2. content' = content
    BY <1>4 DEF GiveUp
  <2>3. \A e \in Downloads : e # d => (Completing(f, e) => Completing(f, e)')
    BY <1>4, <2>2, EndFacts DEF Completing, Writing, All
  <2>4. Completing(f, d) => f \in abandoned'
    BY <2>1 DEF Completing
  <2> QED BY <2>1, <2>2, <2>3, <2>4 DEF Whole, All
<1>5. ASSUME NEW d \in Downloads, Finish(d) PROVE Whole(f)'
  <2>1. UNCHANGED <<content, abandoned>> /\ download[d].pc = "renaming"
    BY <1>5 DEF Finish
  <2>2. \A e \in Downloads : e # d => (Completing(f, e) => Completing(f, e)')
    BY <1>5, <2>1, EndFacts DEF Completing, Writing, All
  <2>3. Completing(f, d) => content[f] = All
    <3>1. download[d].offset = Pieces
      BY <2>1 DEF CacheTypes
    <3>2. (Pieces + 1)..Pieces = {}
      OBVIOUS
    <3>3. content[f] \subseteq All
      BY <1>f DEF CacheTypes
    <3> QED BY <3>1, <3>2, <3>3 DEF Completing
  <2> QED BY <2>1, <2>2, <2>3 DEF Whole, All
<1>6. CASE Crash
  <2>1. content' = content /\ abandoned \subseteq abandoned'
    BY <1>6 DEF Crash
  <2>2. \A e \in Downloads : Completing(f, e) => f \in abandoned'
    BY <1>6 DEF Crash, Completing
  <2> QED BY <2>1, <2>2 DEF Whole, All
<1>7. CASE UNCHANGED <<cacheVars, crashes>>
  BY <1>7 DEF cacheVars, Whole, Completing, Writing, All
<1> QED BY <1>1, <1>2, <1>3, <1>4, <1>5, <1>6, <1>7, NextCases DEF CacheStep

LEMMA PathsWholeStep ==
  CacheTypes /\ Unborn /\ Apart /\ PathsWhole /\ [Next]_vars => PathsWhole'
<1> SUFFICES ASSUME CacheTypes, Unborn, Apart, PathsWhole, [Next]_vars PROVE PathsWhole'
  OBVIOUS
<1>1. ASSUME NEW f \in {temp', cached'} \ {None} PROVE Whole(f)'
  <2>1. CASE f \in {temp, cached}
    BY <2>1, WholeStep DEF PathsWhole
  <2>2. CASE f \notin {temp, cached}
    <3>1. PICK d \in Downloads : Create(d) /\ f = temp'
      <4>1. ASSUME NEW d \in Downloads, CacheStep(d), ~Create(d) PROVE f \in {temp, cached}
        BY <4>1 DEF CacheStep, Stat, FetchFails, CopyPiece, GiveUp, Finish
      <4>2. Crash => f \in {temp, cached}
        BY DEF Crash
      <4>3. ~ UNCHANGED <<cacheVars, crashes>>
        BY <2>2 DEF cacheVars
      <4>4. \A d \in Downloads : Create(d) => cached' = cached
        BY DEF Create
      <4> QED BY <2>2, <4>1, <4>2, <4>3, <4>4, NextCases DEF CacheStep
    <3>2. Writing(d)' /\ download'[d].file = f /\ download'[d].offset = 0
      BY <3>1, CreateFacts DEF CacheTypes, Writing
    <3>3. All \subseteq content'[f] \union (download'[d].offset + 1)..Pieces
      BY <3>2, AssetsAssumption DEF All
    <3> QED BY <3>2, <3>3 DEF Whole, Completing, All
  <2> QED BY <2>1, <2>2
<1> QED BY <1>1 DEF PathsWhole
(* While nothing was shared, one request writes at a time.                 *)
LEMMA ExclusiveStep ==
  CacheTypes /\ Unborn /\ Apart /\ Exclusive /\ [Next]_vars => Exclusive'
<1> SUFFICES ASSUME CacheTypes, Unborn, Apart, Exclusive, [Next]_vars, ~shared'
             PROVE  Exclusive'
  BY DEF Exclusive
<1> USE AssetsAssumption
<1>1. ASSUME NEW d \in Downloads, Stat(d) \/ FetchFails(d) PROVE Exclusive'
  <2>1. UNCHANGED <<cached, temp, content, shared>>
    BY <1>1 DEF Stat, FetchFails
  <2>2. \A e \in Downloads : Writing(e)' => Writing(e) /\ download'[e] = download[e]
    BY <1>1 DEF Stat, FetchFails, Becomes, CacheTypes, Ended, Waiting, Writing
  <2> QED BY <2>1, <2>2 DEF Exclusive, All
<1>2. ASSUME NEW d \in Downloads, Create(d) PROVE Exclusive'
  <2>1. \A e \in Downloads : ~Writing(e)
    <3>1. ~shared /\ \A e \in Downloads : Writing(e) => download[e].file # temp'
      BY <1>2, CreateFacts
    <3>2. \A e \in Downloads : Writing(e) => download[e].file = temp /\ temp # None
      BY <3>1 DEF Exclusive, CacheTypes, Files
    <3> QED BY <1>2, <3>1, <3>2, CreateFacts
  <2>2. \A e \in Downloads : Writing(e)' => e = d
    BY <1>2, <2>1, CreateFacts DEF CacheTypes, Writing
  <2>3. download'[d].file = temp' /\ 1..download'[d].offset = {}
    BY <1>2, CreateFacts DEF CacheTypes
  <2>4. cached' # None => content'[cached'] = All
    <3>1. cached # temp' /\ cached' = cached
      BY <1>2, CreateFacts DEF Unborn, Early, Apart
    <3>2. ~shared
      BY <1>2, CreateFacts
    <3> QED BY <1>2, <3>1, <3>2, CreateFacts DEF Exclusive, CacheTypes, Files
  <2> QED BY <2>2, <2>3, <2>4 DEF Exclusive, All
<1>3. ASSUME NEW d \in Downloads, CopyPiece(d) PROVE Exclusive'
  <2> DEFINE g == download[d].file
             n == download[d].offset + 1
             k == [pc |-> IF n = Pieces THEN "renaming" ELSE "copying", file |-> g, offset |-> n]
  <2>1. /\ Writing(d) /\ g \in Files /\ n \in 1..Pieces
        /\ content' = [content EXCEPT ![g] = content[g] \union {n}]
        /\ download' = [download EXCEPT ![d] = k]
        /\ UNCHANGED <<cached, temp, shared, abandoned, crashes>>
    BY <1>3, CopyFacts
  <2>2. \A e \in Downloads : Writing(e) => e = d
    BY <2>1 DEF Exclusive
  <2>3. g = temp /\ 1..download[d].offset \subseteq content[temp]
    BY <2>1 DEF Exclusive
  <2>4. cached # g
    BY <2>1, <2>3, <1>3 DEF Apart, CacheTypes, Files
  <2>5. \A e \in Downloads : Writing(e)' => e = d
    BY <2>1, <2>2 DEF CacheTypes, Writing
  <2>6. download'[d].file = temp' /\ download'[d].offset = n
    BY <2>1, <2>3 DEF CacheTypes
  <2>7. content'[temp] = content[temp] \union {n}
    BY <2>1, <2>3 DEF CacheTypes
  <2>8. 1..n \subseteq content[temp] \union {n}
    BY <2>3 DEF CacheTypes
  <2>9. cached' # None => content'[cached'] = All
    BY <2>1, <2>4 DEF Exclusive, CacheTypes, Files
  <2> QED BY <2>1, <2>5, <2>6, <2>7, <2>8, <2>9 DEF Exclusive, All
<1>4. ASSUME NEW d \in Downloads, GiveUp(d) \/ Finish(d) PROVE Exclusive'
  <2>1. ~shared /\ Writing(d)
    BY <1>4, EndFacts
  <2>2. \A e \in Downloads : ~Writing(e)'
    BY <1>4, <2>1, EndFacts DEF Exclusive, Writing
  <2>3. cached' # None => content'[cached'] = All
    <3>1. CASE cached' = cached
      BY <1>4, <2>1, <3>1, EndFacts DEF Exclusive
    <3>2. CASE cached' # cached
      <4>1. download[d].pc = "renaming" /\ cached' = temp /\ content' = content
        BY <1>4, <3>2 DEF GiveUp, Finish
      <4>2. download[d].offset = Pieces /\ temp \in Files
        BY <2>1, <4>1 DEF CacheTypes, Exclusive
      <4>3. content[temp] = All
        BY <2>1, <4>2 DEF Exclusive, CacheTypes, All
      <4> QED BY <4>1, <4>3
    <3> QED BY <3>1, <3>2
  <2> QED BY <2>2, <2>3 DEF Exclusive, All
<1>5. CASE Crash
  <2>1. \A e \in Downloads : ~Writing(e)'
    BY <1>5 DEF Crash, CacheTypes, Ended, Waiting, Writing
  <2>2. UNCHANGED <<cached, content, shared>>
    BY <1>5 DEF Crash
  <2> QED BY <2>1, <2>2 DEF Exclusive, All
<1>6. CASE UNCHANGED <<cacheVars, crashes>>
  BY <1>6 DEF cacheVars, Exclusive, Writing, All
<1> QED BY <1>1, <1>2, <1>3, <1>4, <1>5, <1>6, NextCases DEF CacheStep

LEMMA AlwaysInv == Spec => []Inv
<1>1. Inv /\ [Next]_vars => Inv'
  BY TypesStep, UnbornStep, PathsStep, PathsWholeStep, ExclusiveStep DEF Inv
<1> QED BY <1>1, InitInv, PTL DEF Spec

(* What the cache holds is whole, is being completed, or was given up by   *)
(* one of several requests that wrote to one file (assets.go:231-258).     *)
THEOREM CacheCorrect == Spec => []CachedComplete
<1>1. Inv => CachedComplete
  BY DEF Inv, CachedComplete, PathsWhole, Whole, Exclusive, Completing
<1> QED BY <1>1, AlwaysInv, PTL

(* No temporary file outlives the requests that write to it, unless they   *)
(* were cut short by a crash (assets.go:245-257).                          *)
THEOREM TempCorrect == Spec => []TempOwned
<1>1. Inv => TempOwned
  BY DEF Inv
<1> QED BY <1>1, AlwaysInv, PTL
-----------------------------------------------------------------------------
(* Uploads.                                                                *)

Written == {"absent", "partial", "data", "torn", "metadata"}
UploadStates ==
  [pc : {"new", "data", "metadata", "answered", "failed"}, name : Names \union {None}]

(* The metadata are there, whole or torn, only after the contents they     *)
(* name; before, what metadata.json holds was uploaded under that name.    *)
Kept(u) ==
  /\ upload[u].pc = "new" => \A n \in Names : dir[u][n] = "absent"
  /\ upload[u].pc # "new" => upload[u].name \in Names
  /\ \A n \in Names : dir[u][n] # "absent" => n \in {upload[u].name, MetadataName}
  /\ \A n \in Names : dir[u][n] \in {"torn", "metadata"} => n = MetadataName
  /\ dir[u][MetadataName] \in {"partial", "data"} => upload[u].name = MetadataName
  /\ upload[u].pc = "data" => dir[u][MetadataName] = "absent"
  /\ upload[u].pc = "metadata" => dir[u][upload[u].name] = "data"
  /\ upload[u].pc = "answered" => dir[u][MetadataName] = "metadata"
  /\ dir[u][MetadataName] = "metadata" =>
       upload[u].name = MetadataName \/ dir[u][upload[u].name] = "data"

UploadInv ==
  /\ upload \in [Uploads -> UploadStates]
  /\ dir \in [Uploads -> [Names -> Written]]
  /\ \A u \in Uploads : Kept(u)

LEMMA InitUploads == Init => UploadInv
BY AssetsAssumption DEF Init, UploadInv, UploadStates, Written, Kept

(* A step of one upload leaves the others.                                 *)
LEMMA UploadFacts ==
  ASSUME UploadInv, NEW u \in Uploads, NEW name \in Names, NEW w \in Written,
         NEW pc \in {"metadata", "answered", "failed"},
         dir' = [dir EXCEPT ![u][name] = w],
         upload' = [upload EXCEPT ![u].pc = pc]
  PROVE  /\ upload' \in [Uploads -> UploadStates] /\ dir' \in [Uploads -> [Names -> Written]]
         /\ upload'[u].pc = pc /\ upload'[u].name = upload[u].name
         /\ dir'[u][name] = w /\ \A n \in Names \ {name} : dir'[u][n] = dir[u][n]
         /\ \A v \in Uploads \ {u} : upload'[v] = upload[v] /\ dir'[v] = dir[v]
<1> DEFINE k == [upload[u] EXCEPT !.pc = pc]
           f == [dir[u] EXCEPT ![name] = w]
<1>1. upload[u] \in UploadStates /\ dir[u] \in [Names -> Written]
  BY DEF UploadInv
<1>2. k \in UploadStates /\ k.pc = pc /\ k.name = upload[u].name
  BY <1>1 DEF UploadStates
<1>3. f \in [Names -> Written] /\ f[name] = w /\ \A n \in Names \ {name} : f[n] = dir[u][n]
  BY <1>1
<1>4. upload' = [upload EXCEPT ![u] = k] /\ dir' = [dir EXCEPT ![u] = f]
  OBVIOUS
<1> HIDE DEF k, f
<1>5. /\ upload' \in [Uploads -> UploadStates] /\ dir' \in [Uploads -> [Names -> Written]]
      /\ upload'[u] = k /\ dir'[u] = f
      /\ \A v \in Uploads \ {u} : upload'[v] = upload[v] /\ dir'[v] = dir[v]
  BY <1>2, <1>3, <1>4 DEF UploadInv
<1> QED BY <1>2, <1>3, <1>5

(* A crash ends an upload, and may cut short the file it is writing.       *)
LEMMA CrashUploads ==
  ASSUME UploadInv, Crash
  PROVE  UploadInv'
<1> USE AssetsAssumption
<1>1. PICK how \in [{u \in Uploads : Uploading(u)} -> {"untouched", "cut", "whole"}] :
        dir' = [u \in Uploads |-> IF Uploading(u) THEN Left(u, how[u]) ELSE dir[u]]
  BY DEF Crash
<1>2. upload' = [u \in Uploads |-> IF Uploading(u) THEN [upload[u] EXCEPT !.pc = "failed"]
                                   ELSE upload[u]]
  BY DEF Crash
<1>3. ASSUME NEW u \in Uploads
      PROVE  upload'[u] \in UploadStates /\ dir'[u] \in [Names -> Written] /\ Kept(u)'
  <2>1. upload[u] \in UploadStates /\ dir[u] \in [Names -> Written] /\ Kept(u)
    BY DEF UploadInv
  <2>2. CASE ~Uploading(u)
    <3>1. upload'[u] = upload[u] /\ dir'[u] = dir[u]
      BY <1>1, <1>2, <2>2
    <3> QED BY <2>1, <3>1 DEF Kept
  <2>3. CASE Uploading(u)
    <3>1. /\ upload'[u] \in UploadStates
          /\ upload'[u].pc = "failed" /\ upload'[u].name = upload[u].name
      BY <1>2, <2>1, <2>3 DEF UploadStates
    <3>2. upload[u].name \in Names
      BY <2>1, <2>3 DEF Kept, Uploading
    <3>3. dir'[u] = Left(u, how[u]) /\ how[u] \in {"untouched", "cut", "whole"}
      BY <1>1, <2>3
    <3>4. PICK w \in {"partial", "data", "torn", "metadata"} :
            \/ dir'[u] = dir[u]
            \/ /\ upload[u].pc = "data" /\ w \in {"partial", "data"}
               /\ dir'[u] = [dir[u] EXCEPT ![upload[u].name] = w]
            \/ /\ upload[u].pc = "metadata" /\ w \in {"torn", "metadata"}
               /\ dir'[u] = [dir[u] EXCEPT ![MetadataName] = w]
      BY <2>3, <3>3 DEF Left, Uploading
    <3>5. CASE dir'[u] = dir[u]
      BY <2>1, <2>3, <3>1, <3>5 DEF Kept, Uploading
    <3>6. CASE /\ upload[u].pc = "data" /\ w \in {"partial", "data"}
               /\ dir'[u] = [dir[u] EXCEPT ![upload[u].name] = w]
      BY <2>1, <3>1, <3>2, <3>6 DEF Kept, Written
    <3>7. CASE /\ upload[u].pc = "metadata" /\ w \in {"torn", "metadata"}
               /\ dir'[u] = [dir[u] EXCEPT ![MetadataName] = w]
      BY <2>1, <3>1, <3>2, <3>7 DEF Kept, Written
    <3> QED BY <3>4, <3>5, <3>6, <3>7
  <2> QED BY <2>2, <2>3
<1>4. upload' \in [Uploads -> UploadStates] /\ dir' \in [Uploads -> [Names -> Written]]
  <2>1. upload' = [u \in Uploads |-> upload'[u]]
    BY <1>2
  <2>2. dir' = [u \in Uploads |-> dir'[u]]
    BY <1>1
  <2> QED BY <1>3, <2>1, <2>2
<1> QED BY <1>3, <1>4 DEF UploadInv

LEMMA UploadsHeld ==
  ASSUME UploadInv, [Next]_vars
  PROVE  UploadInv'
<1> USE AssetsAssumption
<1>1. ASSUME NEW u \in Uploads, MakeDir(u)
      PROVE  UploadInv'
  <2>1. PICK n \in Names : upload' = [upload EXCEPT ![u] = [pc |-> "data", name |-> n]]
    BY <1>1 DEF MakeDir
  <2>2. [pc |-> "data", name |-> n] \in UploadStates
    BY DEF UploadStates
  <2>3. /\ upload' \in [Uploads -> UploadStates] /\ upload'[u] = [pc |-> "data", name |-> n]
        /\ \A v \in Uploads \ {u} : upload'[v] = upload[v]
    BY <2>1, <2>2 DEF UploadInv
  <2>4. dir' = dir /\ \A m \in Names : dir[u][m] = "absent"
    BY <1>1 DEF MakeDir, UploadInv, Kept
  <2> QED BY <2>3, <2>4 DEF UploadInv, Kept
<1>2. ASSUME NEW u \in Uploads, WriteData(u)
      PROVE  UploadInv'
  <2>1. upload[u].pc = "data" /\ upload[u].name \in Names /\ dir[u][MetadataName] = "absent"
    BY <1>2 DEF WriteData, UploadInv, Kept
  <2>2. PICK w \in Written, pc \in {"metadata", "failed"} :
          /\ dir' = [dir EXCEPT ![u][upload[u].name] = w]
          /\ upload' = [upload EXCEPT ![u].pc = pc]
          /\ w \in {"absent", "partial", "data"} /\ (pc = "metadata" => w = "data")
    BY <1>2 DEF WriteData, Written
  <2>3. /\ upload' \in [Uploads -> UploadStates] /\ dir' \in [Uploads -> [Names -> Written]]
        /\ upload'[u].pc = pc /\ upload'[u].name = upload[u].name
        /\ dir'[u][upload[u].name] = w
        /\ \A n \in Names \ {upload[u].name} : dir'[u][n] = dir[u][n]
        /\ \A v \in Uploads \ {u} : upload'[v] = upload[v] /\ dir'[v] = dir[v]
    BY <2>1, <2>2, UploadFacts
  <2>4. Kept(u)
    BY DEF UploadInv
  <2>5. Kept(u)'
    BY <2>1, <2>2, <2>3, <2>4 DEF Kept
  <2>6. \A v \in Uploads \ {u} : Kept(v)'
    BY <2>3 DEF UploadInv, Kept
  <2> QED BY <2>3, <2>5, <2>6 DEF UploadInv
<1>3. ASSUME NEW u \in Uploads, WriteMetadata(u)
      PROVE  UploadInv'
  <2>1. /\ upload[u].pc = "metadata" /\ upload[u].name \in Names
        /\ dir[u][upload[u].name] = "data"
    BY <1>3 DEF WriteMetadata, UploadInv, Kept
  <2>2. PICK w \in Written, pc \in {"answered", "failed"} :
          /\ dir' = [dir EXCEPT ![u][MetadataName] = w]
          /\ upload' = [upload EXCEPT ![u].pc = pc]
          /\ w \in {dir[u][MetadataName], "torn", "metadata"}
          /\ pc = "answered" => w = "metadata"
    <3>1. dir[u][MetadataName] \in Written
      BY DEF UploadInv
    <3> QED BY <1>3, <3>1 DEF WriteMetadata, Written
  <2>3. /\ upload' \in [Uploads -> UploadStates] /\ dir' \in [Uploads -> [Names -> Written]]
        /\ upload'[u].pc = pc /\ upload'[u].name = upload[u].name
        /\ dir'[u][MetadataName] = w
        /\ \A n \in Names \ {MetadataName} : dir'[u][n] = dir[u][n]
        /\ \A v \in Uploads \ {u} : upload'[v] = upload[v] /\ dir'[v] = dir[v]
    BY <2>2, UploadFacts
  <2>4. Kept(u)
    BY DEF UploadInv
  <2>5. Kept(u)'
    BY <2>1, <2>2, <2>3, <2>4 DEF Kept
  <2>6. \A v \in Uploads \ {u} : Kept(v)'
    BY <2>3 DEF UploadInv, Kept
  <2> QED BY <2>3, <2>5, <2>6 DEF UploadInv
<1>4. CASE UNCHANGED <<upload, dir>>
  BY <1>4 DEF UploadInv, Kept
<1>5. ASSUME NEW d \in Downloads, CacheStep(d)
      PROVE  UNCHANGED <<upload, dir>>
  BY <1>5 DEF CacheStep, Stat, Create, FetchFails, CopyPiece, GiveUp, Finish, uploadVars
<1>6. UNCHANGED vars => UNCHANGED <<upload, dir>>
  BY DEF vars, uploadVars
<1> QED BY <1>1, <1>2, <1>3, <1>4, <1>5, <1>6, CrashUploads DEF Next, CacheStep

LEMMA AlwaysUploads == Spec => []UploadInv
BY InitUploads, UploadsHeld, PTL DEF Spec

(* An answered upload can be attached, and nothing but the whole contents  *)
(* is attached for any upload, whatever failed and wherever a crash cut it *)
(* short, except for the name metadata.json: such contents are replaced by *)
(* the metadata, or may name another file if the upload was cut short      *)
(* before that (assets.go:107-133, 262-294).                               *)
THEOREM AttachmentsCorrect == Spec => []AttachesContents
<1>1. UploadInv => AttachesContents
  BY AssetsAssumption DEF UploadInv, Kept, AttachesContents, Attached
<1> QED BY <1>1, AlwaysUploads, PTL

(* The types of the cache, the requests and the directories.               *)
THEOREM FileTypes == Spec => []TypeOK
<1>1. Inv /\ UploadInv => TypeOK
  <2> SUFFICES ASSUME Inv, UploadInv PROVE TypeOK
    OBVIOUS
  <2>1. CacheTypes
    BY DEF Inv
  <2>2. \A d \in Downloads :
          /\ download[d].pc \in {"new", "fetching", "copying", "renaming", "answered", "failed"}
          /\ download[d].file \in Files \union {None}
          /\ download[d].offset \in 0..Pieces
          /\ Writing(d) => download[d].file # None
    BY <2>1, AssetsAssumption DEF CacheTypes, Files
  <2>3. \A u \in Uploads :
          /\ upload[u].pc \in {"new", "data", "metadata", "answered", "failed"}
          /\ upload[u].name \in Names \union {None}
    BY DEF UploadInv, UploadStates
  <2> QED BY <2>1, <2>2, <2>3 DEF TypeOK, CacheTypes, UploadInv, Written
<1> QED BY <1>1, AlwaysInv, AlwaysUploads, PTL
=============================================================================
