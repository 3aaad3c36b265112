------------------------- MODULE RegistrySync_proofs -------------------------
(* Theorems about RegistrySync for every registry, pool and number of faults: *)
(* a sync replaces whole sets of tools, as ActiveSet says, and a startup that  *)
(* is not disturbed loads what it accepts of one release.                      *)
EXTENDS RegistrySync, TLAPS

IInv ==
    /\ TypeOK
    /\ SwapPlaces
    /\ ClaimsAccounted
    /\ SetsWhole
    /\ WalkExact
    /\ LoadsOneRelease
    /\ SwappedIn
    /\ OneIsEnough
    /\ NoResultYet
    /\ SuccessIsVisible

------------------------------------------------------------------------------
(* Facts about manifests and directories.                                      *)

LEMMA ManifestFacts ==
  ASSUME NEW r \in Releases
  PROVE  /\ Len(Manifest[r]) \in Nat
         /\ \A i \in 1..Len(Manifest[r]) : Manifest[r][i] \in Names
         /\ Listed(r) \subseteq Names
         /\ FilesOf(r) \in SUBSET Files
         /\ FilesOf(r) \in Whole
<1>1. Manifest[r] \in Seq(Names)
  BY ManifestsParse
<1>2. Len(Manifest[r]) \in Nat /\ \A i \in 1..Len(Manifest[r]) : Manifest[r][i] \in Names
  BY <1>1
<1>3. Listed(r) \subseteq Names
  BY <1>2 DEF Listed
<1> QED
  BY <1>2, <1>3 DEF FilesOf, Files, Whole

LEMMA DirectoriesExist ==
  /\ \A dir \in SUBSET Files : dir # NoDir
  /\ Whole \subseteq SUBSET Files
  /\ NoDir \notin Whole \cup {{}}
<1>1. \A dir \in SUBSET Files : dir # NoDir
  BY Distinct DEF Files
<1>2. Whole \subseteq SUBSET Files
  BY ManifestFacts DEF Whole
<1> QED
  BY <1>1, <1>2

------------------------------------------------------------------------------
(* What the loader makes of the files that it reads.                           *)

LEMMA AcceptedFacts ==
  /\ \A files : Accepted(files) \subseteq files
  /\ \A files : \A S \in Loads(files) : S \subseteq Accepted(files)
BY DEF Accepted, Loads

(* Of no file nothing is loaded.                                               *)
LEMMA LoadsNothing ==
  /\ {} \in Loads({})
  /\ \A S \in Loads({}) : S = {}
BY DEF Loads, Accepted

(* One file more: it is left out, or loaded instead of one of the same name.    *)
LEMMA LoadsOneMore ==
  \A files, S, read :
    S \in Loads(files) /\ (read = {} \/ \E f : read = {f})
      => With(S, read) \in Loads(files \cup read)
<1> SUFFICES ASSUME NEW files, NEW S \in Loads(files), NEW read, read = {} \/ \E f : read = {f}
             PROVE  With(S, read) \in Loads(files \cup read)
  OBVIOUS
<1>1. /\ S \subseteq Accepted(files)
      /\ \A f \in Accepted(files) : \E g \in S : {h \in S : OwnName[h] = OwnName[f]} = {g}
      /\ \A g \in S : OwnName[g] # None
  BY DEF Loads, Accepted
<1>2. CASE Accepted(read) = {}
  <2>1. Accepted(files \cup read) = Accepted(files)
    BY <1>2 DEF Accepted
  <2>2. \A f \in read : OwnName[f] = None
    BY <1>2 DEF Accepted
  <2>3. With(S, read) = S
    BY <1>1, <1>2, <2>2 DEF With
  <2> QED
    BY <2>1, <2>3 DEF Loads
<1>3. ASSUME NEW f, read = {f}, OwnName[f] # None
      PROVE  With(S, read) \in Loads(files \cup read)
  <2> DEFINE all == With(S, read)
  <2>1. all = {g \in S : OwnName[f] # OwnName[g]} \cup {f}
    BY <1>3 DEF With, Accepted
  <2>2. Accepted(files \cup read) = Accepted(files) \cup {f}
    BY <1>3 DEF Accepted
  <2>3. ASSUME NEW e \in Accepted(files) \cup {f}
        PROVE  \E g \in all : {h \in all : OwnName[h] = OwnName[e]} = {g}
    <3>1. CASE OwnName[e] = OwnName[f]
      <4>1. f \in all /\ \A h \in all : OwnName[h] = OwnName[e] <=> h = f
        BY <2>1, <3>1
      <4> HIDE DEF all
      <4> QED
        BY <4>1
    <3>2. CASE OwnName[e] # OwnName[f]
      <4>1. PICK g \in S : {h \in S : OwnName[h] = OwnName[e]} = {g}
        BY <1>1, <2>3, <3>2
      <4>2. OwnName[g] = OwnName[e] /\ \A h \in S : OwnName[h] = OwnName[e] <=> h = g
        BY <4>1
      <4>3. g \in all /\ \A h \in all : OwnName[h] = OwnName[e] <=> h = g
        BY <2>1, <3>2, <4>2
      <4> HIDE DEF all
      <4> QED
        BY <4>3
    <3> QED
      BY <3>1, <3>2
  <2>4. all \subseteq Accepted(files) \cup {f}
    BY <1>1, <2>1
  <2> QED
    BY <2>2, <2>3, <2>4 DEF Loads
<1>4. Accepted(read) = {} \/ \E f : read = {f} /\ OwnName[f] # None
  BY DEF Accepted
<1> QED
  BY <1>2, <1>3, <1>4

(* What is loaded of a release, or of nothing.                                 *)
LEMMA LoadsRelease ==
  \A files \in Whole \cup {{}} : \A S \in Loads(files) :
    S = {} \/ \E r \in Releases : S \in Loads(FilesOf(r))
BY LoadsNothing DEF Whole

(* A release has one file of each name.                                        *)
LEMMA OneFileEach ==
  \A files \in Whole \cup {{}}, n \in Names :
    {f \in files : f[1] = n} = {} \/ \E f : {g \in files : g[1] = n} = {f}
<1> SUFFICES ASSUME NEW files \in Whole \cup {{}}, NEW n \in Names,
                    {f \in files : f[1] = n} # {}
             PROVE  \E f : {g \in files : g[1] = n} = {f}
  OBVIOUS
<1>1. PICK r \in Releases : files = Listed(r) \X {r}
  BY DEF Whole, FilesOf
<1>2. \A f \in files : f = <<f[1], r>>
  BY <1>1
<1>3. {g \in files : g[1] = n} = {<<n, r>>}
  BY <1>1, <1>2
<1> QED
  BY <1>3

------------------------------------------------------------------------------
(* Types.                                                                      *)

LEMMA TypeInit == Init => TypeOK
<1> SUFFICES ASSUME Init PROVE TypeOK
  OBVIOUS
<1>1. NoIndex \in [stamp : 0..MaxTime, files : SUBSET Files]
  BY BoundsAreNumbers DEF NoIndex
<1>2. loader \in [pc : {"done", "meta", "open", "walk"},
                  index : [stamp : 0..MaxTime, files : SUBSET Files],
                  left : SUBSET Names, seen : SUBSET Files, mixed : BOOLEAN]
  BY <1>1 DEF Init
<1>3. hand \in [Workers -> Names \cup {None, "done"}]
  BY DEF Init, EmptyHands
<1>4. sync \in [pc : {"idle", "verify", "stage", "fetch", "drop", "retire", "promote",
                     "sweep", "meta", "index"},
               release : Releases \cup {None}, next : Nat \ {0}, error : BOOLEAN]
  BY DEF Init, Idle
<1>5. published \in Releases /\ clock \in 1..MaxTime /\ meta \in 0..MaxTime /\ faults \in 0..MaxFaults
  BY BoundsAreNumbers DEF Init
<1>6. /\ manifest = None /\ tools = NoDir /\ staged = NoDir /\ retired = NoDir
      /\ index = NoIndex /\ parsed = {} /\ last = None /\ complete = FALSE
  BY DEF Init
<1> QED
  BY <1>1, <1>2, <1>3, <1>4, <1>5, <1>6 DEF TypeOK

(* The loader notes that its walk is disturbed, and nothing else.              *)
LEMMA DisturbOnlyMarks ==
  ASSUME TypeOK, Disturb
  PROVE  /\ loader'.pc = loader.pc /\ loader'.index = loader.index
         /\ loader'.left = loader.left /\ loader'.seen = loader.seen
         /\ loader.mixed \/ loader.pc = "walk" => loader'.mixed
         /\ ~loader.mixed /\ loader.pc # "walk" => ~loader'.mixed
         /\ loader' \in [pc : {"done", "meta", "open", "walk"},
                          index : [stamp : 0..MaxTime, files : SUBSET Files],
                          left : SUBSET Names, seen : SUBSET Files, mixed : BOOLEAN]
<1> DEFINE b == loader.mixed \/ loader.pc = "walk"
<1>1. b \in BOOLEAN
  OBVIOUS
<1>2. loader' = [loader EXCEPT !.mixed = b]
  BY DEF Disturb
<1> HIDE DEF b
<1>3. /\ loader'.pc = loader.pc /\ loader'.index = loader.index
      /\ loader'.left = loader.left /\ loader'.seen = loader.seen
      /\ b => loader'.mixed
      /\ ~b => ~loader'.mixed
      /\ loader' \in [pc : {"done", "meta", "open", "walk"},
                       index : [stamp : 0..MaxTime, files : SUBSET Files],
                       left : SUBSET Names, seen : SUBSET Files, mixed : BOOLEAN]
  BY <1>1, <1>2 DEF TypeOK
<1> QED
  BY <1>3 DEF b

LEMMA TypeStep == TypeOK /\ SwapPlaces /\ ClaimsAccounted /\ [Next]_vars => TypeOK'
<1> SUFFICES ASSUME TypeOK, SwapPlaces, ClaimsAccounted, [Next]_vars PROVE TypeOK'
  OBVIOUS
<1> USE BoundsAreNumbers DEF TypeOK
<1> DEFINE SyncType ==
        /\ sync' \in [pc : {"idle", "verify", "stage", "fetch", "drop", "retire", "promote",
                            "sweep", "meta", "index"},
                      release : Releases \cup {None}, next : Nat \ {0}, error : BOOLEAN]
        /\ hand' \in [Workers -> Names \cup {None, "done"}]
        /\ parsed' \subseteq Files
<1>0. Return => SyncType
  BY DEF Return, Idle, EmptyHands
<1>1. CASE Publish
  BY <1>1 DEF Publish, disk, run, history
<1>2. CASE Tick
  BY <1>2 DEF Tick, disk, run, history
<1>3. CASE Clear
  <2>1. index' \in [stamp : 0..MaxTime, files : SUBSET Files]
    BY <1>3 DEF Clear, NoIndex
  <2>2. meta' \in 0..MaxTime /\ faults' \in 0..MaxFaults
    BY <1>3 DEF Clear
  <2>3. UNCHANGED <<sync, hand, parsed, published, clock>>
    BY <1>3 DEF Clear, run
  <2> QED
    BY <1>3, <2>1, <2>2, <2>3, DisturbOnlyMarks DEF Clear
<1>4. CASE FetchManifest
  <2>1. sync' = [pc |-> "verify", release |-> published, next |-> 1, error |-> FALSE]
    BY <1>4 DEF FetchManifest, Idle
  <2>2. sync' \in [pc : {"idle", "verify", "stage", "fetch", "drop", "retire", "promote",
                        "sweep", "meta", "index"},
                  release : Releases \cup {None}, next : Nat \ {0}, error : BOOLEAN]
    BY <2>1
  <2> QED
    BY <1>4, <2>2 DEF FetchManifest, disk
<1>5. CASE PromoteManifest
  BY <1>5 DEF PromoteManifest, At, Goto, history
<1>6. CASE Stage
  BY <1>6 DEF Stage, At, Goto, history
<1>7. ASSUME NEW w \in Workers, Claim(w) PROVE TypeOK'
  <2>1. sync.release \in Releases
    BY <1>7 DEF Claim, At, SwapPlaces
  <2>2. CASE sync.error \/ sync.next > Total
    BY <1>7, <2>2 DEF Claim, At, disk, history
  <2>3. CASE ~(sync.error \/ sync.next > Total)
    <3>1. hand'[w] \in Names \cup {None, "done"}
      <4>1. Manifest[sync.release][sync.next] \in Names
        BY <2>1, <2>3, ManifestFacts DEF Total
      <4> QED
        BY <1>7, <2>3, <4>1 DEF Claim, At, disk, history
    <3> QED
      BY <1>7, <2>3, <3>1 DEF Claim, At, disk, history
  <2> QED
    BY <2>2, <2>3
<1>8. ASSUME NEW w \in Workers, FetchTool(w) PROVE TypeOK'
  <2>1. <<hand[w], sync.release>> \in Files
    BY <1>8 DEF FetchTool, At, Files
  <2>2. staged' \in {NoDir} \cup SUBSET Files
    <3>1. staged \in SUBSET Files
      BY <1>8, ManifestFacts DEF FetchTool, At, SwapPlaces, ClaimsAccounted
    <3> QED
      BY <1>8, <2>1, <3>1 DEF FetchTool
  <2>3. parsed' \subseteq Files
    BY <1>8, <2>1 DEF FetchTool
  <2> QED
    BY <1>8, <2>2, <2>3 DEF FetchTool, At, history
<1>9. ASSUME NEW w \in Workers, ToolFails(w) PROVE TypeOK'
  BY <1>9 DEF ToolFails, At, disk, history
<1>10. CASE Join
  BY <1>0, <1>10 DEF Join, At, Goto, disk, history
<1>11. CASE DropRetired
  BY <1>11 DEF DropRetired, At, Goto, history
<1>12. CASE Retire
  BY <1>12, DisturbOnlyMarks DEF Retire, At, Goto, history
<1>13. CASE Promote
  BY <1>13, DisturbOnlyMarks DEF Promote, At, Goto, history
<1>14. CASE PromoteFails
  BY <1>14, <1>0, DisturbOnlyMarks DEF PromoteFails, At
<1>15. CASE Sweep
  BY <1>15 DEF Sweep, At, Goto, history
<1>16. CASE WriteMeta
  BY <1>16 DEF WriteMeta, At, Goto, history
<1>17. CASE WriteIndex
  BY <1>0, <1>17 DEF WriteIndex, At
<1>18. CASE IndexFails
  BY <1>0, <1>18 DEF IndexFails, At, NoIndex
<1>19. CASE Refuse
  BY <1>0, <1>19 DEF Refuse, At, disk, history
<1>20. CASE Break
  BY <1>0, <1>20 DEF Break, disk
<1>21. CASE ReadIndex
  BY <1>21 DEF ReadIndex, disk, run, history
<1>22. CASE ReadMeta
  <2>1. NoIndex \in [stamp : 0..MaxTime, files : SUBSET Files]
    BY DEF NoIndex
  <2>2. CASE Trusted(loader.index)
    <3>1. PICK S \in Loads(loader.index.files) :
            loader' = [loader EXCEPT !.pc = "done", !.seen = S, !.mixed = FALSE,
                                     !.index = NoIndex]
      BY <1>22, <2>2 DEF ReadMeta
    <3>2. S \in SUBSET Files
      BY AcceptedFacts
    <3> QED
      BY <1>22, <2>1, <3>1, <3>2 DEF ReadMeta, disk, run, history
  <2>3. CASE ~Trusted(loader.index)
    <3>1. loader' = [loader EXCEPT !.pc = "open", !.index = NoIndex]
      BY <1>22, <2>3 DEF ReadMeta
    <3> QED
      BY <1>22, <2>1, <3>1 DEF ReadMeta, disk, run, history
  <2> QED
    BY <2>2, <2>3
<1>23. CASE OpenDir
  <2>1. tools # NoDir => NamesIn(tools) \in SUBSET Names
    BY DEF NamesIn, Files
  <2>2. loader' \in [pc : {"done", "meta", "open", "walk"},
                     index : [stamp : 0..MaxTime, files : SUBSET Files],
                     left : SUBSET Names, seen : SUBSET Files, mixed : BOOLEAN]
    BY <1>23, <2>1 DEF OpenDir
  <2> QED
    BY <1>23, <2>2 DEF OpenDir, disk, run, history
<1>24. CASE ReadFile
  <2>1. loader' \in [pc : {"done", "meta", "open", "walk"},
                     index : [stamp : 0..MaxTime, files : SUBSET Files],
                     left : SUBSET Names, seen : SUBSET Files, mixed : BOOLEAN]
    <3>1. PICK n \in loader.left :
            loader' = [loader EXCEPT
              !.left = @ \ {n},
              !.seen = With(@, IF tools = NoDir THEN {} ELSE {f \in tools : f[1] = n}),
              !.pc = IF loader.left = {n} THEN "done" ELSE "walk"]
      BY <1>24 DEF ReadFile
    <3> DEFINE read == IF tools = NoDir THEN {} ELSE {f \in tools : f[1] = n}
               seen == With(loader.seen, read)
    <3>2. seen \in SUBSET Files
      BY AcceptedFacts DEF With
    <3>3. loader' = [loader EXCEPT !.left = @ \ {n}, !.seen = seen,
                                   !.pc = IF loader.left = {n} THEN "done" ELSE "walk"]
      BY <3>1
    <3> HIDE DEF seen
    <3> QED
      BY <3>2, <3>3
  <2> QED
    BY <1>24, <2>1 DEF ReadFile, disk, run, history
<1>25. CASE NothingToRead
  BY <1>25 DEF NothingToRead, disk, run, history
<1>26. CASE UNCHANGED vars
  BY <1>26 DEF vars, disk, run, history
<1> QED
  BY <1>1, <1>2, <1>3, <1>4, <1>5, <1>6, <1>7, <1>8, <1>9, <1>10, <1>11, <1>12, <1>13,
     <1>14, <1>15, <1>16, <1>17, <1>18, <1>19, <1>20, <1>21, <1>22, <1>23, <1>24, <1>25,
     <1>26 DEF Next, Step

------------------------------------------------------------------------------
(* The directories at the steps of a sync.                                     *)

LEMMA SwapPlacesStep == TypeOK /\ SwapPlaces /\ SetsWhole /\ [Next]_vars => SwapPlaces'
<1> SUFFICES ASSUME TypeOK, SwapPlaces, SetsWhole, [Next]_vars PROVE SwapPlaces'
  OBVIOUS
<1> USE DEF SwapPlaces, At
<1>1. CASE UNCHANGED <<sync, tools, retired>>
  BY <1>1
<1>2. CASE Return
  BY <1>2 DEF Return, Idle
<1>3. CASE Clear
  BY <1>3 DEF Clear, run
<1>4. CASE FetchManifest
  <2>1. sync'.pc = "verify" /\ sync'.release = published
    BY <1>4 DEF FetchManifest, Idle
  <2> QED
    BY <2>1 DEF TypeOK
<1>5. CASE PromoteManifest \/ WriteMeta
  BY <1>5 DEF PromoteManifest, WriteMeta, Goto, TypeOK
<1>6. CASE Stage
  <2>1. sync'.pc = "fetch" /\ sync'.release = sync.release /\ sync.pc = "stage"
    BY <1>6 DEF Stage, Goto, TypeOK
  <2>2. tools' # NoDir
    BY <1>6, DirectoriesExist DEF Stage
  <2> QED
    BY <2>1, <2>2
<1>7. ASSUME NEW w \in Workers, Claim(w) \/ ToolFails(w) PROVE SwapPlaces'
  <2>1. sync.pc = "fetch" /\ sync'.pc = "fetch" /\ sync'.release = sync.release /\ tools' = tools
    BY <1>7 DEF Claim, ToolFails, disk, TypeOK
  <2> QED
    BY <2>1
<1>8. CASE Join /\ ~sync.error
  BY <1>8 DEF Join, Goto, disk, TypeOK
<1>9. CASE DropRetired
  BY <1>9 DEF DropRetired, Goto, TypeOK
<1>10. CASE Retire
  BY <1>10 DEF Retire, Goto, TypeOK
<1>11. CASE Promote
  <2>1. staged # NoDir
    BY <1>11, ManifestFacts, DirectoriesExist DEF Promote, SetsWhole
  <2> QED
    BY <1>11, <2>1 DEF Promote, Goto, TypeOK
<1>12. CASE Sweep
  BY <1>12 DEF Sweep, Goto, TypeOK
<1>13. \/ UNCHANGED <<sync, tools, retired>> \/ Return \/ Clear \/ FetchManifest
       \/ PromoteManifest \/ WriteMeta \/ Stage \/ (\E w \in Workers : Claim(w) \/ ToolFails(w))
       \/ (Join /\ ~sync.error) \/ DropRetired \/ Retire \/ Promote \/ Sweep
  BY DEF Next, Step, vars, disk, run, Publish, Tick, FetchTool, Join, PromoteFails, WriteIndex,
         IndexFails, Refuse, Break, ReadIndex, ReadMeta, OpenDir, ReadFile, NothingToRead
<1> QED
  BY <1>1, <1>2, <1>3, <1>4, <1>5, <1>6, <1>7, <1>8, <1>9, <1>10, <1>11, <1>12, <1>13

------------------------------------------------------------------------------
(* The pool: the threads account for every tool of the manifest.               *)

LEMMA ClaimsStep == TypeOK /\ SwapPlaces /\ ClaimsAccounted /\ [Next]_vars => ClaimsAccounted'
<1> SUFFICES ASSUME TypeOK, SwapPlaces, ClaimsAccounted, [Next]_vars PROVE ClaimsAccounted'
  OBVIOUS
<1> USE DEF At
<1>1. CASE UNCHANGED <<sync, hand, parsed, staged>>
  BY <1>1 DEF ClaimsAccounted, EmptyHands, Total
<1>2. CASE Return
  BY <1>2 DEF Return, Idle, ClaimsAccounted, EmptyHands
<1>4. CASE FetchManifest
  <2>1. sync' = [pc |-> "verify", release |-> published, next |-> 1, error |-> FALSE]
    BY <1>4 DEF FetchManifest, Idle
  <2>2. sync'.pc = "verify" /\ sync'.next = 1 /\ ~sync'.error
    BY <2>1
  <2>3. hand' = EmptyHands /\ parsed' = {}
    BY <1>4 DEF FetchManifest, ClaimsAccounted
  <2> QED
    BY <2>2, <2>3 DEF ClaimsAccounted, EmptyHands
<1>5. CASE PromoteManifest
  <2>1. sync.pc = "verify" /\ sync'.pc = "stage" /\ sync'.next = sync.next /\ sync'.error = sync.error
    BY <1>5 DEF PromoteManifest, Goto, TypeOK
  <2> QED
    BY <1>5, <2>1 DEF PromoteManifest, Goto, ClaimsAccounted, EmptyHands
<1>6. CASE Stage
  <2>1. /\ sync.pc = "stage" /\ sync'.pc = "fetch" /\ sync'.next = 1 /\ ~sync'.error
        /\ sync'.release = sync.release
    BY <1>6 DEF Stage, Goto, TypeOK, ClaimsAccounted
  <2>2. staged' = {} /\ parsed' = {} /\ \A w \in Workers : hand'[w] = None
    BY <1>6, <2>1 DEF Stage, Goto, ClaimsAccounted, EmptyHands
  <2>3. None \notin Names /\ None # "done"
    BY Distinct
  <2> QED
    BY <2>1, <2>2, <2>3 DEF ClaimsAccounted
<1>7. ASSUME NEW w \in Workers, Claim(w) PROVE ClaimsAccounted'
  <2>1. sync.pc = "fetch" /\ sync.release \in Releases /\ hand[w] = None
    BY <1>7 DEF Claim, SwapPlaces
  <2>2. UNCHANGED <<staged, parsed>>
    BY <1>7 DEF Claim, disk
  <2>3. CASE sync.error \/ sync.next > Total
    <3>1. UNCHANGED sync /\ hand' = [hand EXCEPT ![w] = "done"]
      BY <1>7, <2>3 DEF Claim
    <3>2. "done" \notin Names
      BY Distinct
    <3>3. \A v \in Workers : hand'[v] = IF v = w THEN "done" ELSE hand[v]
      BY <3>1 DEF TypeOK
    <3>4. \A v \in Workers : hand'[v] \in Names => hand'[v] \in Listed(sync.release)
      BY <2>1, <3>2, <3>3 DEF ClaimsAccounted
    <3>5. ASSUME ~sync.error PROVE sync.next > Total
      BY <2>3, <3>5
    <3>6. ASSUME ~sync.error, NEW i \in 1..Total, i < sync.next
          PROVE  \/ <<Manifest[sync.release][i], sync.release>> \in staged
                 \/ \E v \in Workers : hand'[v] = Manifest[sync.release][i]
      <4>1. Manifest[sync.release][i] # None
        BY <2>1, ManifestFacts, Distinct DEF Total
      <4> QED
        BY <2>1, <3>3, <3>6, <4>1 DEF ClaimsAccounted
    <3> QED
      BY <2>1, <2>2, <3>1, <3>4, <3>5, <3>6 DEF ClaimsAccounted, Total
  <2>4. CASE ~sync.error /\ sync.next <= Total
    <3> DEFINE n == Manifest[sync.release][sync.next]
    <3>1. sync' = [sync EXCEPT !.next = @ + 1] /\ hand' = [hand EXCEPT ![w] = n]
      BY <1>7, <2>1, <2>4, ManifestFacts DEF Claim, Total, TypeOK
    <3>2. sync.next \in 1..Total /\ n \in Names /\ n \in Listed(sync.release) /\ n # "done"
      BY <2>1, <2>4, ManifestFacts, Distinct DEF Total, TypeOK, Listed
    <3>3. /\ sync'.pc = "fetch" /\ sync'.release = sync.release /\ sync'.error = sync.error
          /\ sync'.next = sync.next + 1 /\ sync.next \in Nat
      BY <2>1, <3>1 DEF TypeOK
    <3>4. hand'[w] = n /\ \A v \in Workers \ {w} : hand'[v] = hand[v]
      BY <3>1 DEF TypeOK
    <3> HIDE DEF n
    <3>5. \A v \in Workers : hand'[v] \in Names => hand'[v] \in Listed(sync.release)
      BY <2>1, <3>2, <3>4 DEF ClaimsAccounted
    <3>6. \A v \in Workers : hand'[v] # "done"
      BY <2>1, <2>4, <3>2, <3>4, ManifestFacts DEF ClaimsAccounted, Total, TypeOK
    <3>7. ASSUME NEW i \in 1..Total, i < sync.next + 1
          PROVE  \/ <<Manifest[sync.release][i], sync.release>> \in staged
                 \/ \E v \in Workers : hand'[v] = Manifest[sync.release][i]
      <4>1. CASE i = sync.next
        BY <3>4, <4>1 DEF n
      <4>2. CASE i # sync.next
        <5>1. Manifest[sync.release][i] \in Names /\ i < sync.next
          BY <2>1, <3>3, <3>7, <4>2, ManifestFacts DEF Total
        <5>2. \A v \in Workers : hand[v] = Manifest[sync.release][i] => v # w
          BY <2>1, <5>1, Distinct
        <5> QED
          BY <2>1, <2>4, <3>4, <5>1, <5>2 DEF ClaimsAccounted
      <4> QED
        BY <4>1, <4>2
    <3> QED
      BY <2>1, <2>2, <3>3, <3>5, <3>6, <3>7 DEF ClaimsAccounted, Total
  <2> QED
    BY <2>1, <2>3, <2>4, ManifestFacts DEF Total, TypeOK
<1>8. ASSUME NEW w \in Workers, FetchTool(w) PROVE ClaimsAccounted'
  <2> DEFINE n == hand[w]
  <2>1. sync.pc = "fetch" /\ UNCHANGED sync /\ n \in Names /\ n \in Listed(sync.release)
    BY <1>8 DEF FetchTool, ClaimsAccounted
  <2>2. /\ staged' = staged \cup {<<n, sync.release>>} /\ parsed' = parsed \cup {<<n, sync.release>>}
        /\ hand'[w] = None /\ \A v \in Workers \ {w} : hand'[v] = hand[v]
    BY <1>8 DEF FetchTool, TypeOK
  <2>3. None \notin Names /\ None # "done"
    BY Distinct
  <2>4. staged' \subseteq FilesOf(sync.release) /\ parsed' = staged'
    BY <2>1, <2>2 DEF ClaimsAccounted, FilesOf
  <2>5. ASSUME ~sync.error, NEW i \in 1..Total, i < sync.next
        PROVE  \/ <<Manifest[sync.release][i], sync.release>> \in staged'
               \/ \E v \in Workers : hand'[v] = Manifest[sync.release][i]
    <3>1. \/ <<Manifest[sync.release][i], sync.release>> \in staged
          \/ \E v \in Workers : hand[v] = Manifest[sync.release][i]
      BY <2>1, <2>5 DEF ClaimsAccounted
    <3> QED
      BY <2>2, <3>1
  <2>6. \A v \in Workers :
          /\ hand'[v] \in Names => hand'[v] \in Listed(sync.release)
          /\ ~sync.error /\ hand'[v] = "done" => sync.next > Total
    BY <2>1, <2>2, <2>3 DEF ClaimsAccounted
  <2> HIDE DEF n
  <2>7. sync' = sync
    BY <2>1
  <2>8. Total' = Total /\ sync'.pc = "fetch"
    BY <2>1, <2>7 DEF Total
  <2>9. \A v \in Workers : hand'[v] \in Names => hand'[v] \in Listed(sync'.release)
    BY <2>6, <2>7
  <2>10. ASSUME ~sync'.error
         PROVE  /\ \A v \in Workers : hand'[v] = "done" => sync'.next > Total'
                /\ \A i \in 1..Total' : i < sync'.next =>
                     \/ <<Manifest[sync'.release][i], sync'.release>> \in staged'
                     \/ \E v \in Workers : hand'[v] = Manifest[sync'.release][i]
    BY <2>5, <2>6, <2>7, <2>8, <2>10
  <2> QED
    BY <2>4, <2>7, <2>8, <2>9, <2>10 DEF ClaimsAccounted
<1>9. ASSUME NEW w \in Workers, ToolFails(w) PROVE ClaimsAccounted'
  <2>1. /\ sync.pc = "fetch" /\ sync'.pc = "fetch" /\ sync'.error /\ sync'.release = sync.release
        /\ UNCHANGED <<staged, parsed>>
        /\ hand'[w] = "done" /\ \A v \in Workers \ {w} : hand'[v] = hand[v]
    BY <1>9 DEF ToolFails, disk, TypeOK
  <2>2. "done" \notin Names
    BY Distinct
  <2> QED
    BY <2>1, <2>2 DEF ClaimsAccounted
<1>10. CASE sync'.pc \in {"drop", "retire", "promote", "sweep", "meta", "index"}
  BY <1>10 DEF ClaimsAccounted
<1>11. CASE Clear
  BY <1>11 DEF Clear, run, ClaimsAccounted, EmptyHands
<1>12. \/ UNCHANGED <<sync, hand, parsed, staged>> \/ Return \/ FetchManifest
       \/ PromoteManifest \/ Stage \/ (\E w \in Workers : Claim(w) \/ FetchTool(w) \/ ToolFails(w))
       \/ Clear \/ sync'.pc \in {"drop", "retire", "promote", "sweep", "meta", "index"}
  BY DEF Next, Step, vars, disk, run, Publish, Tick, Join, PromoteFails, WriteIndex, Goto, TypeOK,
         IndexFails, Refuse, Break, ReadIndex, ReadMeta, OpenDir, ReadFile, NothingToRead,
         DropRetired, Retire, Promote, Sweep, WriteMeta
<1> QED
  BY <1>1, <1>2, <1>4, <1>5, <1>6, <1>7, <1>8, <1>9, <1>10, <1>11, <1>12

(* When all threads are done without an error, all tools are there.            *)
LEMMA PoolFinishes ==
  ASSUME TypeOK, SwapPlaces, ClaimsAccounted, At("fetch"), WorkersDone, ~sync.error
  PROVE  staged = FilesOf(sync.release) /\ parsed = FilesOf(sync.release)
<1>1. sync.release \in Releases
  BY DEF SwapPlaces, At
<1>2. sync.next > Total
  BY SomeWorker DEF ClaimsAccounted, WorkersDone
<1>3. ASSUME NEW i \in 1..Total
      PROVE  <<Manifest[sync.release][i], sync.release>> \in staged
  <2>1. i < sync.next /\ Manifest[sync.release][i] \in Names
    BY <1>1, <1>2, <1>3, ManifestFacts DEF Total, TypeOK
  <2>2. \A w \in Workers : hand[w] # Manifest[sync.release][i]
    BY <2>1, Distinct DEF WorkersDone
  <2> QED
    BY <1>3, <2>1, <2>2 DEF ClaimsAccounted
<1>4. FilesOf(sync.release) \subseteq staged
  BY <1>3 DEF FilesOf, Listed, Total
<1> QED
  BY <1>4 DEF ClaimsAccounted

------------------------------------------------------------------------------
(* Sets of tools are whole.                                                    *)

LEMMA SetsStep ==
  TypeOK /\ SwapPlaces /\ ClaimsAccounted /\ SetsWhole /\ [Next]_vars => SetsWhole'
<1> SUFFICES ASSUME TypeOK, SwapPlaces, ClaimsAccounted, SetsWhole, [Next]_vars
             PROVE  SetsWhole'
  OBVIOUS
<1> USE DEF At
<1>1. CASE /\ UNCHANGED <<tools, retired, index>> /\ loader'.index = loader.index
           /\ sync'.pc \in {"idle", "verify", "stage", "fetch"}
  BY <1>1 DEF SetsWhole
<1>2. CASE /\ UNCHANGED <<tools, retired, index, staged, parsed, sync>>
           /\ loader'.index \in {loader.index, index, NoIndex}
  BY <1>2 DEF SetsWhole, NoIndex
<1>3. CASE Clear
  <2>1. loader'.index = loader.index /\ index'.files = {} /\ sync'.pc = "idle"
    BY <1>3, DisturbOnlyMarks DEF Clear, NoIndex, run
  <2> QED
    BY <1>3, <2>1 DEF Clear, SetsWhole
<1>4. CASE Stage
  BY <1>4 DEF Stage, Goto, TypeOK, SetsWhole
<1>5. CASE Join /\ ~sync.error
  BY <1>5, PoolFinishes DEF Join, Goto, TypeOK, SetsWhole, disk
<1>6. CASE DropRetired
  BY <1>6 DEF DropRetired, Goto, TypeOK, SetsWhole
<1>7. CASE Retire
  BY <1>7, DisturbOnlyMarks DEF Retire, Goto, TypeOK, SetsWhole
<1>8. CASE Promote
  <2>1. sync.release \in Releases /\ staged = FilesOf(sync.release)
    BY <1>8 DEF Promote, SwapPlaces, SetsWhole
  <2> QED
    BY <1>8, <2>1, ManifestFacts, DisturbOnlyMarks DEF Promote, Goto, TypeOK, SetsWhole
<1>9. CASE PromoteFails
  <2>1. sync'.pc = "idle" /\ loader'.index = loader.index /\ index' = index
    BY <1>9, DisturbOnlyMarks DEF PromoteFails, Return, Idle
  <2> QED
    BY <1>9, <2>1 DEF PromoteFails, SetsWhole
<1>10. CASE Sweep
  BY <1>10 DEF Sweep, Goto, TypeOK, SetsWhole
<1>11. CASE WriteMeta
  BY <1>11 DEF WriteMeta, Goto, TypeOK, SetsWhole
<1>12. CASE WriteIndex
  <2>1. index'.files = parsed /\ parsed \in Whole
    BY <1>12, ManifestFacts DEF WriteIndex, SwapPlaces, SetsWhole
  <2>2. sync'.pc = "idle"
    BY <1>12 DEF WriteIndex, Return, Idle
  <2> QED
    BY <1>12, <2>1, <2>2 DEF WriteIndex, SetsWhole
<1>13. CASE IndexFails
  <2>1. index'.files \in {index.files, {}} /\ sync'.pc = "idle"
    BY <1>13 DEF IndexFails, NoIndex, Return, Idle
  <2> QED
    BY <1>13, <2>1 DEF IndexFails, SetsWhole
<1>14. CASE FetchManifest
  BY <1>1, <1>14 DEF FetchManifest, Idle, disk
<1>15. CASE PromoteManifest
  BY <1>1, <1>15 DEF PromoteManifest, Goto, TypeOK
<1>16. ASSUME NEW w \in Workers, Claim(w) \/ FetchTool(w) \/ ToolFails(w) PROVE SetsWhole'
  BY <1>1, <1>16 DEF Claim, FetchTool, ToolFails, disk, TypeOK
<1>17. CASE (Join /\ sync.error) \/ Refuse \/ Break
  BY <1>1, <1>17 DEF Join, Refuse, Break, Return, Idle, disk
<1>18. CASE Publish \/ Tick \/ UNCHANGED vars \/ ReadIndex \/ ReadMeta \/ OpenDir \/ ReadFile \/ NothingToRead
  <2>1. UNCHANGED <<tools, retired, index, staged, parsed, sync>>
    BY <1>18 DEF Publish, Tick, vars, ReadIndex, ReadMeta, OpenDir, ReadFile, NothingToRead, disk, run
  <2>2. loader'.index \in {loader.index, index, NoIndex}
    <3>1. CASE Publish \/ Tick \/ UNCHANGED vars
      BY <3>1 DEF Publish, Tick, vars
    <3>2. CASE ReadIndex
      BY <3>2 DEF ReadIndex
    <3>3. CASE ReadMeta
      BY <3>3 DEF ReadMeta, TypeOK
    <3>4. CASE OpenDir
      BY <3>4 DEF OpenDir, TypeOK
    <3>5. CASE ReadFile
      <4>1. PICK n \in loader.left :
              loader' = [loader EXCEPT
                !.left = @ \ {n},
                !.seen = With(@, IF tools = NoDir THEN {} ELSE {f \in tools : f[1] = n}),
                !.pc = IF loader.left = {n} THEN "done" ELSE "walk"]
        BY <3>5 DEF ReadFile
      <4> QED
        BY <4>1 DEF TypeOK
    <3>6. CASE NothingToRead
      BY <3>6 DEF NothingToRead, TypeOK
    <3> QED
      BY <1>18, <3>1, <3>2, <3>3, <3>4, <3>5, <3>6
  <2> QED
    BY <1>2, <2>1, <2>2
<1> QED
  BY <1>3, <1>4, <1>5, <1>6, <1>7, <1>8, <1>9, <1>10, <1>11, <1>12, <1>13, <1>14, <1>15,
     <1>16, <1>17, <1>18 DEF Next, Step

------------------------------------------------------------------------------
(* The loader.                                                                 *)

LEMMA LoaderStep ==
  TypeOK /\ SwapPlaces /\ SetsWhole /\ WalkExact /\ LoadsOneRelease /\ [Next]_vars
    => WalkExact' /\ LoadsOneRelease'
<1> SUFFICES ASSUME TypeOK, SwapPlaces, SetsWhole, WalkExact, LoadsOneRelease, [Next]_vars
             PROVE  WalkExact' /\ LoadsOneRelease'
  OBVIOUS
<1>1. CASE UNCHANGED <<tools, loader>>
  BY <1>1 DEF WalkExact, LoadsOneRelease
<1>2. CASE Disturb
  BY <1>2, DisturbOnlyMarks DEF WalkExact, LoadsOneRelease
<1>3. CASE Stage
  <2>1. tools' = tools \/ tools = NoDir
    BY <1>3 DEF Stage
  <2>2. tools' # NoDir
    BY <1>3, DirectoriesExist DEF Stage
  <2>3. UNCHANGED loader
    BY <1>3 DEF Stage
  <2> QED
    BY <2>1, <2>2, <2>3 DEF WalkExact, LoadsOneRelease
<1>4. CASE ReadIndex
  BY <1>4 DEF ReadIndex, WalkExact, LoadsOneRelease
<1>5. CASE ReadMeta
  <2>1. loader.pc = "meta" /\ tools' = tools
    BY <1>5 DEF ReadMeta, disk
  <2>2. CASE Trusted(loader.index)
    <3>1. PICK S \in Loads(loader.index.files) :
            loader' = [loader EXCEPT !.pc = "done", !.seen = S, !.mixed = FALSE,
                                     !.index = NoIndex]
      BY <1>5, <2>2 DEF ReadMeta
    <3>2. loader'.pc = "done" /\ loader'.seen = S
      BY <3>1 DEF TypeOK
    <3>3. S = {} \/ \E r \in Releases : S \in Loads(FilesOf(r))
      BY LoadsRelease DEF SetsWhole
    <3> QED
      BY <3>2, <3>3 DEF WalkExact, LoadsOneRelease
  <2>3. CASE ~Trusted(loader.index)
    <3>1. loader' = [loader EXCEPT !.pc = "open", !.index = NoIndex]
      BY <1>5, <2>3 DEF ReadMeta
    <3>2. loader'.pc = "open" /\ loader'.seen = loader.seen
      BY <3>1 DEF TypeOK
    <3> QED
      BY <2>1, <3>2 DEF WalkExact, LoadsOneRelease
  <2> QED
    BY <2>2, <2>3
<1>6. CASE OpenDir
  <2>1. CASE tools = NoDir
    BY <1>6, <2>1 DEF OpenDir, TypeOK, WalkExact, LoadsOneRelease
  <2>2. CASE tools # NoDir
    <3>1. loader' = [loader EXCEPT !.pc = "walk", !.left = NamesIn(tools), !.mixed = FALSE]
      BY <1>6, <2>2 DEF OpenDir
    <3>2. tools' = tools /\ loader'.pc = "walk" /\ loader'.left = NamesIn(tools) /\ loader'.seen = {}
      BY <1>6, <3>1 DEF OpenDir, disk, TypeOK, WalkExact
    <3>3. {f \in tools : f[1] \notin NamesIn(tools)} = {}
      BY DEF NamesIn
    <3> QED
      BY <2>2, <3>2, <3>3, LoadsNothing DEF WalkExact, LoadsOneRelease
  <2> QED
    BY <2>1, <2>2
<1>7. CASE ReadFile
  <2>1. PICK n \in loader.left :
          loader' = [loader EXCEPT
            !.left = @ \ {n},
            !.seen = With(@, IF tools = NoDir THEN {} ELSE {f \in tools : f[1] = n}),
            !.pc = IF loader.left = {n} THEN "done" ELSE "walk"]
    BY <1>7 DEF ReadFile
  <2> DEFINE read == IF tools = NoDir THEN {} ELSE {f \in tools : f[1] = n}
             done == {f \in tools : f[1] \notin loader.left}
  <2>2. /\ loader.pc = "walk" /\ tools' = tools /\ loader'.mixed = loader.mixed
        /\ loader'.left = loader.left \ {n} /\ n \in Names
        /\ loader'.pc = IF loader.left = {n} THEN "done" ELSE "walk"
        /\ loader'.seen = With(loader.seen, read)
    BY <1>7, <2>1 DEF ReadFile, disk, TypeOK
  <2>3. CASE loader.mixed
    BY <2>2, <2>3 DEF WalkExact, LoadsOneRelease
  <2>4. CASE ~loader.mixed
    <3>1. tools # NoDir /\ loader.seen \in Loads(done)
      BY <2>2, <2>4 DEF WalkExact
    <3>2. tools \in Whole \cup {{}} /\ read = {f \in tools : f[1] = n}
      BY <3>1 DEF SetsWhole
    <3>3. read = {} \/ \E f : read = {f}
      BY <2>2, <3>2, OneFileEach
    <3>4. done \cup read = {f \in tools : f[1] \notin loader'.left}
      BY <2>2, <3>2
    <3>5. loader.left = {n} => done \cup read = tools
      BY <3>2
    <3> HIDE DEF done, read
    <3>6. loader'.seen \in Loads(done \cup read)
      <4>1. \A S \in Loads(done) : With(S, read) \in Loads(done \cup read)
        BY <3>3, LoadsOneMore, Zenon
      <4> QED
        BY <2>2, <3>1, <4>1
    <3>7. loader.left = {n} => loader'.seen = {} \/ \E r \in Releases : loader'.seen \in Loads(FilesOf(r))
      BY <3>2, <3>5, <3>6, LoadsRelease
    <3> QED
      BY <2>2, <3>1, <3>4, <3>6, <3>7 DEF WalkExact, LoadsOneRelease
  <2> QED
    BY <2>3, <2>4
<1>8. CASE NothingToRead
  <2>1. loader.pc = "walk" /\ loader.left = {} /\ loader' = [loader EXCEPT !.pc = "done"]
    BY <1>8 DEF NothingToRead
  <2>2. loader'.pc = "done" /\ loader'.seen = loader.seen /\ loader'.mixed = loader.mixed
    BY <2>1 DEF TypeOK
  <2>3. ASSUME ~loader.mixed
        PROVE  loader.seen = {} \/ \E r \in Releases : loader.seen \in Loads(FilesOf(r))
    <3>1. tools \in Whole \cup {{}} /\ loader.seen \in Loads({f \in tools : f[1] \notin loader.left})
      BY <2>1, <2>3 DEF WalkExact, SetsWhole
    <3>2. {f \in tools : f[1] \notin loader.left} = tools
      BY <2>1
    <3> QED
      BY <3>1, <3>2, LoadsRelease
  <2> QED
    BY <2>2, <2>3 DEF WalkExact, LoadsOneRelease
<1>9. UNCHANGED <<tools, loader>> \/ Disturb \/ Stage \/ ReadIndex \/ ReadMeta \/ OpenDir
      \/ ReadFile \/ NothingToRead
  BY DEF Next, Step, vars, disk, Publish, Tick, Clear, FetchManifest, PromoteManifest, Claim,
         FetchTool, ToolFails, Join, DropRetired, Retire, Promote, PromoteFails, Sweep,
         WriteMeta, WriteIndex, IndexFails, Refuse, Break
<1> QED
  BY <1>1, <1>2, <1>3, <1>4, <1>5, <1>6, <1>7, <1>8, <1>9

------------------------------------------------------------------------------
(* What startups find.                                                         *)

LEMMA SwappedInStep ==
  TypeOK /\ SwapPlaces /\ SetsWhole /\ SwappedIn /\ [Next]_vars => SwappedIn'
<1> SUFFICES ASSUME TypeOK, SwapPlaces, SetsWhole, SwappedIn, [Next]_vars PROVE SwappedIn'
  OBVIOUS
<1> USE DEF At
<1>1. CASE UNCHANGED <<index, meta, tools, sync>>
  BY <1>1 DEF SwappedIn
<1>2. CASE index' = index /\ sync'.pc \notin {"sweep", "meta", "index"}
  BY <1>2 DEF SwappedIn
<1>3. CASE Clear
  BY <1>3 DEF Clear, NoIndex, run, SwappedIn
<1>4. CASE Promote
  BY <1>4 DEF Promote, Goto, TypeOK, SetsWhole, SwappedIn
<1>5. CASE Sweep
  BY <1>5 DEF Sweep, Goto, TypeOK, SwappedIn
<1>6. CASE WriteMeta
  <2>1. meta' # 0
    BY <1>6 DEF WriteMeta, TypeOK
  <2> QED
    BY <1>6, <2>1 DEF WriteMeta, Goto, TypeOK, SwappedIn
<1>7. CASE WriteIndex
  <2>1. index'.files \in Whole
    BY <1>7, ManifestFacts DEF WriteIndex, SetsWhole, SwapPlaces
  <2>2. sync'.pc = "idle"
    BY <1>7 DEF WriteIndex, Return, Idle
  <2> QED
    BY <2>1, <2>2 DEF SwappedIn
<1>8. CASE IndexFails
  <2>1. index' = index \/ index'.stamp = 0
    BY <1>8 DEF IndexFails, NoIndex
  <2>2. sync'.pc = "idle"
    BY <1>8 DEF IndexFails, Return, Idle
  <2> QED
    BY <2>1, <2>2 DEF SwappedIn
<1>9. \/ UNCHANGED <<index, meta, tools, sync>>
      \/ index' = index /\ sync'.pc \notin {"sweep", "meta", "index"}
      \/ Clear \/ Promote \/ Sweep \/ WriteMeta \/ WriteIndex \/ IndexFails
  <2>1. CASE Publish \/ Tick \/ UNCHANGED vars \/ ReadIndex \/ ReadMeta \/ OpenDir \/ ReadFile
             \/ NothingToRead
    <3>1. CASE Publish \/ Tick \/ UNCHANGED vars
      BY <3>1 DEF Publish, Tick, vars, disk, run
    <3>2. CASE ReadIndex \/ ReadMeta \/ OpenDir \/ ReadFile \/ NothingToRead
      BY <3>2 DEF disk, run, ReadIndex, ReadMeta, OpenDir, ReadFile, NothingToRead
    <3> QED
      BY <2>1, <3>1, <3>2
  <2>2. CASE FetchManifest \/ PromoteManifest \/ Stage \/ DropRetired \/ Retire
    <3>1. CASE FetchManifest \/ PromoteManifest \/ Stage
      BY <3>1 DEF FetchManifest, PromoteManifest, Stage, Idle, Goto, disk, TypeOK
    <3>2. CASE DropRetired \/ Retire
      BY <3>2 DEF DropRetired, Retire, Goto, disk, TypeOK
    <3> QED
      BY <2>2, <3>1, <3>2
  <2>3. ASSUME NEW w \in Workers, Claim(w) \/ FetchTool(w) \/ ToolFails(w)
        PROVE  index' = index /\ sync'.pc \notin {"sweep", "meta", "index"}
    BY <2>3 DEF Claim, FetchTool, ToolFails, disk, TypeOK
  <2>4. CASE Join \/ PromoteFails \/ Refuse \/ Break
    BY <2>4 DEF Join, PromoteFails, Refuse, Break, Return, Goto, Idle, disk, TypeOK
  <2> QED
    BY <2>1, <2>2, <2>3, <2>4 DEF Next, Step
<1> QED
  BY <1>1, <1>2, <1>3, <1>4, <1>5, <1>6, <1>7, <1>8, <1>9

LEMMA OneIsEnoughStep ==
  TypeOK /\ SwapPlaces /\ SetsWhole /\ SwappedIn /\ OneIsEnough /\ [Next]_vars => OneIsEnough'
<1> SUFFICES ASSUME TypeOK, SwapPlaces, SetsWhole, SwappedIn, OneIsEnough, [Next]_vars
             PROVE  OneIsEnough'
  OBVIOUS
<1> DEFINE early == {"idle", "verify", "stage", "fetch"}
<1> USE DEF At
<1>1. CASE UNCHANGED <<tools, index, meta, complete, faults, sync>>
  BY <1>1 DEF OneIsEnough
<1>2. CASE /\ UNCHANGED <<index, meta, complete, faults>> /\ (tools' = tools \/ tools = NoDir)
           /\ sync.pc \in early /\ (sync'.pc \in early \/ sync'.pc = "drop")
  <2>1. tools \in Whole => tools # NoDir
    BY DirectoriesExist
  <2> QED
    BY <1>2, <2>1 DEF OneIsEnough
<1>3. CASE Clear
  BY <1>3 DEF Clear, OneIsEnough
<1>4. CASE Retire \/ DropRetired
  BY <1>4 DEF Retire, DropRetired, Goto, history, OneIsEnough, TypeOK
<1>5. CASE Promote
  <2>1. tools' \in Whole
    BY <1>5, ManifestFacts DEF Promote, SetsWhole, SwapPlaces
  <2> QED
    BY <1>5, <2>1 DEF Promote, Goto, history, OneIsEnough, TypeOK
<1>6. CASE Sweep \/ WriteMeta
  BY <1>6 DEF Sweep, WriteMeta, Goto, history, OneIsEnough, TypeOK
<1>7. CASE WriteIndex
  <2>1. index'.stamp = meta' /\ meta' # 0 /\ faults' = 0 /\ sync'.pc = "idle"
    BY <1>7 DEF WriteIndex, SwappedIn, Return, Idle
  <2>2. tools' \in Whole
    BY <1>7, ManifestFacts DEF WriteIndex, SwappedIn, SwapPlaces
  <2> QED
    BY <2>1, <2>2 DEF OneIsEnough
<1>8. CASE IndexFails
  <2>1. tools' \in Whole
    BY <1>8, ManifestFacts DEF IndexFails, SwappedIn, SwapPlaces
  <2>2. faults' # 0
    BY <1>8, BoundsAreNumbers DEF IndexFails, TypeOK
  <2> QED
    BY <2>1, <2>2 DEF OneIsEnough
<1>9. CASE PromoteFails \/ Break
  <2>1. UNCHANGED <<index, meta, complete>> /\ faults' = faults + 1 /\ faults \in Nat
    BY <1>9, BoundsAreNumbers DEF PromoteFails, Break, disk, TypeOK
  <2>2. ASSUME complete, faults = 0
        PROVE  tools' \in Whole \/ (index'.stamp # 0 /\ index'.stamp = meta')
    <3>1. CASE At("index")
      <4>1. tools \in Whole /\ tools' = tools
        BY <1>9, <2>2, <3>1 DEF PromoteFails, Break, disk, OneIsEnough
      <4> QED
        BY <4>1
    <3>2. CASE ~At("index")
      BY <2>1, <2>2, <3>2 DEF OneIsEnough
    <3> QED
      BY <3>1, <3>2
  <2>3. complete' /\ faults' = 1 => complete /\ faults = 0
    BY <2>1
  <2>4. faults' # 0
    BY <2>1
  <2> QED
    BY <2>2, <2>3, <2>4 DEF OneIsEnough
<1>10. CASE FetchManifest \/ PromoteManifest \/ Stage \/ Join \/ Refuse
  <2>1. UNCHANGED <<index, meta, complete, faults>> /\ (tools' = tools \/ tools = NoDir)
    BY <1>10 DEF FetchManifest, PromoteManifest, Stage, Join, Refuse, disk, history
  <2>2. sync.pc \in early /\ (sync'.pc \in early \/ sync'.pc = "drop")
    <3>1. CASE FetchManifest
      BY <3>1 DEF FetchManifest, Idle
    <3>2. CASE PromoteManifest \/ Stage
      BY <3>2 DEF PromoteManifest, Stage, Goto, TypeOK
    <3>3. CASE Join \/ Refuse
      BY <3>3 DEF Join, Refuse, Goto, Return, Idle, TypeOK
    <3> QED
      BY <1>10, <3>1, <3>2, <3>3
  <2> QED
    BY <1>2, <2>1, <2>2
<1>11. ASSUME NEW w \in Workers, Claim(w) \/ FetchTool(w) \/ ToolFails(w) PROVE OneIsEnough'
  BY <1>2, <1>11 DEF Claim, FetchTool, ToolFails, disk, history, TypeOK
<1>12. CASE Publish \/ Tick \/ UNCHANGED vars \/ ReadIndex \/ ReadMeta \/ OpenDir \/ ReadFile
            \/ NothingToRead
  BY <1>1, <1>12 DEF Publish, Tick, vars, disk, run, history, ReadIndex, ReadMeta, OpenDir,
                     ReadFile, NothingToRead
<1> QED
  BY <1>3, <1>4, <1>5, <1>6, <1>7, <1>8, <1>9, <1>10, <1>11, <1>12 DEF Next, Step

LEMMA ResultStep ==
  TypeOK /\ SwapPlaces /\ SetsWhole /\ SwappedIn /\ NoResultYet /\ SuccessIsVisible /\ [Next]_vars
    => NoResultYet' /\ SuccessIsVisible'
<1> SUFFICES ASSUME TypeOK, SwapPlaces, SetsWhole, SwappedIn, NoResultYet, SuccessIsVisible,
                    [Next]_vars
             PROVE  NoResultYet' /\ SuccessIsVisible'
  OBVIOUS
<1> USE DEF At
<1>1. CASE UNCHANGED <<tools, index, meta, faults, last, sync>>
  BY <1>1 DEF NoResultYet, SuccessIsVisible, Loadable, Offered, Trusted
<1>2. CASE last' = None
  BY <1>2 DEF NoResultYet, SuccessIsVisible
<1>3. CASE sync.pc # "idle" /\ last' = last
  BY <1>2, <1>3 DEF NoResultYet
<1>4. CASE WriteIndex
  <2>1. /\ index'.files = FilesOf(sync.release) /\ tools' = FilesOf(sync.release)
        /\ last' = sync.release /\ sync'.pc = "idle" /\ sync.release \in Releases
    BY <1>4 DEF WriteIndex, SwappedIn, SwapPlaces, SetsWhole, Return, Idle
  <2>2. Offered' = FilesOf(last')
    BY <2>1, ManifestFacts, DirectoriesExist DEF Offered
  <2>3. Loadable' = Loads(FilesOf(last'))
    BY <2>2 DEF Loadable
  <2> QED
    BY <2>1, <2>3 DEF NoResultYet, SuccessIsVisible
<1>5. CASE IndexFails
  <2>1. /\ tools' = FilesOf(sync.release) /\ last' = sync.release /\ sync'.pc = "idle"
        /\ sync.release \in Releases
    BY <1>5 DEF IndexFails, SwappedIn, SwapPlaces, Return, Idle
  <2>2. tools' # NoDir
    BY <2>1, ManifestFacts, DirectoriesExist
  <2>3. faults' > 0
    BY <1>5, BoundsAreNumbers DEF IndexFails, TypeOK
  <2>4. index'.stamp # meta' => Loadable' = Loads(FilesOf(last'))
    BY <2>1, <2>2 DEF Loadable, Offered, Trusted
  <2>5. index'.stamp = 0 => Loadable' = Loads(FilesOf(last'))
    BY <2>1, <2>2 DEF Loadable, Offered, Trusted
  <2> QED
    BY <2>1, <2>3, <2>4, <2>5 DEF NoResultYet, SuccessIsVisible
<1>6. \/ UNCHANGED <<tools, index, meta, faults, last, sync>>
      \/ last' = None
      \/ sync.pc # "idle" /\ last' = last
      \/ WriteIndex \/ IndexFails
  <2>1. CASE Publish \/ Tick \/ UNCHANGED vars \/ ReadIndex \/ ReadMeta \/ OpenDir \/ ReadFile
             \/ NothingToRead
    BY <2>1 DEF Publish, Tick, vars, disk, run, history, ReadIndex, ReadMeta, OpenDir, ReadFile,
                NothingToRead
  <2>2. CASE Clear \/ FetchManifest
    BY <2>2 DEF Clear, FetchManifest
  <2>3. CASE PromoteManifest \/ Stage \/ Join \/ DropRetired \/ Retire \/ Promote \/ PromoteFails
             \/ Sweep \/ WriteMeta \/ Refuse \/ Break
    BY <2>3 DEF PromoteManifest, Stage, Join, DropRetired, Retire, Promote, PromoteFails, Sweep,
                WriteMeta, Refuse, Break, history
  <2>4. ASSUME NEW w \in Workers, Claim(w) \/ FetchTool(w) \/ ToolFails(w)
        PROVE  sync.pc # "idle" /\ last' = last
    BY <2>4 DEF Claim, FetchTool, ToolFails, history
  <2> QED
    BY <2>1, <2>2, <2>3, <2>4 DEF Next, Step
<1> QED
  BY <1>1, <1>2, <1>3, <1>4, <1>5, <1>6

(* The release that startups find: in the index, or else in tools/.             *)
LEMMA EnoughIsAvailable == TypeOK /\ SwappedIn /\ SwapPlaces /\ OneIsEnough => ToolsStayAvailable
<1> SUFFICES ASSUME TypeOK, SwappedIn, SwapPlaces, OneIsEnough, complete,
                    \/ faults = 0 /\ ~At("promote")
                    \/ /\ Accepted(index.files) = index.files
                       /\ faults = 0 \/ (faults = 1 /\ sync.pc = "idle")
             PROVE  \E r \in Releases : Loadable = Loads(FilesOf(r))
  BY DEF ToolsStayAvailable
<1>1. Offered \in Whole
  <2>1. CASE Trusted(index)
    BY <2>1 DEF Offered, Trusted, SwappedIn
  <2>2. CASE ~Trusted(index)
    <3>1. tools \in Whole
      BY <2>2 DEF OneIsEnough, Trusted, At
    <3> QED
      BY <2>2, <3>1, DirectoriesExist DEF Offered
  <2> QED
    BY <2>1, <2>2
<1> QED
  BY <1>1 DEF Loadable, Whole

------------------------------------------------------------------------------
(* The theorems.                                                               *)

LEMMA InitHolds == Init => IInv
<1> SUFFICES ASSUME Init PROVE IInv
  OBVIOUS
<1>1. /\ sync.pc = "idle" /\ sync.next = 1 /\ ~sync.error /\ hand = EmptyHands /\ parsed = {}
      /\ loader.pc = "done" /\ loader.seen = {} /\ loader.index.files = {}
      /\ index.files = {} /\ tools = NoDir /\ retired = NoDir
  BY DEF Init, Idle, NoIndex
<1>2. SwapPlaces /\ ClaimsAccounted
  BY <1>1 DEF SwapPlaces, ClaimsAccounted, At
<1>3. SetsWhole /\ WalkExact /\ LoadsOneRelease
  BY <1>1 DEF SetsWhole, WalkExact, LoadsOneRelease, At
<1>4. SwappedIn /\ OneIsEnough /\ NoResultYet /\ SuccessIsVisible
  BY <1>1 DEF Init, NoIndex, SwappedIn, OneIsEnough, NoResultYet, SuccessIsVisible, At
<1> QED
  BY <1>2, <1>3, <1>4, TypeInit DEF IInv

LEMMA StepKeeps == IInv /\ [Next]_vars => IInv'
BY TypeStep, SwapPlacesStep, ClaimsStep, SetsStep, LoaderStep, SwappedInStep, OneIsEnoughStep,
   ResultStep DEF IInv

(* IInv is an inductive invariant of the sync beside the loader (sync.rs,       *)
(* cache.rs, plugins.rs).                                                      *)
THEOREM Invariance == Spec => []IInv
<1> QED
  BY InitHolds, StepKeeps, PTL DEF Spec

(* The files of the cache and the state of a sync have their types, whatever    *)
(* fails (sync.rs, cache.rs).                                                  *)
THEOREM TypeCorrect == Spec => []TypeOK
<1>1. IInv => TypeOK
  BY DEF IInv
<1> QED
  BY <1>1, Invariance, PTL

(* A startup that is not disturbed while it walks tools/ loads one release, less *)
(* the files that it rejects and all but one of those that name the same tool,    *)
(* or nothing (plugins.rs, load_user_tools, try_load_remote_index,                *)
(* load_tools_from_dir).                                                          *)
THEOREM StartupsLoadOneRelease == Spec => []LoadsOneRelease
<1>1. IInv => LoadsOneRelease
  BY DEF IInv
<1> QED
  BY <1>1, Invariance, PTL

(* Once a sync has written everything, startups find what they accept of one      *)
(* release at any time but between the two renames of a swap; there, too, and      *)
(* after one fault, as long as the loader rejects no entry of the index: a single  *)
(* one makes the index useless (sync.rs, the order of the swap, meta.json and      *)
(* index.json; plugins.rs:345-354).                                                *)
THEOREM AlwaysARelease == Spec => []ToolsStayAvailable
<1>1. IInv => ToolsStayAvailable
  BY EnoughIsAvailable DEF IInv
<1> QED
  BY <1>1, Invariance, PTL

(* After a sync that reports success startups load what they accept of its         *)
(* release, but for the index of a sync in the same second (sync.rs, plugins.rs):  *)
(* not all that was synced, as a sync does not look at what the loader looks at.   *)
THEOREM SuccessIsSeen == Spec => []SuccessIsVisible
<1>1. IInv => SuccessIsVisible
  BY DEF IInv
<1> QED
  BY <1>1, Invariance, PTL

(* Whatever fails and whenever a sync is killed, it replaces whole sets of      *)
(* tools in one step: RegistrySync implements ActiveSet (cache.rs,             *)
(* swap_staging_into_tools_dir).                                               *)
THEOREM SyncImplementsActiveSet == Spec => ReplacesWholeSets
<1> DEFINE set == CASE tools # NoDir -> tools
                    [] tools = NoDir /\ retired # NoDir -> retired
                    [] OTHER -> {}
           seen == tools # NoDir
<1>1. Init => Active!Init
  BY DEF Init, Active!Init
<1>2. IInv /\ IInv' /\ [Next]_vars => [Active!Next]_<<set, seen>>
  <2> SUFFICES ASSUME IInv, IInv', [Next]_vars PROVE [Active!Next]_<<set, seen>>
    OBVIOUS
  <2> USE DEF At
  <2>1. /\ tools # NoDir => set = tools
        /\ tools = NoDir /\ retired # NoDir => set = retired
        /\ tools = NoDir /\ retired = NoDir => set = {}
    OBVIOUS
  <2>2. /\ tools' # NoDir => set' = tools'
        /\ tools' = NoDir /\ retired' # NoDir => set' = retired'
        /\ tools' = NoDir /\ retired' = NoDir => set' = {}
    OBVIOUS
  <2>3. (seen <=> tools # NoDir) /\ (seen' <=> tools' # NoDir)
    OBVIOUS
  <2>4. \/ UNCHANGED <<tools, retired>> \/ Clear \/ Stage \/ DropRetired \/ Retire \/ Promote
        \/ PromoteFails \/ Sweep
    BY DEF Next, Step, vars, disk, Publish, Tick, FetchManifest, PromoteManifest, Claim,
           FetchTool, ToolFails, Join, WriteMeta, WriteIndex, IndexFails, Refuse, Break,
           ReadIndex, ReadMeta, OpenDir, ReadFile, NothingToRead
  <2>5. /\ Active!Hide <=> seen /\ ~seen' /\ set' = set
        /\ \A r \in Releases : Active!Replace(r) <=> ~seen /\ seen' /\ set' = FilesOf(r)
        /\ Active!Restore <=> ~seen /\ seen' /\ set' = set
        /\ Active!Forget <=> ~seen /\ set' = {}
        /\ Active!Clear <=> set' = {} /\ ~seen'
    BY DEF Active!Hide, Active!Replace, Active!Restore, Active!Forget, Active!Clear
  <2>6. \/ (seen' <=> seen) /\ set' = set
        \/ seen /\ ~seen' /\ set' = set
        \/ \E r \in Releases : ~seen /\ seen' /\ set' = FilesOf(r)
        \/ ~seen /\ seen' /\ set' = set
        \/ ~seen /\ set' = {}
        \/ set' = {} /\ ~seen'
    <3> HIDE DEF set, seen
    <3>1. CASE UNCHANGED <<tools, retired>>
      BY <2>1, <2>2, <2>3, <3>1
    <3>2. CASE Clear
      BY <2>2, <2>3, <3>2 DEF Clear
    <3>3. CASE Stage
      <4>1. (tools' = tools /\ tools # NoDir) \/ (tools = NoDir /\ tools' = {} /\ tools' # NoDir)
        BY <3>3, DirectoriesExist DEF Stage
      <4> QED
        BY <2>1, <2>2, <2>3, <4>1
    <3>4. CASE DropRetired \/ Sweep
      <4>1. tools' = tools /\ tools # NoDir
        BY <3>4 DEF DropRetired, Sweep, IInv, SwapPlaces
      <4> QED
        BY <2>1, <2>2, <2>3, <4>1
    <3>5. CASE Retire
      <4>1. tools # NoDir /\ tools' = NoDir /\ retired' = tools
        BY <3>5 DEF Retire, IInv, SwapPlaces
      <4> QED
        BY <2>1, <2>2, <2>3, <4>1
    <3>6. CASE Promote
      <4>1. /\ tools = NoDir /\ sync.release \in Releases
            /\ tools' = FilesOf(sync.release)
        BY <3>6 DEF Promote, IInv, SwapPlaces, SetsWhole
      <4>2. tools' # NoDir
        BY <4>1, ManifestFacts, DirectoriesExist
      <4> QED
        BY <2>2, <2>3, <4>1, <4>2
    <3>7. CASE PromoteFails
      <4>1. /\ tools = NoDir /\ retired # NoDir
            /\ tools' = retired \/ UNCHANGED <<tools, retired>>
        BY <3>7 DEF PromoteFails, IInv, SwapPlaces
      <4> QED
        BY <2>1, <2>2, <2>3, <4>1
    <3> QED
      BY <2>4, <3>1, <3>2, <3>3, <3>4, <3>5, <3>6, <3>7
  <2>7. (seen' <=> seen) => seen' = seen
    OBVIOUS
  <2> HIDE DEF set, seen
  <2> QED
    BY <2>5, <2>6, <2>7 DEF Active!Next
<1> QED
  BY <1>1, <1>2, Invariance, PTL DEF Spec, ReplacesWholeSets, Active!Spec
==============================================================================
