------------------------- MODULE PackageBuild_proofs -------------------------
(* What the staging directory holds, for any packages and any number of     *)
(* makes, edits and interruptions, and what a make that succeeds has made    *)
(* and a further one leaves alone.                                          *)
EXTENDS PackageBuild, FiniteSetTheorems, TLAPS

\* The parts of TypeOK.
SourcesOK ==
    /\ src \in [Pkg -> [ver : Nat, list : 0..1, abi : Nat, time : Nat]]
    /\ option \in [Pkg -> Value]
StampsOK ==
    /\ prepared \in [Pkg -> [list : 0..1, time : Nat]]
    /\ configured \in [Pkg -> [Conf -> Nat]]
    /\ built \in [Pkg -> Nat] /\ installed \in [Pkg -> Nat]
BuiltOK ==
    /\ tree \in [Pkg -> Tree]
    /\ ipk \in [Pkg -> [obj : Object, time : Nat]]
    /\ version \in [Pkg -> [abi : Nat, time : Nat]]
StagedOK ==
    /\ listed \in [Pkg -> SUBSET FileName]
    /\ staged \in [Pkg -> SUBSET File]
JobOK ==
    /\ job \in [pc : Steps, todo : Seq(Pkg), list : 0..1, conf : Conf, dirty : BOOLEAN]
    /\ job.pc = "idle" <=> job.todo = << >>
ClockOK == now \in Nat
CountsOK == quiet \in BOOLEAN /\ {edits, aborts, makes} \subseteq Nat
GoneOK ==
    \A p \in Pkg : tree[p].time = 0 =>
        prepared[p].time = 0 /\ configured[p] = NoConfigured /\ built[p] = 0

\* There is a build directory from the unpacking on.
Unpacked ==
    /\ At("prepared") => tree[P].time # 0
    /\ job.pc \in {"clean", "unstage", "configure", "oldconf", "configured", "compile", "built"} =>
          prepared[P].time # 0

TInv == /\ SourcesOK /\ StampsOK /\ BuiltOK /\ StagedOK /\ JobOK
        /\ ClockOK /\ CountsOK /\ GoneOK /\ Unpacked

-----------------------------------------------------------------------------
\* While a make runs there is a package it works on.
LEMMA Present ==
    ASSUME JobOK, job.pc # "idle"
    PROVE  P \in Pkg /\ job.todo # << >> /\ Tail(job.todo) \in Seq(Pkg)
BY DEF JobOK, P

\* A write takes a later time.
LEMMA Later ==
    ASSUME ClockOK, Write PROVE now' \in Nat /\ now < now'
BY DEF ClockOK, Write

\* Seconds pass in the order of time.
LEMMA SecMonotone ==
    ASSUME NEW a \in Nat, NEW b \in Nat, a <= b
    PROVE  Sec(a) \in Nat /\ Sec(b) \in Nat /\ Sec(a) <= Sec(b)
BY BuildAssumption DEF Sec

\* The next second begins later.
LEMMA NextSecond ==
    ASSUME NEW a \in Nat PROVE (Sec(a) + 1) * Second \in Nat /\ a <= (Sec(a) + 1) * Second
BY BuildAssumption DEF Sec

\* Nothing yet.
LEMMA Nothing ==
    /\ None \in Libs /\ None \in Object
    /\ NoTree \in Tree /\ NoIpk \in [obj : Object, time : Nat]
    /\ \A v \in Nat, t \in Nat : [NoTree EXCEPT !.ver = v, !.time = t] \in Tree
<1>1. None \in Libs /\ None \in Object
  <2>1. None \in Libs BY Zenon DEF Libs
  <2>2. None \in Object BY Zenon DEF Object
  <2> QED BY <2>1, <2>2
<1>2. NoIpk \in [obj : Object, time : Nat] BY <1>1 DEF NoIpk
<1>3. NoTree \in Tree BY <1>1 DEF NoTree, Tree
<1>4. ASSUME NEW v \in Nat, NEW t \in Nat PROVE [NoTree EXCEPT !.ver = v, !.time = t] \in Tree
  BY <1>1, <1>4 DEF NoTree, Tree
<1> QED BY <1>1, <1>2, <1>3, <1>4

\* Every step keeps the types of what the developer writes ...
LEMMA StepSources ==
    ASSUME TInv, [Next]_vars PROVE SourcesOK'
<1> USE DEF TInv, SourcesOK, At, Goto, sources, stamps, outputs
<1>1. CASE \/ Parse \/ Wipe \/ Unpack \/ TouchPrepared \/ CleanStaging \/ Unstage \/
              Configure \/ RemoveConfigured \/ TouchConfigured \/ Compile \/
              TouchBuilt \/ BuiltAlready \/ RemoveIpk \/ MakeIpk \/ WriteVersion \/
              InstallClean \/ InstallList \/ InstallCopy \/ TouchInstalled \/ Make \/
              NextPackage \/ Abort \/ SecondPasses \/ UNCHANGED vars
  <2>1. UNCHANGED <<src, option>>
    BY <1>1 DEF Parse, Wipe, Unpack, TouchPrepared, CleanStaging, Unstage, Configure,
                RemoveConfigured, TouchConfigured, Compile, TouchBuilt, BuiltAlready,
                RemoveIpk, MakeIpk, WriteVersion, InstallClean, InstallList,
                InstallCopy, TouchInstalled, Make, NextPackage, Abort, SecondPasses,
                sources, stamps, outputs, vars
  <2> QED BY <2>1
<1>2. ASSUME NEW p \in Pkg, Clean(p) PROVE SourcesOK'
  <2>1. UNCHANGED <<src, option>> BY <1>2 DEF Clean, Edited
  <2> QED BY <2>1
<1>3. ASSUME NEW p \in Pkg, Edit(p) PROVE SourcesOK'
  <2>1. now' \in Nat /\ now < now' BY <1>3, Later DEF Edit
  <2> QED BY <1>3, <2>1 DEF Edit
<1>4. ASSUME NEW p \in Pkg, SetOption(p) PROVE SourcesOK' BY <1>4 DEF SetOption
<1> QED BY <1>1, <1>2, <1>3, <1>4 DEF Next

\* ... of the stamps ...
LEMMA StepStamps ==
    ASSUME TInv, [Next]_vars PROVE StampsOK'
<1> USE DEF TInv, StampsOK, Conf, NoConfigured, At, Goto, sources, stamps, outputs
<1>1. CASE \/ Parse \/ Unpack \/ Unstage \/ Configure \/ Compile \/ BuiltAlready \/
              RemoveIpk \/ MakeIpk \/ WriteVersion \/ InstallClean \/ InstallList \/
              InstallCopy \/ Make \/ NextPackage \/ Abort \/ SecondPasses \/ UNCHANGED vars
  <2>1. UNCHANGED <<prepared, configured, built, installed>>
    BY <1>1 DEF Parse, Unpack, Unstage, Configure, Compile, BuiltAlready, RemoveIpk,
                MakeIpk, WriteVersion, InstallClean, InstallList, InstallCopy, Make,
                NextPackage, Abort, SecondPasses, sources, stamps, outputs, vars
  <2> QED BY <2>1
<1>2. ASSUME NEW p \in Pkg, Edit(p) \/ SetOption(p) PROVE StampsOK'
  <2>1. UNCHANGED <<prepared, configured, built, installed>>
    BY <1>2 DEF Edit, SetOption, Edited
  <2> QED BY <2>1
<1>3. CASE Wipe
  <2>1. P \in Pkg BY <1>3, Present DEF Wipe
  <2> QED BY <1>3, <2>1 DEF Wipe
<1>4. CASE TouchPrepared
  <2>1. P \in Pkg BY <1>4, Present DEF TouchPrepared
  <2>2. now' \in Nat BY <1>4, Later DEF TouchPrepared
  <2>3. [list |-> job.list, time |-> now'] \in [list : 0..1, time : Nat] BY <2>2 DEF JobOK
  <2> QED BY <1>4, <2>1, <2>3 DEF TouchPrepared
<1>5. CASE CleanStaging
  <2>1. P \in Pkg BY <1>5, Present DEF CleanStaging
  <2> QED BY <1>5, <2>1 DEF CleanStaging
<1>6. CASE RemoveConfigured
  <2>1. P \in Pkg BY <1>6, Present DEF RemoveConfigured
  <2> QED BY <1>6, <2>1 DEF RemoveConfigured
<1>7. CASE TouchConfigured
  <2>1. P \in Pkg BY <1>7, Present DEF TouchConfigured
  <2>2. now' \in Nat BY <1>7, Later DEF TouchConfigured
  <2>3. job.conf \in Conf BY DEF JobOK
  <2> QED BY <1>7, <2>1, <2>2, <2>3 DEF TouchConfigured
<1>8. CASE TouchBuilt
  <2>1. P \in Pkg BY <1>8, Present DEF TouchBuilt
  <2>2. now' \in Nat /\ now < now' BY <1>8, Later DEF TouchBuilt
  <2> QED BY <1>8, <2>1, <2>2 DEF TouchBuilt
<1>9. CASE TouchInstalled
  <2>1. P \in Pkg BY <1>9, Present DEF TouchInstalled
  <2>2. now' \in Nat /\ now < now' BY <1>9, Later DEF TouchInstalled
  <2> QED BY <1>9, <2>1, <2>2 DEF TouchInstalled
<1>10. ASSUME NEW p \in Pkg, Clean(p) PROVE StampsOK' BY <1>10 DEF Clean
<1> QED BY <1>1, <1>2, <1>3, <1>4, <1>5, <1>6, <1>7, <1>8, <1>9, <1>10 DEF Next

\* ... of what is built ...
LEMMA StepBuilt ==
    ASSUME TInv, [Next]_vars PROVE BuiltOK'
<1> USE DEF TInv, BuiltOK, At, Goto, sources, stamps, outputs
<1>1. CASE \/ Parse \/ TouchPrepared \/ CleanStaging \/ Unstage \/ RemoveConfigured \/
              TouchConfigured \/ TouchBuilt \/ BuiltAlready \/ InstallClean \/
              InstallList \/ InstallCopy \/ TouchInstalled \/ Make \/ NextPackage \/
              Abort \/ SecondPasses \/ UNCHANGED vars
  <2>1. UNCHANGED <<tree, ipk, version>>
    BY <1>1 DEF Parse, TouchPrepared, CleanStaging, Unstage, RemoveConfigured,
                TouchConfigured, TouchBuilt, BuiltAlready, InstallClean, InstallList,
                InstallCopy, TouchInstalled, Make, NextPackage, Abort, SecondPasses,
                sources, stamps, outputs, vars
  <2> QED BY <2>1
<1>2. ASSUME NEW p \in Pkg, Edit(p) \/ SetOption(p) PROVE BuiltOK'
  <2>1. UNCHANGED <<tree, ipk, version>> BY <1>2 DEF Edit, SetOption, Edited
  <2> QED BY <2>1
<1>3. CASE Wipe
  <2>1. P \in Pkg BY <1>3, Present DEF Wipe
  <2> QED BY <1>3, <2>1, Nothing DEF Wipe
<1>4. CASE Unpack
  <2>1. P \in Pkg BY <1>4, Present DEF Unpack
  <2>2. now' \in Nat /\ src[P].ver \in Nat BY <1>4, <2>1, Later DEF Unpack, SourcesOK
  <2>3. [NoTree EXCEPT !.ver = src[P].ver, !.time = now'] \in Tree BY <2>2, Nothing
  <2> QED BY <1>4, <2>1, <2>3 DEF Unpack
<1>5. CASE Configure
  <2> DEFINE libs == UNION {{<<d, f.abi>> : f \in staged[d]} : d \in Deps[P]}
  <2>1. P \in Pkg BY <1>5, Present DEF Configure
  <2>2. now' \in Nat /\ job.conf \in Conf BY <1>5, Later DEF Configure, JobOK
  <2>3. libs \in Libs
    <3>1. ASSUME NEW d \in Deps[P], NEW f \in staged[d] PROVE d \in Pkg /\ f.abi \in Nat
      <4>1. d \in Pkg BY <2>1, BuildAssumption
      <4>2. f \in File BY <4>1 DEF StagedOK
      <4> QED BY <4>1, <4>2 DEF File
    <3>2. libs \subseteq Pkg \X Nat BY <3>1
    <3> QED BY <3>2 DEF Libs
  <2> HIDE DEF libs
  <2>4. [tree[P] EXCEPT !.conf = job.conf, !.libs = libs, !.time = now'] \in Tree
    BY <2>1, <2>2, <2>3 DEF Tree
  <2>5. tree' = [tree EXCEPT ![P] = [tree[P] EXCEPT !.conf = job.conf, !.libs = libs, !.time = now']]
    BY <1>5 DEF Configure, libs
  <2> QED BY <1>5, <2>1, <2>4, <2>5 DEF Configure
<1>6. CASE Compile
  <2> DEFINE obj == [ver |-> tree[P].ver, conf |-> tree[P].conf, libs |-> tree[P].libs]
  <2>1. P \in Pkg BY <1>6, Present DEF Compile
  <2>2. now' \in Nat BY <1>6, Later DEF Compile
  <2>3. obj \in Object BY <2>1 DEF Tree, Object
  <2> HIDE DEF obj
  <2>4. [tree[P] EXCEPT !.obj = obj, !.time = now'] \in Tree BY <2>1, <2>2, <2>3 DEF Tree
  <2>5. tree' = [tree EXCEPT ![P] = [tree[P] EXCEPT !.obj = obj, !.time = now']]
    BY <1>6 DEF Compile, obj
  <2> QED BY <1>6, <2>1, <2>4, <2>5 DEF Compile
<1>7. CASE RemoveIpk
  <2>1. P \in Pkg BY <1>7, Present DEF RemoveIpk
  <2> QED BY <1>7, <2>1, Nothing DEF RemoveIpk
<1>8. CASE MakeIpk
  <2>1. P \in Pkg BY <1>8, Present DEF MakeIpk
  <2>2. now' \in Nat BY <1>8, Later DEF MakeIpk
  <2>3. [obj |-> tree[P].obj, time |-> now'] \in [obj : Object, time : Nat]
    BY <2>1, <2>2 DEF Tree
  <2> QED BY <1>8, <2>1, <2>3 DEF MakeIpk
<1>9. CASE WriteVersion
  <2>1. P \in Pkg BY <1>9, Present DEF WriteVersion
  <2>2. CASE UNCHANGED version BY <1>9, <2>2 DEF WriteVersion
  <2>3. ASSUME Write, version' = [version EXCEPT ![P] = [abi |-> src[P].abi, time |-> now']]
        PROVE  BuiltOK'
    <3>1. now' \in Nat /\ src[P].abi \in Nat BY <2>1, <2>3, Later DEF SourcesOK
    <3> QED BY <1>9, <2>1, <2>3, <3>1 DEF WriteVersion
  <2> QED BY <1>9, <2>2, <2>3 DEF WriteVersion
<1>10. ASSUME NEW p \in Pkg, Clean(p) PROVE BuiltOK'
  <2>1. NoTree \in Tree /\ NoIpk \in [obj : Object, time : Nat] BY Nothing
  <2> QED BY <1>10, <2>1 DEF Clean
<1> QED BY <1>1, <1>2, <1>3, <1>4, <1>5, <1>6, <1>7, <1>8, <1>9, <1>10 DEF Next

\* ... of the staging directory ...
LEMMA StepStaged ==
    ASSUME TInv, [Next]_vars PROVE StagedOK'
<1> USE DEF TInv, StagedOK, At, Goto, sources, stamps, outputs
<1>1. CASE \/ Parse \/ Wipe \/ Unpack \/ TouchPrepared \/ CleanStaging \/ Configure \/
              RemoveConfigured \/ TouchConfigured \/ Compile \/ TouchBuilt \/
              BuiltAlready \/ RemoveIpk \/ MakeIpk \/ WriteVersion \/ TouchInstalled \/
              Make \/ NextPackage \/ Abort \/ SecondPasses \/ UNCHANGED vars
  <2>1. UNCHANGED <<listed, staged>>
    BY <1>1 DEF Parse, Wipe, Unpack, TouchPrepared, CleanStaging, Configure,
                RemoveConfigured, TouchConfigured, Compile, TouchBuilt, BuiltAlready,
                RemoveIpk, MakeIpk, WriteVersion, TouchInstalled, Make, NextPackage,
                Abort, SecondPasses, sources, stamps, outputs, vars
  <2> QED BY <2>1
<1>2. ASSUME NEW p \in Pkg, Edit(p) \/ SetOption(p) PROVE StagedOK'
  <2>1. UNCHANGED <<listed, staged>> BY <1>2 DEF Edit, SetOption, Edited
  <2> QED BY <2>1
<1>3. CASE Unstage
  <2>1. P \in Pkg BY <1>3, Present DEF Unstage
  <2> QED BY <1>3, <2>1 DEF Unstage
<1>4. CASE InstallClean
  <2>1. P \in Pkg BY <1>4, Present DEF InstallClean
  <2> QED BY <1>4, <2>1 DEF InstallClean
<1>5. CASE InstallList
  <2>1. P \in Pkg BY <1>5, Present DEF InstallList
  <2> QED BY <1>5, <2>1 DEF InstallList, Names, FileName
<1>6. CASE InstallCopy
  <2>1. P \in Pkg BY <1>6, Present DEF InstallCopy
  <2>2. tree[P].obj \in Object /\ src[P].abi \in Nat BY <2>1 DEF BuiltOK, Tree, SourcesOK
  <2>3. PICK some \in SUBSET Names(job.list) : staged' = [staged EXCEPT
                ![P] = {f \in @ : f.name \notin some} \cup
                       {[name |-> n, obj |-> tree[P].obj, abi |-> src[P].abi] : n \in some}]
    BY <1>6 DEF InstallCopy
  <2>4. some \subseteq FileName BY DEF Names, FileName
  <2>5. {[name |-> n, obj |-> tree[P].obj, abi |-> src[P].abi] : n \in some} \subseteq File
    BY <2>2, <2>4 DEF File
  <2> QED BY <1>6, <2>1, <2>3, <2>5 DEF InstallCopy
<1>7. ASSUME NEW p \in Pkg, Clean(p) PROVE StagedOK' BY <1>7 DEF Clean
<1> QED BY <1>1, <1>2, <1>3, <1>4, <1>5, <1>6, <1>7 DEF Next

\* ... and of the make.
LEMMA StepJob ==
    ASSUME TInv, [Next]_vars PROVE JobOK'
<1> USE DEF TInv, JobOK, Steps, At, Goto, sources, stamps, outputs
<1>1. CASE Parse
  <2>1. P \in Pkg BY <1>1, Present DEF Parse
  <2>2. src[P].list \in 0..1 BY <2>1 DEF SourcesOK
  <2>3. ConfVar(option[P]) \in Conf BY DEF ConfVar, Conf
  <2> QED BY <1>1, <2>2, <2>3 DEF Parse
<1>2. CASE Wipe
  <2>1. P \in Pkg BY <1>2, Present DEF Wipe
  <2> QED BY <1>2, <2>1 DEF Wipe
<1>3. CASE Unpack
  <2>1. P \in Pkg BY <1>3, Present DEF Unpack
  <2> QED BY <1>3, <2>1 DEF Unpack
<1>4. CASE TouchPrepared
  <2>1. P \in Pkg BY <1>4, Present DEF TouchPrepared
  <2> QED BY <1>4, <2>1 DEF TouchPrepared
<1>5. CASE CleanStaging
  <2>1. P \in Pkg BY <1>5, Present DEF CleanStaging
  <2> QED BY <1>5, <2>1 DEF CleanStaging
<1>6. CASE Unstage
  <2>1. P \in Pkg BY <1>6, Present DEF Unstage
  <2> QED BY <1>6, <2>1 DEF Unstage
<1>7. CASE Configure
  <2>1. P \in Pkg BY <1>7, Present DEF Configure
  <2> QED BY <1>7, <2>1 DEF Configure
<1>8. CASE RemoveConfigured
  <2>1. P \in Pkg BY <1>8, Present DEF RemoveConfigured
  <2> QED BY <1>8, <2>1 DEF RemoveConfigured
<1>9. CASE TouchConfigured
  <2>1. P \in Pkg BY <1>9, Present DEF TouchConfigured
  <2> QED BY <1>9, <2>1 DEF TouchConfigured
<1>10. CASE Compile
  <2>1. P \in Pkg BY <1>10, Present DEF Compile
  <2> QED BY <1>10, <2>1 DEF Compile
<1>11. CASE TouchBuilt
  <2>1. P \in Pkg BY <1>11, Present DEF TouchBuilt
  <2> QED BY <1>11, <2>1 DEF TouchBuilt
<1>12. CASE BuiltAlready
  <2>1. P \in Pkg BY <1>12, Present DEF BuiltAlready
  <2> QED BY <1>12, <2>1 DEF BuiltAlready
<1>13. CASE RemoveIpk
  <2>1. P \in Pkg BY <1>13, Present DEF RemoveIpk
  <2> QED BY <1>13, <2>1 DEF RemoveIpk
<1>14. CASE MakeIpk
  <2>1. P \in Pkg BY <1>14, Present DEF MakeIpk
  <2> QED BY <1>14, <2>1 DEF MakeIpk
<1>15. CASE WriteVersion
  <2>1. P \in Pkg BY <1>15, Present DEF WriteVersion
  <2> QED BY <1>15, <2>1 DEF WriteVersion
<1>16. CASE InstallClean
  <2>1. P \in Pkg BY <1>16, Present DEF InstallClean
  <2> QED BY <1>16, <2>1 DEF InstallClean
<1>17. CASE InstallList
  <2>1. P \in Pkg BY <1>17, Present DEF InstallList
  <2> QED BY <1>17, <2>1 DEF InstallList
<1>18. CASE InstallCopy
  <2>1. P \in Pkg BY <1>18, Present DEF InstallCopy
  <2> QED BY <1>18, <2>1 DEF InstallCopy
<1>19. CASE TouchInstalled
  <2>1. P \in Pkg BY <1>19, Present DEF TouchInstalled
  <2> QED BY <1>19, <2>1 DEF TouchInstalled
<1>20. CASE Make
  <2>1. job' = [pc |-> "parse", todo |-> Order, list |-> 0, conf |-> "n", dirty |-> FALSE]
    BY <1>20 DEF Make, Idle
  <2> QED BY <2>1, <1>20, BuildAssumption DEF Make, Conf
<1>21. CASE NextPackage
  <2>1. Tail(job.todo) \in Seq(Pkg) BY <1>21, Present DEF NextPackage
  <2>2. CASE Tail(job.todo) = << >>
    <3>1. job' = Idle BY <1>21, <2>2 DEF NextPackage
    <3> QED BY <3>1 DEF Idle, Conf
  <2>3. CASE Tail(job.todo) # << >> BY <1>21, <2>1, <2>3 DEF NextPackage
  <2> QED BY <2>2, <2>3
<1>22. CASE Abort BY <1>22 DEF Abort, Idle, Conf
<1>23. CASE SecondPasses BY <1>23 DEF SecondPasses
<1>24. ASSUME NEW p \in Pkg, Edit(p) PROVE JobOK' BY <1>24 DEF Edit, Edited
<1>25. ASSUME NEW p \in Pkg, SetOption(p) PROVE JobOK' BY <1>25 DEF SetOption, Edited
<1>26. ASSUME NEW p \in Pkg, Clean(p) PROVE JobOK' BY <1>26 DEF Clean, Edited
<1>27. CASE UNCHANGED vars BY <1>27 DEF vars
<1> QED BY <1>1, <1>2, <1>3, <1>4, <1>5, <1>6, <1>7, <1>8, <1>9, <1>10, <1>11, <1>12,
           <1>13, <1>14, <1>15, <1>16, <1>17, <1>18, <1>19, <1>20, <1>21, <1>22, <1>23,
           <1>24, <1>25, <1>26, <1>27 DEF Next

\* The clock is a number ...
LEMMA StepClock ==
    ASSUME TInv, [Next]_vars PROVE ClockOK'
<1> USE DEF TInv, ClockOK, At, Goto, sources, stamps, outputs
<1>1. CASE \/ Parse \/ Wipe \/ CleanStaging \/ Unstage \/ RemoveConfigured \/
              BuiltAlready \/ RemoveIpk \/ InstallClean \/ InstallList \/
              InstallCopy \/ Make \/ NextPackage \/ Abort \/ UNCHANGED vars
  <2>1. UNCHANGED now
    BY <1>1 DEF Parse, Wipe, CleanStaging, Unstage, RemoveConfigured, BuiltAlready,
                RemoveIpk, InstallClean, InstallList, InstallCopy, Make, NextPackage,
                Abort, sources, stamps, outputs, vars
  <2> QED BY <2>1
<1>2. ASSUME NEW p \in Pkg, SetOption(p) \/ Clean(p) PROVE ClockOK'
  <2>1. UNCHANGED now BY <1>2 DEF SetOption, Clean, Edited
  <2> QED BY <2>1
<1>3. CASE Unpack
  <2>1. P \in Pkg BY <1>3, Present DEF Unpack
  <2>2. now' \in Nat /\ now < now' BY <1>3, Later DEF Unpack
  <2> QED BY <1>3, <2>1, <2>2 DEF Unpack
<1>4. CASE TouchPrepared
  <2>1. P \in Pkg BY <1>4, Present DEF TouchPrepared
  <2>2. now' \in Nat /\ now < now' BY <1>4, Later DEF TouchPrepared
  <2> QED BY <1>4, <2>1, <2>2 DEF TouchPrepared
<1>5. CASE Configure
  <2>1. P \in Pkg BY <1>5, Present DEF Configure
  <2>2. now' \in Nat /\ now < now' BY <1>5, Later DEF Configure
  <2> QED BY <1>5, <2>1, <2>2 DEF Configure
<1>6. CASE TouchConfigured
  <2>1. P \in Pkg BY <1>6, Present DEF TouchConfigured
  <2>2. now' \in Nat /\ now < now' BY <1>6, Later DEF TouchConfigured
  <2> QED BY <1>6, <2>1, <2>2 DEF TouchConfigured
<1>7. CASE Compile
  <2>1. P \in Pkg BY <1>7, Present DEF Compile
  <2>2. now' \in Nat /\ now < now' BY <1>7, Later DEF Compile
  <2> QED BY <1>7, <2>1, <2>2 DEF Compile
<1>8. CASE TouchBuilt
  <2>1. P \in Pkg BY <1>8, Present DEF TouchBuilt
  <2>2. now' \in Nat /\ now < now' BY <1>8, Later DEF TouchBuilt
  <2> QED BY <1>8, <2>1, <2>2 DEF TouchBuilt
<1>9. CASE MakeIpk
  <2>1. P \in Pkg BY <1>9, Present DEF MakeIpk
  <2>2. now' \in Nat /\ now < now' BY <1>9, Later DEF MakeIpk
  <2> QED BY <1>9, <2>1, <2>2 DEF MakeIpk
<1>10. CASE WriteVersion
  <2>1. CASE Write BY <2>1, Later DEF ClockOK
  <2>2. CASE UNCHANGED now BY <2>2 DEF ClockOK
  <2> QED BY <1>10, <2>1, <2>2 DEF WriteVersion
<1>11. CASE TouchInstalled
  <2>1. P \in Pkg BY <1>11, Present DEF TouchInstalled
  <2>2. now' \in Nat /\ now < now' BY <1>11, Later DEF TouchInstalled
  <2> QED BY <1>11, <2>1, <2>2 DEF TouchInstalled
<1>12. CASE SecondPasses BY <1>12, NextSecond DEF SecondPasses
<1>13. ASSUME NEW p \in Pkg, Edit(p) PROVE ClockOK'
  <2>1. now' \in Nat /\ now < now' BY <1>13, Later DEF Edit
  <2> QED BY <1>13, <2>1 DEF Edit
<1> QED BY <1>1, <1>2, <1>3, <1>4, <1>5, <1>6, <1>7, <1>8, <1>9, <1>10, <1>11, <1>12,
           <1>13 DEF Next

\* ... so are the counts of edits, aborts and makes ...
LEMMA StepCounts ==
    ASSUME TInv, [Next]_vars PROVE CountsOK'
<1> USE DEF TInv, CountsOK, At, Goto, sources, stamps, outputs
<1>1. CASE \/ Parse \/ Wipe \/ Unpack \/ TouchPrepared \/ CleanStaging \/ Unstage \/
              Configure \/ RemoveConfigured \/ TouchConfigured \/ Compile \/
              TouchBuilt \/ BuiltAlready \/ RemoveIpk \/ MakeIpk \/ WriteVersion \/
              InstallClean \/ InstallList \/ InstallCopy \/ TouchInstalled \/
              SecondPasses \/ UNCHANGED vars
  <2>1. UNCHANGED <<quiet, edits, aborts, makes>>
    BY <1>1 DEF Parse, Wipe, Unpack, TouchPrepared, CleanStaging, Unstage, Configure,
                RemoveConfigured, TouchConfigured, Compile, TouchBuilt, BuiltAlready,
                RemoveIpk, MakeIpk, WriteVersion, InstallClean, InstallList,
                InstallCopy, TouchInstalled, SecondPasses,
                sources, stamps, outputs, vars
  <2> QED BY <2>1
<1>2. CASE Make BY <1>2 DEF Make
<1>3. CASE NextPackage
  <2>1. job.dirty \in BOOLEAN BY DEF JobOK
  <2>2. quiet' = ~job.dirty \/ UNCHANGED quiet BY <1>3 DEF NextPackage
  <2>3. quiet' \in BOOLEAN BY <2>1, <2>2
  <2>4. UNCHANGED <<edits, aborts, makes>> BY <1>3 DEF NextPackage
  <2> QED BY <2>3, <2>4
<1>4. CASE Abort
  <2>1. quiet' \in BOOLEAN BY <1>4, Zenon DEF Abort
  <2>2. aborts' \in Nat /\ UNCHANGED <<edits, makes>> BY <1>4 DEF Abort
  <2> QED BY <2>1, <2>2
<1>5. ASSUME NEW p \in Pkg, Edit(p) PROVE CountsOK'
  <2>1. quiet' \in BOOLEAN BY <1>5, Zenon DEF Edit, Edited
  <2>2. edits' \in Nat /\ UNCHANGED <<aborts, makes>> BY <1>5 DEF Edit, Edited
  <2> QED BY <2>1, <2>2
<1>6. ASSUME NEW p \in Pkg, SetOption(p) PROVE CountsOK'
  <2>1. quiet' \in BOOLEAN BY <1>6, Zenon DEF SetOption, Edited
  <2>2. edits' \in Nat /\ UNCHANGED <<aborts, makes>> BY <1>6 DEF SetOption, Edited
  <2> QED BY <2>1, <2>2
<1>7. ASSUME NEW p \in Pkg, Clean(p) PROVE CountsOK'
  <2>1. quiet' \in BOOLEAN BY <1>7, Zenon DEF Clean, Edited
  <2>2. edits' \in Nat /\ UNCHANGED <<aborts, makes>> BY <1>7 DEF Clean, Edited
  <2> QED BY <2>1, <2>2
<1> QED BY <1>1, <1>2, <1>3, <1>4, <1>5, <1>6, <1>7 DEF Next

\* ... and no stamp outlives the build directory ...
LEMMA StepGone ==
    ASSUME TInv, [Next]_vars PROVE GoneOK'
<1> USE DEF TInv, GoneOK, At, Goto, sources, stamps, outputs
<1>1. CASE \/ Parse \/ CleanStaging \/ Unstage \/ BuiltAlready \/ RemoveIpk \/
              MakeIpk \/ WriteVersion \/ InstallClean \/ InstallList \/ InstallCopy \/
              TouchInstalled \/ Make \/ NextPackage \/ Abort \/ SecondPasses \/ UNCHANGED vars
  <2>1. UNCHANGED <<tree, prepared, configured, built>>
    BY <1>1 DEF Parse, CleanStaging, Unstage, BuiltAlready, RemoveIpk, MakeIpk,
                WriteVersion, InstallClean, InstallList, InstallCopy, TouchInstalled,
                Make, NextPackage, Abort, SecondPasses, sources, stamps, outputs, vars
  <2> QED BY <2>1
<1>2. ASSUME NEW p \in Pkg, Edit(p) \/ SetOption(p) PROVE GoneOK'
  <2>1. UNCHANGED <<tree, prepared, configured, built>>
    BY <1>2 DEF Edit, SetOption, Edited
  <2> QED BY <2>1
<1>3. CASE Wipe
  <2>1. P \in Pkg BY <1>3, Present DEF Wipe
  <2> QED BY <1>3, <2>1 DEF Wipe, StampsOK, BuiltOK
<1>4. CASE Unpack
  <2>1. P \in Pkg BY <1>4, Present DEF Unpack
  <2>2. now' \in Nat /\ now' # 0
    <3>1. Write BY <1>4 DEF Unpack
    <3> QED BY <3>1, Later DEF ClockOK
  <2>3. tree'[P].time # 0 /\ \A p \in Pkg \ {P} : tree'[p] = tree[p]
    BY <1>4, <2>1, <2>2 DEF Unpack, BuiltOK, Tree, NoTree
  <2> QED BY <1>4, <2>1, <2>3 DEF Unpack
<1>5. CASE TouchPrepared
  <2>1. P \in Pkg BY <1>5, Present DEF TouchPrepared
  <2>2. tree[P].time # 0 BY <1>5, <2>1 DEF TouchPrepared, Unpacked
  <2> QED BY <1>5, <2>1, <2>2 DEF TouchPrepared, StampsOK
<1>6. CASE Configure
  <2>1. P \in Pkg BY <1>6, Present DEF Configure
  <2>2. now' \in Nat /\ now' # 0
    <3>1. Write BY <1>6 DEF Configure
    <3> QED BY <3>1, Later DEF ClockOK
  <2>3. tree'[P].time # 0 /\ \A p \in Pkg \ {P} : tree'[p] = tree[p]
    BY <1>6, <2>1, <2>2 DEF Configure, BuiltOK, Tree, NoTree
  <2> QED BY <1>6, <2>1, <2>3 DEF Configure
<1>7. CASE RemoveConfigured
  <2>1. P \in Pkg BY <1>7, Present DEF RemoveConfigured
  <2> QED BY <1>7, <2>1 DEF RemoveConfigured, StampsOK
<1>8. CASE TouchConfigured
  <2>1. P \in Pkg BY <1>8, Present DEF TouchConfigured
  <2>2. tree[P].time # 0 BY <1>8, <2>1 DEF TouchConfigured, Unpacked
  <2> QED BY <1>8, <2>1, <2>2 DEF TouchConfigured, StampsOK
<1>9. CASE Compile
  <2>1. P \in Pkg BY <1>9, Present DEF Compile
  <2>2. now' \in Nat /\ now' # 0
    <3>1. Write BY <1>9 DEF Compile
    <3> QED BY <3>1, Later DEF ClockOK
  <2>3. tree'[P].time # 0 /\ \A p \in Pkg \ {P} : tree'[p] = tree[p]
    BY <1>9, <2>1, <2>2 DEF Compile, BuiltOK, Tree, NoTree
  <2> QED BY <1>9, <2>1, <2>3 DEF Compile
<1>10. CASE TouchBuilt
  <2>1. P \in Pkg BY <1>10, Present DEF TouchBuilt
  <2>2. tree[P].time # 0 BY <1>10, <2>1 DEF TouchBuilt, Unpacked
  <2> QED BY <1>10, <2>1, <2>2 DEF TouchBuilt, StampsOK
<1>11. ASSUME NEW p \in Pkg, Clean(p) PROVE GoneOK' BY <1>11 DEF Clean, StampsOK, BuiltOK
<1> QED BY <1>1, <1>2, <1>3, <1>4, <1>5, <1>6, <1>7, <1>8, <1>9, <1>10, <1>11 DEF Next

\* ... whose stamp is there from the unpacking on.
LEMMA StepUnpacked ==
    ASSUME TInv, [Next]_vars PROVE Unpacked'
<1> USE DEF TInv, Unpacked, JobOK, P, At, Goto, sources, stamps, outputs
<1>1. CASE Parse
  <2>1. P \in Pkg BY <1>1, Present DEF Parse
  <2>2. prepared[P].time # 0 \/ NeedPrepare(P) BY DEF NeedPrepare
  <2> QED BY <1>1, <2>1, <2>2 DEF Parse
<1>2. CASE Wipe
  <2>1. P \in Pkg BY <1>2, Present DEF Wipe
  <2> QED BY <1>2, <2>1 DEF Wipe, StampsOK
<1>3. CASE Unpack
  <2>1. P \in Pkg BY <1>3, Present DEF Unpack
  <2>2. now' \in Nat /\ now' # 0 BY <1>3, Later DEF Unpack, ClockOK
  <2> QED BY <1>3, <2>1, <2>2 DEF Unpack, BuiltOK
<1>4. CASE TouchPrepared
  <2>1. P \in Pkg BY <1>4, Present DEF TouchPrepared
  <2>2. now' \in Nat /\ now' # 0 BY <1>4, Later DEF TouchPrepared, ClockOK
  <2> QED BY <1>4, <2>1, <2>2 DEF TouchPrepared, StampsOK
<1>5. CASE CleanStaging BY <1>5, Present DEF CleanStaging
<1>6. CASE Unstage BY <1>6, Present DEF Unstage
<1>7. CASE Configure BY <1>7, Present DEF Configure
<1>8. CASE RemoveConfigured BY <1>8, Present DEF RemoveConfigured
<1>9. CASE TouchConfigured BY <1>9, Present DEF TouchConfigured
<1>10. CASE Compile BY <1>10, Present DEF Compile
<1>11. CASE TouchBuilt BY <1>11, Present DEF TouchBuilt
<1>12. CASE BuiltAlready BY <1>12, Present DEF BuiltAlready
<1>13. CASE RemoveIpk BY <1>13, Present DEF RemoveIpk
<1>14. CASE MakeIpk BY <1>14, Present DEF MakeIpk
<1>15. CASE WriteVersion BY <1>15, Present DEF WriteVersion
<1>16. CASE InstallClean BY <1>16, Present DEF InstallClean
<1>17. CASE InstallList BY <1>17, Present DEF InstallList
<1>18. CASE InstallCopy BY <1>18, Present DEF InstallCopy
<1>19. CASE TouchInstalled BY <1>19, Present DEF TouchInstalled
<1>20. CASE Make BY <1>20 DEF Make, Idle
<1>21. CASE NextPackage
  <2>1. job' = Idle \/ job' = [job EXCEPT !.todo = Tail(job.todo), !.pc = "parse"]
    BY <1>21 DEF NextPackage
  <2>2. CASE job' = Idle BY <2>2 DEF Idle
  <2>3. CASE job' = [job EXCEPT !.todo = Tail(job.todo), !.pc = "parse"]
    <3>1. job'.pc = "parse" BY <2>3
    <3> QED BY <3>1
  <2> QED BY <2>1, <2>2, <2>3
<1>22. CASE Abort BY <1>22 DEF Abort, Idle
<1>23. CASE SecondPasses BY <1>23 DEF SecondPasses
<1>24. ASSUME NEW p \in Pkg, Edit(p) PROVE Unpacked' BY <1>24 DEF Edit, Edited
<1>25. ASSUME NEW p \in Pkg, SetOption(p) PROVE Unpacked' BY <1>25 DEF SetOption, Edited
<1>26. ASSUME NEW p \in Pkg, Clean(p) PROVE Unpacked' BY <1>26 DEF Clean, Edited
<1>27. CASE UNCHANGED vars BY <1>27 DEF vars
<1> QED BY <1>1, <1>2, <1>3, <1>4, <1>5, <1>6, <1>7, <1>8, <1>9, <1>10, <1>11, <1>12,
           <1>13, <1>14, <1>15, <1>16, <1>17, <1>18, <1>19, <1>20, <1>21, <1>22, <1>23,
           <1>24, <1>25, <1>26, <1>27 DEF Next

\* The build starts from nothing.
LEMMA StartsTyped == ASSUME Init PROVE TInv
<1> USE BuildAssumption DEF Init
<1>1. SourcesOK BY DEF SourcesOK
<1>2. StampsOK BY DEF StampsOK, Conf, NoConfigured
<1>3. BuiltOK BY Nothing DEF BuiltOK
<1>4. StagedOK BY DEF StagedOK
<1>5. JobOK BY DEF JobOK, Idle, Steps, Conf
<1>6. ClockOK BY DEF ClockOK
<1>8. CountsOK
  <2>1. quiet \in BOOLEAN BY Zenon
  <2> QED BY <2>1 DEF CountsOK
<1>7. GoneOK /\ Unpacked BY DEF GoneOK, Unpacked, At, Idle
<1> QED BY <1>1, <1>2, <1>3, <1>4, <1>5, <1>6, <1>7, <1>8 DEF TInv

\* The parts make up the type.
LEMMA Parts == TInv => TypeOK
BY DEF TInv, SourcesOK, StampsOK, BuiltOK, StagedOK, JobOK, ClockOK, CountsOK, GoneOK,
   TypeOK

\* The type is kept by every step.
LEMMA StepTyped == ASSUME TInv, [Next]_vars PROVE TInv'
BY StepSources, StepStamps, StepBuilt, StepStaged, StepJob, StepClock, StepCounts,
   StepGone,
   StepUnpacked DEF TInv

\* So it always holds.
LEMMA Typed == Spec => []TInv
BY StartsTyped, StepTyped, PTL DEF Spec

\* TypeCorrect: the variables keep their types, and a build directory that is
\* gone (rm -rf of build/package.mk) takes its stamps along.
THEOREM TypeCorrect == Spec => []TypeOK
BY Typed, Parts, PTL

-----------------------------------------------------------------------------
(* The staging directory.  .installed may stand only while the package is   *)
(* as good as new (Quiet) or sure to be cleaned before it is touched        *)
(* (Fresh): this is what keeps its files of one compilation.                *)

\* .configured is older than .prepared: the next thing done is CleanStaging.
Fresh(p) == \A c \in Conf : prepared[p].time = 0 \/ configured[p][c] < prepared[p].time

\* .built is newer than the tree and than .configured.
Settled(p) ==
    /\ UpToDateBy(built[p], tree[p].time)
    /\ \A c \in Conf : configured[p][c] <= built[p]

Quiet(p) == Settled(p) /\ built[p] <= installed[p]

\* Nothing is younger than the last write, and one .configured exists at most.
Past ==
    \A p \in Pkg : /\ tree[p].time <= now /\ built[p] <= now
                   /\ \A c \in Conf : configured[p][c] <= now
OneConf == \A p \in Pkg : \E c \in Conf : \A b \in Conf \ {c} : configured[p][b] = 0

Covered == \A p \in Pkg : installed[p] # 0 => Fresh(p) \/ Quiet(p)

\* What each stage of a package's make has done.
Bare == job.pc \in {"unpack", "prepared"} =>
    prepared[P].time = 0 /\ configured[P] = NoConfigured
Cleared == job.pc = "configured" => configured[P] = NoConfigured
Unmarked ==
    job.pc \in {"unstage", "configure", "oldconf", "configured", "compile", "built",
                "list", "copy", "installed"} => installed[P] = 0
Compiled ==
    job.pc \in {"pack", "ipk", "version", "install", "list", "copy", "installed"} =>
        Settled(P) /\ (installed[P] # 0 => built[P] <= installed[P])
Emptied == job.pc = "list" => staged[P] = {}
Copied ==
    job.pc \in {"copy", "installed"} =>
        /\ listed[P] = Names(job.list)
        /\ \A f \in staged[P] : f.obj = tree[P].obj
        /\ job.pc = "installed" => {f.name : f \in staged[P]} = Names(job.list)

\* All files of p, from one compilation.
Whole(p) ==
    /\ {f.name : f \in staged[p]} = listed[p]
    /\ \E o : {f.obj : f \in staged[p]} = {o}
Standing == \A p \in Pkg : installed[p] # 0 => Whole(p)

Stages == Past /\ OneConf /\ Covered /\ Bare /\ Cleared /\ Unmarked /\ Compiled
Contents == NothingOrphaned /\ Emptied /\ Copied /\ Standing

\* The clock never goes back.
LEMMA Onward ==
    ASSUME ClockOK, [Next]_vars PROVE now <= now'
<1> USE DEF ClockOK, sources, stamps, outputs, At, Goto
<1>1. CASE \/ Parse \/ Wipe \/ CleanStaging \/ Unstage \/ RemoveConfigured \/
              BuiltAlready \/ RemoveIpk \/ InstallClean \/ InstallList \/
              InstallCopy \/ Make \/ NextPackage \/ Abort \/ UNCHANGED vars
  <2>1. UNCHANGED now
    BY <1>1 DEF Parse, Wipe, CleanStaging, Unstage, RemoveConfigured, BuiltAlready,
                RemoveIpk, InstallClean, InstallList, InstallCopy, Make, NextPackage,
                Abort, sources, stamps, outputs, vars
  <2> QED BY <2>1
<1>2. ASSUME NEW p \in Pkg, SetOption(p) \/ Clean(p) PROVE now <= now'
  <2>1. UNCHANGED now BY <1>2 DEF SetOption, Clean, Edited
  <2> QED BY <2>1
<1>3. CASE Unpack BY <1>3, Later DEF Unpack
<1>4. CASE TouchPrepared BY <1>4, Later DEF TouchPrepared
<1>5. CASE Configure
  <2>1. Write BY <1>5 DEF Configure
  <2> QED BY <2>1, Later
<1>6. CASE TouchConfigured BY <1>6, Later DEF TouchConfigured
<1>7. CASE Compile BY <1>7, Later DEF Compile
<1>8. CASE TouchBuilt BY <1>8, Later DEF TouchBuilt
<1>9. CASE MakeIpk BY <1>9, Later DEF MakeIpk
<1>10. CASE WriteVersion BY <1>10, Later DEF WriteVersion
<1>11. CASE TouchInstalled BY <1>11, Later DEF TouchInstalled
<1>12. CASE SecondPasses BY <1>12, NextSecond DEF SecondPasses
<1>13. ASSUME NEW p \in Pkg, Edit(p) PROVE now <= now' BY <1>13, Later DEF Edit
<1> QED BY <1>1, <1>2, <1>3, <1>4, <1>5, <1>6, <1>7, <1>8, <1>9, <1>10, <1>11, <1>12,
           <1>13 DEF Next

\* A stamp, and the newest file of a build directory, is left alone, removed,
\* or written now.
NewTimes ==
    \A p \in Pkg :
        /\ tree'[p].time \in {0, tree[p].time, now'}
        /\ built'[p] \in {0, built[p], now'}
        /\ \A c \in Conf : configured'[p][c] \in {0, configured[p][c], now'}

\* That is what a step does to them.
LEMMA Times ==
    ASSUME TInv, [Next]_vars PROVE NewTimes
<1> USE DEF NewTimes, TInv, Conf, sources, stamps, outputs, At, Goto
<1>1. CASE \/ Parse \/ TouchPrepared \/ CleanStaging \/ Unstage \/ BuiltAlready \/
              RemoveIpk \/ MakeIpk \/ WriteVersion \/ InstallClean \/ InstallList \/
              InstallCopy \/ TouchInstalled \/ Make \/ NextPackage \/ Abort \/
              SecondPasses \/ UNCHANGED vars
  <2>1. UNCHANGED <<tree, built, configured>>
    BY <1>1 DEF Parse, TouchPrepared, CleanStaging, Unstage, BuiltAlready, RemoveIpk,
                MakeIpk, WriteVersion, InstallClean, InstallList, InstallCopy,
                TouchInstalled, Make, NextPackage, Abort, SecondPasses,
                sources, stamps, outputs, vars
  <2> QED BY <2>1
<1>2. ASSUME NEW p \in Pkg, Edit(p) \/ SetOption(p) PROVE NewTimes
  <2>1. UNCHANGED <<tree, built, configured>> BY <1>2 DEF Edit, SetOption, Edited
  <2> QED BY <2>1
<1>3. CASE Wipe
  <2>1. P \in Pkg BY <1>3, Present DEF Wipe, TInv
  <2> QED BY <1>3, <2>1 DEF Wipe, NoTree, NoConfigured, StampsOK, BuiltOK
<1>4. CASE Unpack
  <2>1. P \in Pkg BY <1>4, Present DEF Unpack, TInv
  <2>2. tree'[P].time = now' /\ \A p \in Pkg \ {P} : tree'[p] = tree[p]
    BY <1>4, <2>1 DEF Unpack, NoTree, BuiltOK, Tree
  <2>3. UNCHANGED <<built, configured>> BY <1>4 DEF Unpack
  <2> QED BY <2>2, <2>3
<1>5. CASE Configure
  <2>1. P \in Pkg BY <1>5, Present DEF Configure, TInv
  <2>2. tree'[P].time = now' /\ \A p \in Pkg \ {P} : tree'[p] = tree[p]
    BY <1>5, <2>1 DEF Configure, NoTree, BuiltOK, Tree
  <2>3. UNCHANGED <<built, configured>> BY <1>5 DEF Configure
  <2> QED BY <2>2, <2>3
<1>6. CASE RemoveConfigured
  <2>1. P \in Pkg BY <1>6, Present DEF RemoveConfigured, TInv
  <2> QED BY <1>6, <2>1 DEF RemoveConfigured, NoConfigured, StampsOK, BuiltOK
<1>7. CASE TouchConfigured
  <2>1. P \in Pkg BY <1>7, Present DEF TouchConfigured, TInv
  <2> QED BY <1>7, <2>1 DEF TouchConfigured, StampsOK, BuiltOK, JobOK
<1>8. CASE Compile
  <2>1. P \in Pkg BY <1>8, Present DEF Compile, TInv
  <2>2. tree'[P].time = now' /\ \A p \in Pkg \ {P} : tree'[p] = tree[p]
    BY <1>8, <2>1 DEF Compile, NoTree, BuiltOK, Tree
  <2>3. UNCHANGED <<built, configured>> BY <1>8 DEF Compile
  <2> QED BY <2>2, <2>3
<1>9. CASE TouchBuilt
  <2>1. P \in Pkg BY <1>9, Present DEF TouchBuilt, TInv
  <2> QED BY <1>9, <2>1 DEF TouchBuilt, StampsOK, BuiltOK, JobOK
<1>10. ASSUME NEW p \in Pkg, Clean(p) PROVE NewTimes
  BY <1>10 DEF Clean, StampsOK, BuiltOK, NoTree, NoConfigured
<1> QED BY <1>1, <1>2, <1>3, <1>4, <1>5, <1>6, <1>7, <1>8, <1>9, <1>10 DEF Next

\* Nothing is ever younger than the last write.
LEMMA StepPast ==
    ASSUME TInv, Stages, [Next]_vars PROVE Past'
<1>1. now \in Nat /\ now' \in Nat /\ now <= now' BY Onward, StepTyped DEF TInv, ClockOK
<1>2. ASSUME NEW p \in Pkg PROVE tree[p].time \in Nat /\ built[p] \in Nat
  BY DEF TInv, StampsOK, BuiltOK, Tree
<1>3. ASSUME NEW p \in Pkg, NEW c \in Conf PROVE configured[p][c] \in Nat
  BY DEF TInv, StampsOK
<1>4. Past BY DEF Stages
<1>5. NewTimes BY Times
<1>6. ASSUME NEW p \in Pkg PROVE tree'[p].time <= now' /\ built'[p] <= now'
  BY <1>1, <1>2, <1>4, <1>5 DEF Past, NewTimes
<1>7. ASSUME NEW p \in Pkg, NEW c \in Conf PROVE configured'[p][c] <= now'
  BY <1>1, <1>3, <1>4, <1>5 DEF Past, NewTimes
<1> QED BY <1>6, <1>7 DEF Past

\* RemoveConfigured takes all .configured_* away before one is made.
LEMMA StepOneConf ==
    ASSUME TInv, Stages, [Next]_vars PROVE OneConf'
<1> USE DEF Stages, OneConf, TInv, Conf, sources, stamps, outputs, At, Goto
<1>1. CASE \/ Parse \/ Unpack \/ TouchPrepared \/ CleanStaging \/ Unstage \/
              Configure \/ Compile \/ TouchBuilt \/ BuiltAlready \/ RemoveIpk \/
              MakeIpk \/ WriteVersion \/ InstallClean \/ InstallList \/ InstallCopy \/
              TouchInstalled \/ Make \/ NextPackage \/ Abort \/ SecondPasses \/ UNCHANGED vars
  <2>1. UNCHANGED configured
    BY <1>1 DEF Parse, Unpack, TouchPrepared, CleanStaging, Unstage, Configure,
                Compile, TouchBuilt, BuiltAlready, RemoveIpk, MakeIpk, WriteVersion,
                InstallClean, InstallList, InstallCopy, TouchInstalled, Make,
                NextPackage, Abort, SecondPasses, sources, stamps, outputs, vars
  <2> QED BY <2>1
<1>2. ASSUME NEW p \in Pkg, Edit(p) \/ SetOption(p) PROVE OneConf'
  <2>1. UNCHANGED configured BY <1>2 DEF Edit, SetOption, Edited
  <2> QED BY <2>1
<1>3. CASE Wipe
  <2>1. P \in Pkg BY <1>3, Present DEF Wipe, TInv
  <2> QED BY <1>3, <2>1 DEF Wipe, NoConfigured, StampsOK
<1>4. CASE RemoveConfigured
  <2>1. P \in Pkg BY <1>4, Present DEF RemoveConfigured, TInv
  <2> QED BY <1>4, <2>1 DEF RemoveConfigured, NoConfigured, StampsOK
<1>5. CASE TouchConfigured
  <2>1. P \in Pkg BY <1>5, Present DEF TouchConfigured, TInv
  <2>2. configured[P] = NoConfigured BY <1>5 DEF TouchConfigured, Cleared
  <2>3. job.conf \in Conf BY DEF TInv, JobOK
  <2> QED BY <1>5, <2>1, <2>2, <2>3 DEF TouchConfigured, NoConfigured, StampsOK
<1>6. ASSUME NEW p \in Pkg, Clean(p) PROVE OneConf'
  BY <1>6 DEF Clean, StampsOK, NoConfigured
<1> QED BY <1>1, <1>2, <1>3, <1>4, <1>5, <1>6 DEF Next

\* Whatever was written before now is not newer than a stamp touched now.
LEMMA TouchedLast ==
    ASSUME NEW t \in Nat, NEW s \in Nat, t <= s PROVE UpToDateBy(s, t)
BY SecMonotone DEF UpToDateBy

\* Past the test of .configured, the tree is configured for the present option.
LEMMA AfterTest ==
    ASSUME TInv, Stages, At("clean"), ~NeedConfigure(P)
    PROVE  /\ P \in Pkg /\ ~Fresh(P)
           /\ \A c \in Conf \ {job.conf} : configured[P][c] = 0
<1>1. P \in Pkg BY Present DEF TInv, At
<1>2. job.conf \in Conf /\ prepared[P].time # 0 BY DEF TInv, JobOK, Unpacked, At
<1>3. prepared[P].time \in Nat /\ configured[P][job.conf] \in Nat
  BY <1>1, <1>2 DEF TInv, StampsOK
<1>4. configured[P][job.conf] # 0 /\ ~Fresh(P) BY <1>2, <1>3 DEF NeedConfigure, Fresh
<1>5. PICK c \in Conf : \A b \in Conf \ {c} : configured[P][b] = 0
  BY <1>1 DEF Stages, OneConf
<1> QED BY <1>1, <1>2, <1>4, <1>5

\* A package that has to be compiled is no longer marked installed.
LEMMA NotInstalled ==
    ASSUME TInv, Stages, At("clean"), ~NeedConfigure(P), NeedCompile(P)
    PROVE  installed[P] = 0
<1>1. P \in Pkg /\ ~Fresh(P) BY AfterTest
<1>2. job.conf \in Conf /\ built[P] \in Nat /\ configured[P][job.conf] \in Nat
  BY <1>1 DEF TInv, JobOK, StampsOK
<1>3. ~Settled(P) BY <1>2 DEF NeedCompile, Settled
<1> QED BY <1>1, <1>3 DEF Stages, Covered, Quiet

\* A package that need not be compiled is settled, and newer in the staging
\* directory than its .built if it is there.
LEMMA NothingToCompile ==
    ASSUME TInv, Stages, At("clean"), ~NeedConfigure(P), ~NeedCompile(P)
    PROVE  Settled(P) /\ (installed[P] # 0 => built[P] <= installed[P])
<1>1. P \in Pkg /\ ~Fresh(P) /\ \A c \in Conf \ {job.conf} : configured[P][c] = 0
  BY AfterTest
<1>2. job.conf \in Conf /\ built[P] \in Nat /\ \A c \in Conf : configured[P][c] \in Nat
  BY <1>1 DEF TInv, JobOK, StampsOK
<1>3. Settled(P) BY <1>1, <1>2 DEF NeedCompile, Settled
<1> QED BY <1>1, <1>3 DEF Stages, Covered, Quiet

\* What is known of one package, and what leaves it as it is.
Covers(p) == installed[p] # 0 => Fresh(p) \/ Quiet(p)
Same(p) == /\ installed'[p] = installed[p] /\ prepared'[p] = prepared[p]
           /\ configured'[p] = configured[p] /\ built'[p] = built[p] /\ tree'[p] = tree[p]

LEMMA StillCovered ==
    ASSUME NEW p \in Pkg, Same(p), Covers(p) PROVE Covers(p)'
BY DEF Same, Covers, Fresh, Quiet, Settled, UpToDateBy, Sec

\* The stamp .installed never stands over a package that is neither settled nor
\* about to be cleaned.
LEMMA StepCovered ==
    ASSUME TInv, Stages, [Next]_vars PROVE Covered'
<1> USE DEF Stages, sources, stamps, outputs, At, Goto
<1>1. CASE \/ Parse \/ Unstage \/ BuiltAlready \/ RemoveIpk \/ MakeIpk \/
              WriteVersion \/ InstallClean \/ InstallList \/ InstallCopy \/ Make \/
              NextPackage \/ Abort \/ SecondPasses \/ UNCHANGED vars
  <2>1. UNCHANGED <<installed, prepared, configured, built, tree>>
    BY <1>1 DEF Parse, Unstage, BuiltAlready, RemoveIpk, MakeIpk, WriteVersion,
                InstallClean, InstallList, InstallCopy, Make, NextPackage, Abort,
                SecondPasses, sources, stamps, outputs, vars
  <2>2. \A q \in Pkg : Same(q) BY <2>1 DEF Same
  <2> QED BY <2>2, StillCovered DEF Covered, Covers
<1>2. ASSUME NEW p \in Pkg, Edit(p) \/ SetOption(p) PROVE Covered'
  <2>1. UNCHANGED <<installed, prepared, configured, built, tree>>
    BY <1>2 DEF Edit, SetOption, Edited
  <2>2. \A q \in Pkg : Same(q) BY <2>1 DEF Same
  <2> QED BY <2>2, StillCovered DEF Covered, Covers
<1>3. CASE Wipe
  <2>1. P \in Pkg BY <1>3, Present DEF Wipe, TInv
  <2>2. \A p \in Pkg \ {P} : Same(p) BY <1>3, <2>1 DEF Wipe, Same, TInv, StampsOK, BuiltOK
  <2>3. \A p \in Pkg : p = P => Covers(p)'
    BY <1>3, <2>1 DEF Wipe, TInv, StampsOK, BuiltOK, Covers, Fresh
  <2> QED BY <2>1, <2>2, <2>3, StillCovered DEF Covered, Covers
<1>4. CASE Unpack
  <2>1. P \in Pkg BY <1>4, Present DEF Unpack, TInv
  <2>2. \A p \in Pkg \ {P} : Same(p)
    BY <1>4, <2>1 DEF Unpack, Same, TInv, StampsOK, BuiltOK
  <2>3. \A p \in Pkg : p = P => Covers(p)'
    BY <1>4, <2>1 DEF Unpack, Bare, Covers, Fresh
  <2> QED BY <2>1, <2>2, <2>3, StillCovered DEF Covered, Covers
<1>5. CASE TouchPrepared
  <2>1. P \in Pkg BY <1>5, Present DEF TouchPrepared, TInv
  <2>2. \A p \in Pkg \ {P} : Same(p)
    BY <1>5, <2>1 DEF TouchPrepared, Same, TInv, StampsOK, BuiltOK
  <2>3. now' \in Nat /\ now < now' BY <1>5, Later DEF TouchPrepared, TInv, ClockOK
  <2>4. configured[P] = NoConfigured BY <1>5 DEF TouchPrepared, Bare
  <2>5. \A p \in Pkg : p = P => Covers(p)'
    BY <1>5, <2>1, <2>3, <2>4 DEF TouchPrepared, TInv, StampsOK, BuiltOK, Covers, Fresh,
       NoConfigured, Conf
  <2> QED BY <2>1, <2>2, <2>5, StillCovered DEF Covered, Covers
<1>6. CASE CleanStaging
  <2>1. P \in Pkg BY <1>6, Present DEF CleanStaging, TInv
  <2>2. \A p \in Pkg \ {P} : Same(p)
    BY <1>6, <2>1 DEF CleanStaging, Same, TInv, StampsOK, BuiltOK
  <2>3. \A p \in Pkg : p = P => Covers(p)'
    BY <1>6, <2>1 DEF CleanStaging, TInv, StampsOK, BuiltOK, Covers
  <2> QED BY <2>1, <2>2, <2>3, StillCovered DEF Covered, Covers
<1>7. CASE Configure
  <2>1. P \in Pkg BY <1>7, Present DEF Configure, TInv
  <2>2. \A p \in Pkg \ {P} : Same(p)
    BY <1>7, <2>1 DEF Configure, Same, TInv, StampsOK, BuiltOK
  <2>3. installed[P] = 0 BY <1>7 DEF Configure, Unmarked
  <2>4. \A p \in Pkg : p = P => Covers(p)'
    BY <1>7, <2>1, <2>3 DEF Configure, Covers
  <2> QED BY <2>1, <2>2, <2>4, StillCovered DEF Covered, Covers
<1>8. CASE RemoveConfigured
  <2>1. P \in Pkg BY <1>8, Present DEF RemoveConfigured, TInv
  <2>2. \A p \in Pkg \ {P} : Same(p)
    BY <1>8, <2>1 DEF RemoveConfigured, Same, TInv, StampsOK, BuiltOK
  <2>3. installed[P] = 0 BY <1>8 DEF RemoveConfigured, Unmarked
  <2>4. \A p \in Pkg : p = P => Covers(p)'
    BY <1>8, <2>1, <2>3 DEF RemoveConfigured, Covers
  <2> QED BY <2>1, <2>2, <2>4, StillCovered DEF Covered, Covers
<1>9. CASE TouchConfigured
  <2>1. P \in Pkg BY <1>9, Present DEF TouchConfigured, TInv
  <2>2. \A p \in Pkg \ {P} : Same(p)
    BY <1>9, <2>1 DEF TouchConfigured, Same, TInv, StampsOK, BuiltOK
  <2>3. installed[P] = 0 BY <1>9 DEF TouchConfigured, Unmarked
  <2>4. \A p \in Pkg : p = P => Covers(p)'
    BY <1>9, <2>1, <2>3 DEF TouchConfigured, Covers
  <2> QED BY <2>1, <2>2, <2>4, StillCovered DEF Covered, Covers
<1>10. CASE Compile
  <2>1. P \in Pkg BY <1>10, Present DEF Compile, TInv
  <2>2. \A p \in Pkg \ {P} : Same(p)
    BY <1>10, <2>1 DEF Compile, Same, TInv, StampsOK, BuiltOK
  <2>3. installed[P] = 0 BY <1>10, NotInstalled DEF Compile, Unmarked
  <2>4. \A p \in Pkg : p = P => Covers(p)'
    BY <1>10, <2>1, <2>3 DEF Compile, Covers
  <2> QED BY <2>1, <2>2, <2>4, StillCovered DEF Covered, Covers
<1>11. CASE TouchBuilt
  <2>1. P \in Pkg BY <1>11, Present DEF TouchBuilt, TInv
  <2>2. \A p \in Pkg \ {P} : Same(p)
    BY <1>11, <2>1 DEF TouchBuilt, Same, TInv, StampsOK, BuiltOK
  <2>3. installed[P] = 0 BY <1>11 DEF TouchBuilt, Unmarked
  <2>4. \A p \in Pkg : p = P => Covers(p)'
    BY <1>11, <2>1, <2>3 DEF TouchBuilt, Covers
  <2> QED BY <2>1, <2>2, <2>4, StillCovered DEF Covered, Covers
<1>12. CASE TouchInstalled
  <2>1. P \in Pkg BY <1>12, Present DEF TouchInstalled, TInv
  <2>2. \A p \in Pkg \ {P} : Same(p)
    BY <1>12, <2>1 DEF TouchInstalled, Same, TInv, StampsOK, BuiltOK
  <2>3. now' \in Nat /\ now < now' BY <1>12, Later DEF TouchInstalled, TInv, ClockOK
  <2>4. Settled(P) BY <1>12 DEF TouchInstalled, Compiled
  <2>5. built[P] \in Nat /\ now \in Nat /\ built[P] <= now
    BY <2>1 DEF TInv, StampsOK, ClockOK, Past
  <2>6. \A p \in Pkg : p = P => Covers(p)'
    BY <1>12, <2>1, <2>3, <2>4, <2>5 DEF TouchInstalled, TInv, StampsOK, BuiltOK, Covers,
       Quiet, Settled, UpToDateBy, Sec
  <2> QED BY <2>1, <2>2, <2>6, StillCovered DEF Covered, Covers
<1>13. ASSUME NEW p \in Pkg, Clean(p) PROVE Covered'
  <2>1. \A q \in Pkg \ {p} : Same(q) BY <1>13 DEF Clean, Same
  <2>2. installed'[p] = 0 BY <1>13 DEF Clean, TInv, StampsOK
  <2>3. \A q \in Pkg : q = p => Covers(q)' BY <2>2 DEF Covers
  <2> QED BY <2>1, <2>3, StillCovered DEF Covered, Covers
<1> QED BY <1>1, <1>2, <1>3, <1>4, <1>5, <1>6, <1>7, <1>8, <1>9, <1>10, <1>11, <1>12,
           <1>13 DEF Next

\* Where a make goes when it leaves a package, begins, or is cut short.
LEMMA Leaves ==
    ASSUME JobOK, NextPackage \/ Make \/ Abort PROVE job'.pc \in {"idle", "parse"}
<1>1. CASE NextPackage
  <2>1. job' = Idle \/ job' = [job EXCEPT !.todo = Tail(job.todo), !.pc = "parse"]
    BY <1>1 DEF NextPackage
  <2>2. CASE job' = Idle BY <2>2 DEF Idle
  <2>3. CASE job' = [job EXCEPT !.todo = Tail(job.todo), !.pc = "parse"]
    BY <2>3 DEF JobOK
  <2> QED BY <2>1, <2>2, <2>3
<1>2. CASE Make BY <1>2 DEF Make, Idle
<1>3. CASE Abort BY <1>3 DEF Abort, Idle
<1> QED BY <1>1, <1>2, <1>3

\* The developer does not move the make.
LEMMA Outside ==
    ASSUME JobOK, NEW p \in Pkg, Edit(p) \/ SetOption(p) \/ Clean(p)
    PROVE  /\ job'.pc = job.pc /\ job'.todo = job.todo /\ job'.list = job.list
           /\ Edit(p) \/ job.pc = "idle"
BY DEF JobOK, Edit, SetOption, Clean, Edited, At

\* Unpacking begins on a bare directory.
LEMMA StepBare ==
    ASSUME TInv, Stages, [Next]_vars PROVE Bare'
<1>1. JobOK BY DEF TInv
<1>2. Bare BY DEF Stages
<1>3. CASE \/ Parse \/ TouchPrepared \/ CleanStaging \/ Unstage \/ Configure \/
              RemoveConfigured \/ TouchConfigured \/ Compile \/ TouchBuilt \/
              BuiltAlready \/ RemoveIpk \/ MakeIpk \/ WriteVersion \/ InstallClean \/
              InstallList \/ InstallCopy \/ TouchInstalled
  <2>1. job'.pc \notin {"unpack", "prepared"}
    BY <1>1, <1>3 DEF Parse, TouchPrepared, CleanStaging, Unstage, Configure,
                      RemoveConfigured, TouchConfigured, Compile, TouchBuilt,
                      BuiltAlready, RemoveIpk, MakeIpk, WriteVersion, InstallClean,
                      InstallList, InstallCopy, TouchInstalled, JobOK, Goto
  <2> QED BY <2>1 DEF Bare
<1>4. CASE Make \/ NextPackage \/ Abort
  <2>1. job'.pc \in {"idle", "parse"} BY <1>1, <1>4, Leaves
  <2> QED BY <2>1 DEF Bare
<1>5. CASE SecondPasses \/ UNCHANGED vars
  <2>1. UNCHANGED <<job, prepared, configured>>
    BY <1>5 DEF SecondPasses, sources, stamps, outputs, vars
  <2> QED BY <1>2, <2>1 DEF Bare, P
<1>6. ASSUME NEW p \in Pkg, Edit(p) \/ SetOption(p) \/ Clean(p) PROVE Bare'
  <2>1. job'.pc = job.pc /\ job'.todo = job.todo /\ job'.list = job.list
    BY <1>1, <1>6, Outside
  <2>2. CASE job.pc = "idle" BY <2>1, <2>2 DEF Bare
  <2>3. CASE Edit(p)
    <3>1. UNCHANGED <<prepared, configured>> BY <2>3 DEF Edit, stamps, outputs
    <3> QED BY <1>2, <2>1, <3>1 DEF Bare, P
  <2> QED BY <1>1, <1>6, <2>2, <2>3, Outside
<1>7. CASE Wipe
  <2>1. P \in Pkg /\ P' = P /\ job'.list = job.list
    BY <1>1, <1>7, Present DEF Wipe, At, Goto, JobOK, P
  <2>2. prepared'[P].time = 0 /\ configured'[P] = NoConfigured
    BY <1>7, <2>1 DEF Wipe, TInv, StampsOK
  <2> QED BY <1>1, <1>2, <1>7, <2>1, <2>2 DEF Wipe, Bare, At, Goto, JobOK
<1>8. CASE Unpack
  <2>1. P \in Pkg /\ P' = P /\ job'.list = job.list
    BY <1>1, <1>8, Present DEF Unpack, At, Goto, JobOK, P
  <2>2. UNCHANGED <<prepared, configured>> BY <1>8 DEF Unpack, stamps
  <2> QED BY <1>1, <1>2, <1>8, <2>1, <2>2 DEF Unpack, Bare, At, Goto, JobOK
<1> QED BY <1>3, <1>4, <1>5, <1>6, <1>7, <1>8 DEF Next

\* Every .configured_* is gone before the new one is made.
LEMMA StepCleared ==
    ASSUME TInv, Stages, [Next]_vars PROVE Cleared'
<1>1. JobOK BY DEF TInv
<1>2. Cleared BY DEF Stages
<1>3. CASE \/ Parse \/ Wipe \/ Unpack \/ TouchPrepared \/ CleanStaging \/ Unstage \/
              Configure \/ TouchConfigured \/ Compile \/ TouchBuilt \/ BuiltAlready \/
              RemoveIpk \/ MakeIpk \/ WriteVersion \/ InstallClean \/ InstallList \/
              InstallCopy \/ TouchInstalled
  <2>1. job'.pc \notin {"configured"}
    BY <1>1, <1>3 DEF Parse, Wipe, Unpack, TouchPrepared, CleanStaging, Unstage,
                      Configure, TouchConfigured, Compile, TouchBuilt, BuiltAlready,
                      RemoveIpk, MakeIpk, WriteVersion, InstallClean, InstallList,
                      InstallCopy, TouchInstalled, JobOK, Goto
  <2> QED BY <2>1 DEF Cleared
<1>4. CASE Make \/ NextPackage \/ Abort
  <2>1. job'.pc \in {"idle", "parse"} BY <1>1, <1>4, Leaves
  <2> QED BY <2>1 DEF Cleared
<1>5. CASE SecondPasses \/ UNCHANGED vars
  <2>1. UNCHANGED <<job, configured>>
    BY <1>5 DEF SecondPasses, sources, stamps, outputs, vars
  <2> QED BY <1>2, <2>1 DEF Cleared, P
<1>6. ASSUME NEW p \in Pkg, Edit(p) \/ SetOption(p) \/ Clean(p) PROVE Cleared'
  <2>1. job'.pc = job.pc /\ job'.todo = job.todo /\ job'.list = job.list
    BY <1>1, <1>6, Outside
  <2>2. CASE job.pc = "idle" BY <2>1, <2>2 DEF Cleared
  <2>3. CASE Edit(p)
    <3>1. UNCHANGED <<configured>> BY <2>3 DEF Edit, stamps, outputs
    <3> QED BY <1>2, <2>1, <3>1 DEF Cleared, P
  <2> QED BY <1>1, <1>6, <2>2, <2>3, Outside
<1>7. CASE RemoveConfigured
  <2>1. P \in Pkg /\ P' = P /\ job'.list = job.list
    BY <1>1, <1>7, Present DEF RemoveConfigured, At, Goto, JobOK, P
  <2>2. configured'[P] = NoConfigured BY <1>7, <2>1 DEF RemoveConfigured, TInv, StampsOK
  <2> QED BY <1>1, <1>2, <1>7, <2>1, <2>2 DEF RemoveConfigured, Cleared, At, Goto, JobOK
<1> QED BY <1>3, <1>4, <1>5, <1>6, <1>7 DEF Next

\* From CleanStaging to .built, and from the cleaning to .installed, there is no
\* .installed.
LEMMA StepUnmarked ==
    ASSUME TInv, Stages, [Next]_vars PROVE Unmarked'
<1>1. JobOK BY DEF TInv
<1>2. Unmarked BY DEF Stages
<1>3. CASE \/ Parse \/ Wipe \/ Unpack \/ TouchPrepared \/ TouchBuilt \/ BuiltAlready \/
              RemoveIpk \/ MakeIpk \/ WriteVersion \/ TouchInstalled
  <2>1. job'.pc \notin {"unstage", "configure", "oldconf", "configured", "compile", "built",
                    "list", "copy", "installed"}
    BY <1>1, <1>3 DEF Parse, Wipe, Unpack, TouchPrepared, TouchBuilt, BuiltAlready,
                      RemoveIpk, MakeIpk, WriteVersion, TouchInstalled, JobOK, Goto
  <2> QED BY <2>1 DEF Unmarked
<1>4. CASE Make \/ NextPackage \/ Abort
  <2>1. job'.pc \in {"idle", "parse"} BY <1>1, <1>4, Leaves
  <2> QED BY <2>1 DEF Unmarked
<1>5. CASE SecondPasses \/ UNCHANGED vars
  <2>1. UNCHANGED <<job, installed>>
    BY <1>5 DEF SecondPasses, sources, stamps, outputs, vars
  <2> QED BY <1>2, <2>1 DEF Unmarked, P
<1>6. ASSUME NEW p \in Pkg, Edit(p) \/ SetOption(p) \/ Clean(p) PROVE Unmarked'
  <2>1. job'.pc = job.pc /\ job'.todo = job.todo /\ job'.list = job.list
    BY <1>1, <1>6, Outside
  <2>2. CASE job.pc = "idle" BY <2>1, <2>2 DEF Unmarked
  <2>3. CASE Edit(p)
    <3>1. UNCHANGED <<installed>> BY <2>3 DEF Edit, stamps, outputs
    <3> QED BY <1>2, <2>1, <3>1 DEF Unmarked, P
  <2> QED BY <1>1, <1>6, <2>2, <2>3, Outside
<1>7. CASE CleanStaging
  <2>1. P \in Pkg /\ P' = P /\ job'.list = job.list
    BY <1>1, <1>7, Present DEF CleanStaging, At, Goto, JobOK, P
  <2>2. installed'[P] = 0 BY <1>7, <2>1 DEF CleanStaging, TInv, StampsOK
  <2> QED BY <1>1, <1>2, <1>7, <2>1, <2>2 DEF CleanStaging, Unmarked, At, Goto, JobOK
<1>8. CASE Unstage
  <2>1. P \in Pkg /\ P' = P /\ job'.list = job.list
    BY <1>1, <1>8, Present DEF Unstage, At, Goto, JobOK, P
  <2>2. UNCHANGED installed BY <1>8 DEF Unstage, stamps
  <2>3. installed[P] = 0 BY <1>2, <1>8 DEF Unstage, Unmarked, At
  <2> QED BY <1>1, <1>2, <1>8, <2>1, <2>2, <2>3 DEF Unstage, Unmarked, At, Goto, JobOK
<1>9. CASE Configure
  <2>1. P \in Pkg /\ P' = P /\ job'.list = job.list
    BY <1>1, <1>9, Present DEF Configure, At, Goto, JobOK, P
  <2>2. UNCHANGED installed BY <1>9 DEF Configure, stamps
  <2>3. installed[P] = 0 BY <1>2, <1>9 DEF Configure, Unmarked, At
  <2> QED BY <1>1, <1>2, <1>9, <2>1, <2>2, <2>3 DEF Configure, Unmarked, At, Goto, JobOK
<1>10. CASE RemoveConfigured
  <2>1. P \in Pkg /\ P' = P /\ job'.list = job.list
    BY <1>1, <1>10, Present DEF RemoveConfigured, At, Goto, JobOK, P
  <2>2. UNCHANGED installed BY <1>10 DEF RemoveConfigured, stamps
  <2>3. installed[P] = 0 BY <1>2, <1>10 DEF RemoveConfigured, Unmarked, At
  <2> QED BY <1>1, <1>2, <1>10, <2>1, <2>2, <2>3 DEF RemoveConfigured, Unmarked, At,
             Goto, JobOK
<1>11. CASE TouchConfigured
  <2>1. P \in Pkg /\ P' = P /\ job'.list = job.list
    BY <1>1, <1>11, Present DEF TouchConfigured, At, Goto, JobOK, P
  <2>2. UNCHANGED installed BY <1>11 DEF TouchConfigured, stamps
  <2>3. installed[P] = 0 BY <1>2, <1>11 DEF TouchConfigured, Unmarked, At
  <2> QED BY <1>1, <1>2, <1>11, <2>1, <2>2, <2>3 DEF TouchConfigured, Unmarked, At, Goto,
             JobOK
<1>12. CASE Compile
  <2>1. P \in Pkg /\ P' = P /\ job'.list = job.list
    BY <1>1, <1>12, Present DEF Compile, At, Goto, JobOK, P
  <2>2. UNCHANGED installed BY <1>12 DEF Compile, stamps
  <2>3. installed[P] = 0 BY <1>2, <1>12, NotInstalled DEF Compile, Unmarked, At
  <2> QED BY <1>1, <1>2, <1>12, <2>1, <2>2, <2>3 DEF Compile, Unmarked, At, Goto, JobOK
<1>13. CASE InstallClean
  <2>1. P \in Pkg /\ P' = P /\ job'.list = job.list
    BY <1>1, <1>13, Present DEF InstallClean, At, Goto, JobOK, P
  <2>2. UNCHANGED installed BY <1>13 DEF InstallClean, stamps
  <2>3. Compiled BY DEF Stages
  <2>4. installed[P] = 0
    BY <1>13, <2>1, <2>3 DEF InstallClean, NeedInstall, Compiled, At, TInv, StampsOK
  <2> QED BY <1>1, <1>2, <1>13, <2>1, <2>2, <2>3, <2>4 DEF InstallClean, Unmarked, At,
             Goto, JobOK
<1>14. CASE InstallList
  <2>1. P \in Pkg /\ P' = P /\ job'.list = job.list
    BY <1>1, <1>14, Present DEF InstallList, At, Goto, JobOK, P
  <2>2. UNCHANGED installed BY <1>14 DEF InstallList, stamps
  <2>3. installed[P] = 0 BY <1>2, <1>14 DEF InstallList, Unmarked, At
  <2> QED BY <1>1, <1>2, <1>14, <2>1, <2>2, <2>3 DEF InstallList, Unmarked, At, Goto,
             JobOK
<1>15. CASE InstallCopy
  <2>1. P \in Pkg /\ P' = P /\ job'.list = job.list
    BY <1>1, <1>15, Present DEF InstallCopy, At, Goto, JobOK, P
  <2>2. UNCHANGED installed BY <1>15 DEF InstallCopy, stamps
  <2>3. installed[P] = 0 BY <1>2, <1>15 DEF InstallCopy, Unmarked, At
  <2> QED BY <1>1, <1>2, <1>15, <2>1, <2>2, <2>3 DEF InstallCopy, Unmarked, At, Goto,
             JobOK
<1> QED BY <1>3, <1>4, <1>5, <1>6, <1>7, <1>8, <1>9, <1>10, <1>11, <1>12, <1>13, <1>14,
           <1>15 DEF Next

\* After .built the package is settled.
LEMMA StepCompiled ==
    ASSUME TInv, Stages, [Next]_vars PROVE Compiled'
<1>1. JobOK BY DEF TInv
<1>2. Compiled BY DEF Stages
<1>3. CASE \/ Parse \/ Wipe \/ Unpack \/ TouchPrepared \/ CleanStaging \/ Unstage \/
              Configure \/ RemoveConfigured \/ TouchConfigured \/ Compile \/
              TouchInstalled
  <2>1. job'.pc \notin {"pack", "ipk", "version", "install", "list", "copy", "installed"}
    BY <1>1, <1>3 DEF Parse, Wipe, Unpack, TouchPrepared, CleanStaging, Unstage,
                      Configure, RemoveConfigured, TouchConfigured, Compile,
                      TouchInstalled, JobOK, Goto
  <2> QED BY <2>1 DEF Compiled
<1>4. CASE Make \/ NextPackage \/ Abort
  <2>1. job'.pc \in {"idle", "parse"} BY <1>1, <1>4, Leaves
  <2> QED BY <2>1 DEF Compiled
<1>5. CASE SecondPasses \/ UNCHANGED vars
  <2>1. UNCHANGED <<job, installed, built, configured, tree>>
    BY <1>5 DEF SecondPasses, sources, stamps, outputs, vars
  <2> QED BY <1>2, <2>1 DEF Compiled, P, Settled, UpToDateBy, Sec
<1>6. ASSUME NEW p \in Pkg, Edit(p) \/ SetOption(p) \/ Clean(p) PROVE Compiled'
  <2>1. job'.pc = job.pc /\ job'.todo = job.todo /\ job'.list = job.list
    BY <1>1, <1>6, Outside
  <2>2. CASE job.pc = "idle" BY <2>1, <2>2 DEF Compiled
  <2>3. CASE Edit(p)
    <3>1. UNCHANGED <<installed, built, configured, tree>>
      BY <2>3 DEF Edit, stamps, outputs
    <3> QED BY <1>2, <2>1, <3>1 DEF Compiled, P, Settled, UpToDateBy, Sec
  <2> QED BY <1>1, <1>6, <2>2, <2>3, Outside
<1>7. CASE TouchBuilt
  <2>1. P \in Pkg /\ P' = P /\ job'.list = job.list
    BY <1>1, <1>7, Present DEF TouchBuilt, At, Goto, JobOK, P
  <2>2. now \in Nat /\ now' \in Nat /\ now < now'
    BY <1>7, Later DEF TouchBuilt, TInv, ClockOK
  <2>3. installed'[P] = 0 BY <1>7 DEF TouchBuilt, Stages, Unmarked, At
  <2>4. built'[P] = now' /\ UNCHANGED <<tree, configured>>
    BY <1>7, <2>1 DEF TouchBuilt, outputs, TInv, StampsOK
  <2>5. tree[P].time \in Nat /\ tree[P].time <= now
    BY <2>1 DEF TInv, BuiltOK, Tree, Stages, Past
  <2>6. UpToDateBy(built'[P], tree'[P].time) BY <2>2, <2>4, <2>5, TouchedLast
  <2>7. \A c \in Conf : configured'[P][c] <= built'[P]
    BY <2>1, <2>2, <2>4 DEF TInv, StampsOK, Stages, Past
  <2>8. Settled(P)' BY <2>1, <2>6, <2>7 DEF Settled, UpToDateBy, Sec
  <2> QED BY <1>1, <1>2, <1>7, <2>1, <2>2, <2>3, <2>4, <2>5, <2>6, <2>7, <2>8
             DEF TouchBuilt, Compiled, At, Goto, JobOK
<1>8. CASE BuiltAlready
  <2>1. P \in Pkg /\ P' = P /\ job'.list = job.list
    BY <1>1, <1>8, Present DEF BuiltAlready, At, Goto, JobOK, P
  <2>2. UNCHANGED <<installed, built, configured, tree>>
    BY <1>8 DEF BuiltAlready, stamps, outputs
  <2>3. Settled(P) /\ (installed[P] # 0 => built[P] <= installed[P])
    BY <1>8, NothingToCompile DEF BuiltAlready
  <2> QED BY <1>1, <1>2, <1>8, <2>1, <2>2, <2>3 DEF BuiltAlready, Compiled, At, Goto,
             JobOK, Settled, UpToDateBy, Sec
<1>9. CASE RemoveIpk
  <2>1. P \in Pkg /\ P' = P /\ job'.list = job.list
    BY <1>1, <1>9, Present DEF RemoveIpk, At, Goto, JobOK, P
  <2>2. UNCHANGED <<installed, built, configured, tree>> BY <1>9 DEF RemoveIpk, stamps
  <2> QED BY <1>1, <1>2, <1>9, <2>1, <2>2 DEF RemoveIpk, Compiled, At, Goto, JobOK,
             Settled, UpToDateBy, Sec
<1>10. CASE MakeIpk
  <2>1. P \in Pkg /\ P' = P /\ job'.list = job.list
    BY <1>1, <1>10, Present DEF MakeIpk, At, Goto, JobOK, P
  <2>2. UNCHANGED <<installed, built, configured, tree>> BY <1>10 DEF MakeIpk, stamps
  <2> QED BY <1>1, <1>2, <1>10, <2>1, <2>2 DEF MakeIpk, Compiled, At, Goto, JobOK,
             Settled, UpToDateBy, Sec
<1>11. CASE WriteVersion
  <2>1. P \in Pkg /\ P' = P /\ job'.list = job.list
    BY <1>1, <1>11, Present DEF WriteVersion, At, Goto, JobOK, P
  <2>2. UNCHANGED <<installed, built, configured, tree>> BY <1>11 DEF WriteVersion, stamps
  <2> QED BY <1>1, <1>2, <1>11, <2>1, <2>2 DEF WriteVersion, Compiled, At, Goto, JobOK,
             Settled, UpToDateBy, Sec
<1>12. CASE InstallClean
  <2>1. P \in Pkg /\ P' = P /\ job'.list = job.list
    BY <1>1, <1>12, Present DEF InstallClean, At, Goto, JobOK, P
  <2>2. UNCHANGED <<installed, built, configured, tree>> BY <1>12 DEF InstallClean, stamps
  <2> QED BY <1>1, <1>2, <1>12, <2>1, <2>2 DEF InstallClean, Compiled, At, Goto, JobOK,
             Settled, UpToDateBy, Sec
<1>13. CASE InstallList
  <2>1. P \in Pkg /\ P' = P /\ job'.list = job.list
    BY <1>1, <1>13, Present DEF InstallList, At, Goto, JobOK, P
  <2>2. UNCHANGED <<installed, built, configured, tree>> BY <1>13 DEF InstallList, stamps
  <2> QED BY <1>1, <1>2, <1>13, <2>1, <2>2 DEF InstallList, Compiled, At, Goto, JobOK,
             Settled, UpToDateBy, Sec
<1>14. CASE InstallCopy
  <2>1. P \in Pkg /\ P' = P /\ job'.list = job.list
    BY <1>1, <1>14, Present DEF InstallCopy, At, Goto, JobOK, P
  <2>2. UNCHANGED <<installed, built, configured, tree>> BY <1>14 DEF InstallCopy, stamps
  <2> QED BY <1>1, <1>2, <1>14, <2>1, <2>2 DEF InstallCopy, Compiled, At, Goto, JobOK,
             Settled, UpToDateBy, Sec
<1> QED BY <1>3, <1>4, <1>5, <1>6, <1>7, <1>8, <1>9, <1>10, <1>11, <1>12, <1>13,
           <1>14 DEF Next

\* What a cleaning that reads the list of the package leaves: nothing.
LEMMA CleanedOut ==
    ASSUME NEW p \in Pkg, NothingOrphaned PROVE {f \in staged[p] : f.name \notin listed[p]} = {}
BY DEF NothingOrphaned

\* Where the staging directory is cleaned and filled, no .installed stands.
LEMMA NotMarked ==
    ASSUME TInv, Stages, Unstage \/ InstallClean \/ InstallList \/ InstallCopy
    PROVE  P \in Pkg /\ installed[P] = 0
<1>1. P \in Pkg BY Present DEF TInv, Unstage, InstallClean, InstallList, InstallCopy, At
<1>2. CASE InstallClean
  <2>1. Compiled BY DEF Stages
  <2> QED BY <1>1, <1>2, <2>1 DEF InstallClean, NeedInstall, Compiled, At, TInv, StampsOK
<1>3. CASE Unstage \/ InstallList \/ InstallCopy
  <2>1. job.pc \in {"unstage", "list", "copy"}
    BY <1>3 DEF Unstage, InstallList, InstallCopy, At
  <2> QED BY <1>1, <2>1 DEF Stages, Unmarked
<1> QED BY <1>1, <1>2, <1>3

\* What a copying does.
LEMMA Copying ==
    ASSUME TInv, InstallCopy
    PROVE  \E some \in SUBSET Names(job.list) :
        /\ \A p \in Pkg \ {P} : staged'[p] = staged[p]
        /\ staged'[P] = {f \in staged[P] : f.name \notin some} \cup
                        {[name |-> n, obj |-> tree[P].obj, abi |-> src[P].abi] : n \in some}
        /\ job'.pc = IF some = Names(job.list) THEN "installed" ELSE "copy"
<1>1. P \in Pkg BY Present DEF TInv, InstallCopy, At
<1>2. PICK some \in SUBSET Names(job.list) :
          /\ staged' = [staged EXCEPT
                ![P] = {f \in @ : f.name \notin some} \cup
                       {[name |-> n, obj |-> tree[P].obj, abi |-> src[P].abi] : n \in some}]
          /\ Goto(IF some = Names(job.list) THEN "installed" ELSE "copy")
  BY DEF InstallCopy
<1>3. \A p \in Pkg \ {P} : staged'[p] = staged[p] BY <1>1, <1>2 DEF TInv, StagedOK
<1>4. staged'[P] = {f \in staged[P] : f.name \notin some} \cup
                   {[name |-> n, obj |-> tree[P].obj, abi |-> src[P].abi] : n \in some}
  BY <1>1, <1>2 DEF TInv, StagedOK
<1>5. job'.pc = IF some = Names(job.list) THEN "installed" ELSE "copy"
  BY <1>2 DEF Goto, TInv, JobOK
<1> QED BY <1>3, <1>4, <1>5

\* A staged file stays in the list.
LEMMA StepOrphans ==
    ASSUME TInv, Stages, Contents, [Next]_vars PROVE NothingOrphaned'
<1> USE DEF Contents, NothingOrphaned, sources, stamps, outputs, At, Goto
<1>1. CASE \/ Parse \/ Wipe \/ Unpack \/ TouchPrepared \/ CleanStaging \/ Configure \/
              RemoveConfigured \/ TouchConfigured \/ Compile \/ TouchBuilt \/
              BuiltAlready \/ RemoveIpk \/ MakeIpk \/ WriteVersion \/ TouchInstalled \/
              Make \/ NextPackage \/ Abort \/ SecondPasses \/ UNCHANGED vars
  <2>1. UNCHANGED <<listed, staged>>
    BY <1>1 DEF Parse, Wipe, Unpack, TouchPrepared, CleanStaging, Configure,
                RemoveConfigured, TouchConfigured, Compile, TouchBuilt, BuiltAlready,
                RemoveIpk, MakeIpk, WriteVersion, TouchInstalled, Make, NextPackage,
                Abort, SecondPasses, sources, stamps, outputs, vars
  <2> QED BY <2>1
<1>2. ASSUME NEW p \in Pkg, Edit(p) \/ SetOption(p) PROVE NothingOrphaned'
  <2>1. UNCHANGED <<listed, staged>> BY <1>2 DEF Edit, SetOption, Edited
  <2> QED BY <2>1
<1>3. CASE Unstage
  <2>1. P \in Pkg BY <1>3, Present DEF Unstage, TInv
  <2>2. \A p \in Pkg \ {P} : staged'[p] = staged[p] /\ listed'[p] = listed[p]
    BY <1>3, <2>1 DEF Unstage, TInv, StagedOK
  <2>3. staged'[P] \subseteq staged[P] /\ listed'[P] = listed[P]
    BY <1>3, <2>1 DEF Unstage, TInv, StagedOK
  <2> QED BY <2>1, <2>2, <2>3
<1>4. CASE InstallClean
  <2>1. P \in Pkg BY <1>4, Present DEF InstallClean, TInv
  <2>2. \A p \in Pkg \ {P} : staged'[p] = staged[p] /\ listed'[p] = listed[p]
    BY <1>4, <2>1 DEF InstallClean, TInv, StagedOK
  <2>3. staged'[P] \subseteq staged[P] /\ listed'[P] = listed[P]
    BY <1>4, <2>1 DEF InstallClean, TInv, StagedOK
  <2> QED BY <2>1, <2>2, <2>3
<1>5. CASE InstallList
  <2>1. P \in Pkg BY <1>5, Present DEF InstallList, TInv
  <2>2. \A p \in Pkg \ {P} : staged'[p] = staged[p] /\ listed'[p] = listed[p]
    BY <1>5, <2>1 DEF InstallList, TInv, StagedOK
  <2>3. staged'[P] = {} BY <1>5, <2>1 DEF InstallList, Emptied
  <2> QED BY <2>1, <2>2, <2>3
<1>6. CASE InstallCopy
  <2>1. P \in Pkg BY <1>6, Present DEF InstallCopy, TInv
  <2>2. PICK some \in SUBSET Names(job.list) :
            /\ \A p \in Pkg \ {P} : staged'[p] = staged[p]
            /\ staged'[P] = {f \in staged[P] : f.name \notin some} \cup
                 {[name |-> n, obj |-> tree[P].obj, abi |-> src[P].abi] : n \in some}
    BY <1>6, Copying
  <2>3. listed[P] = Names(job.list) /\ UNCHANGED listed BY <1>6 DEF InstallCopy, Copied
  <2>4. \A f \in staged'[P] : f.name \in listed[P] BY <2>1, <2>2, <2>3
  <2> QED BY <2>1, <2>2, <2>3, <2>4
<1>7. ASSUME NEW p \in Pkg, Clean(p) PROVE NothingOrphaned'
  <2>1. \A q \in Pkg \ {p} : staged'[q] = staged[q] /\ listed'[q] = listed[q]
    BY <1>7 DEF Clean, TInv, StagedOK
  <2>2. staged'[p] = {} BY <1>7, CleanedOut DEF Clean, TInv, StagedOK
  <2> QED BY <2>1, <2>2
<1> QED BY <1>1, <1>2, <1>3, <1>4, <1>5, <1>6, <1>7 DEF Next

\* The cleaning before the copying leaves nothing of the package.
LEMMA StepEmptied ==
    ASSUME TInv, Stages, Contents, [Next]_vars PROVE Emptied'
<1>1. JobOK BY DEF TInv
<1>2. Emptied BY DEF Stages, Contents
<1>3. CASE \/ Parse \/ Wipe \/ Unpack \/ TouchPrepared \/ CleanStaging \/ Unstage \/
              Configure \/ RemoveConfigured \/ TouchConfigured \/ Compile \/
              TouchBuilt \/ BuiltAlready \/ RemoveIpk \/ MakeIpk \/ WriteVersion \/
              InstallList \/ InstallCopy \/ TouchInstalled
  <2>1. job'.pc \notin {"list"}
    BY <1>1, <1>3 DEF Parse, Wipe, Unpack, TouchPrepared, CleanStaging, Unstage,
                      Configure, RemoveConfigured, TouchConfigured, Compile,
                      TouchBuilt, BuiltAlready, RemoveIpk, MakeIpk, WriteVersion,
                      InstallList, InstallCopy, TouchInstalled, JobOK, Goto
  <2> QED BY <2>1 DEF Emptied
<1>4. CASE Make \/ NextPackage \/ Abort
  <2>1. job'.pc \in {"idle", "parse"} BY <1>1, <1>4, Leaves
  <2> QED BY <2>1 DEF Emptied
<1>5. CASE SecondPasses \/ UNCHANGED vars
  <2>1. UNCHANGED <<job, staged>> BY <1>5 DEF SecondPasses, sources, stamps, outputs, vars
  <2> QED BY <1>2, <2>1 DEF Emptied, P
<1>6. ASSUME NEW p \in Pkg, Edit(p) \/ SetOption(p) \/ Clean(p) PROVE Emptied'
  <2>1. job'.pc = job.pc /\ job'.todo = job.todo /\ job'.list = job.list
    BY <1>1, <1>6, Outside
  <2>2. CASE job.pc = "idle" BY <2>1, <2>2 DEF Emptied
  <2>3. CASE Edit(p)
    <3>1. UNCHANGED <<staged>> BY <2>3 DEF Edit, stamps, outputs
    <3> QED BY <1>2, <2>1, <3>1 DEF Emptied, P
  <2> QED BY <1>1, <1>6, <2>2, <2>3, Outside
<1>7. CASE InstallClean
  <2>1. P \in Pkg /\ P' = P /\ job'.list = job.list
    BY <1>1, <1>7, Present DEF InstallClean, At, Goto, JobOK, P
  <2>2. NothingOrphaned BY DEF Contents
  <2>3. staged'[P] = {} BY <1>7, <2>1, <2>2, CleanedOut DEF InstallClean, TInv, StagedOK
  <2> QED BY <1>1, <1>2, <1>7, <2>1, <2>2, <2>3 DEF InstallClean, Emptied, At, Goto, JobOK
<1> QED BY <1>3, <1>4, <1>5, <1>6, <1>7 DEF Next

\* While files are copied, the list is the new one and what is copied is of one
\* compilation; when the last is copied all are there.
LEMMA StepCopied ==
    ASSUME TInv, Stages, Contents, [Next]_vars PROVE Copied'
<1>1. JobOK BY DEF TInv
<1>2. Copied BY DEF Stages, Contents
<1>3. CASE \/ Parse \/ Wipe \/ Unpack \/ TouchPrepared \/ CleanStaging \/ Unstage \/
              Configure \/ RemoveConfigured \/ TouchConfigured \/ Compile \/
              TouchBuilt \/ BuiltAlready \/ RemoveIpk \/ MakeIpk \/ WriteVersion \/
              InstallClean \/ TouchInstalled
  <2>1. job'.pc \notin {"copy", "installed"}
    BY <1>1, <1>3 DEF Parse, Wipe, Unpack, TouchPrepared, CleanStaging, Unstage,
                      Configure, RemoveConfigured, TouchConfigured, Compile,
                      TouchBuilt, BuiltAlready, RemoveIpk, MakeIpk, WriteVersion,
                      InstallClean, TouchInstalled, JobOK, Goto
  <2> QED BY <2>1 DEF Copied
<1>4. CASE Make \/ NextPackage \/ Abort
  <2>1. job'.pc \in {"idle", "parse"} BY <1>1, <1>4, Leaves
  <2> QED BY <2>1 DEF Copied
<1>5. CASE SecondPasses \/ UNCHANGED vars
  <2>1. UNCHANGED <<job, listed, staged, tree>>
    BY <1>5 DEF SecondPasses, sources, stamps, outputs, vars
  <2> QED BY <1>2, <2>1 DEF Copied, P
<1>6. ASSUME NEW p \in Pkg, Edit(p) \/ SetOption(p) \/ Clean(p) PROVE Copied'
  <2>1. job'.pc = job.pc /\ job'.todo = job.todo /\ job'.list = job.list
    BY <1>1, <1>6, Outside
  <2>2. CASE job.pc = "idle" BY <2>1, <2>2 DEF Copied
  <2>3. CASE Edit(p)
    <3>1. UNCHANGED <<listed, staged, tree>> BY <2>3 DEF Edit, stamps, outputs
    <3> QED BY <1>2, <2>1, <3>1 DEF Copied, P
  <2> QED BY <1>1, <1>6, <2>2, <2>3, Outside
<1>7. CASE InstallList
  <2>1. P \in Pkg /\ P' = P /\ job'.list = job.list
    BY <1>1, <1>7, Present DEF InstallList, At, Goto, JobOK, P
  <2>2. staged'[P] = {} BY <1>7 DEF InstallList, Contents, Emptied, At
  <2>3. listed'[P] = Names(job.list) BY <1>7, <2>1 DEF InstallList, TInv, StagedOK
  <2>4. job'.pc = "copy" BY <1>1, <1>7 DEF InstallList, Goto, JobOK
  <2> QED BY <1>1, <1>2, <1>7, <2>1, <2>2, <2>3, <2>4 DEF InstallList, Copied, At, Goto,
             JobOK
<1>8. CASE InstallCopy
  <2>1. P \in Pkg /\ P' = P /\ job'.list = job.list
    BY <1>1, <1>8, Present DEF InstallCopy, At, Goto, JobOK, P
  <2>2. PICK some \in SUBSET Names(job.list) :
            /\ staged'[P] = {f \in staged[P] : f.name \notin some} \cup
                 {[name |-> n, obj |-> tree[P].obj, abi |-> src[P].abi] : n \in some}
            /\ job'.pc = IF some = Names(job.list) THEN "installed" ELSE "copy"
    BY <1>8, Copying
  <2>4. /\ listed[P] = Names(job.list) /\ \A f \in staged[P] : f.obj = tree[P].obj
        /\ UNCHANGED <<listed, tree>>
    BY <1>2, <1>8 DEF InstallCopy, Copied, At
  <2>5. \A f \in staged'[P] : f.obj = tree[P].obj BY <2>2, <2>4
  <2>6. ASSUME some = Names(job.list) PROVE {f.name : f \in staged'[P]} = Names(job.list)
    <3>1. \A f \in staged[P] : f.name \in Names(job.list)
      BY <2>1, <2>4 DEF Contents, NothingOrphaned
    <3>2. \A f \in staged'[P] : f.name \in Names(job.list) BY <2>2, <2>6, <3>1
    <3>3. ASSUME NEW n \in Names(job.list) PROVE \E f \in staged'[P] : f.name = n
      <4>1. [name |-> n, obj |-> tree[P].obj, abi |-> src[P].abi] \in staged'[P]
        BY <2>2, <2>6
      <4> QED BY <4>1
    <3> QED BY <3>2, <3>3
  <2>8. listed'[P] = Names(job.list) /\ tree'[P] = tree[P] BY <2>4
  <2>9. job'.pc = "installed" => {f.name : f \in staged'[P]} = Names(job.list)
    BY <2>2, <2>6
  <2> QED BY <2>1, <2>5, <2>8, <2>9 DEF Copied
<1> QED BY <1>3, <1>4, <1>5, <1>6, <1>7, <1>8 DEF Next

\* There is always something to stage.
LEMMA NamesThere == ASSUME NEW list \in 0..1 PROVE Names(list) # {}
BY DEF Names

\* The stamp .installed stands over all files of one compilation.
LEMMA StepStanding ==
    ASSUME TInv, Stages, Contents, [Next]_vars PROVE Standing'
<1> USE DEF Contents, Standing, sources, stamps, outputs, At, Goto
<1>1. CASE \/ Parse \/ Wipe \/ Unpack \/ TouchPrepared \/ Configure \/
              RemoveConfigured \/ TouchConfigured \/ Compile \/ TouchBuilt \/
              BuiltAlready \/ RemoveIpk \/ MakeIpk \/ WriteVersion \/ Make \/
              NextPackage \/ Abort \/ SecondPasses \/ UNCHANGED vars
  <2>1. UNCHANGED <<installed, listed, staged>>
    BY <1>1 DEF Parse, Wipe, Unpack, TouchPrepared, Configure, RemoveConfigured,
                TouchConfigured, Compile, TouchBuilt, BuiltAlready, RemoveIpk, MakeIpk,
                WriteVersion, Make, NextPackage, Abort, SecondPasses,
                sources, stamps, outputs, vars
  <2> QED BY <2>1 DEF Whole
<1>2. ASSUME NEW p \in Pkg, Edit(p) \/ SetOption(p) PROVE Standing'
  <2>1. UNCHANGED <<installed, listed, staged>> BY <1>2 DEF Edit, SetOption, Edited
  <2> QED BY <2>1 DEF Whole
<1>3. CASE CleanStaging
  <2>1. P \in Pkg BY <1>3, Present DEF CleanStaging, TInv
  <2>2. \A p \in Pkg \ {P} : installed'[p] = installed[p] /\ staged'[p] = staged[p] /\ listed'[p] = listed[p]
    BY <1>3, <2>1 DEF CleanStaging, TInv, StampsOK, StagedOK
  <2>3. installed'[P] = 0 BY <1>3, <2>1 DEF CleanStaging, TInv, StampsOK
  <2> QED BY <2>1, <2>2, <2>3 DEF Whole
<1>4. CASE Unstage
  <2>1. P \in Pkg BY <1>4, Present DEF Unstage, TInv
  <2>2. \A p \in Pkg \ {P} : installed'[p] = installed[p] /\ staged'[p] = staged[p] /\ listed'[p] = listed[p]
    BY <1>4, <2>1 DEF Unstage, TInv, StampsOK, StagedOK
  <2>3. installed'[P] = 0 BY <1>4, NotMarked DEF Unstage
  <2> QED BY <2>1, <2>2, <2>3 DEF Whole
<1>5. CASE InstallClean
  <2>1. P \in Pkg BY <1>5, Present DEF InstallClean, TInv
  <2>2. \A p \in Pkg \ {P} : installed'[p] = installed[p] /\ staged'[p] = staged[p] /\ listed'[p] = listed[p]
    BY <1>5, <2>1 DEF InstallClean, TInv, StampsOK, StagedOK
  <2>3. installed'[P] = 0 BY <1>5, NotMarked DEF InstallClean
  <2> QED BY <2>1, <2>2, <2>3 DEF Whole
<1>6. CASE InstallList
  <2>1. P \in Pkg BY <1>6, Present DEF InstallList, TInv
  <2>2. \A p \in Pkg \ {P} : installed'[p] = installed[p] /\ staged'[p] = staged[p] /\ listed'[p] = listed[p]
    BY <1>6, <2>1 DEF InstallList, TInv, StampsOK, StagedOK
  <2>3. installed'[P] = 0 BY <1>6, NotMarked DEF InstallList
  <2> QED BY <2>1, <2>2, <2>3 DEF Whole
<1>7. CASE InstallCopy
  <2>1. P \in Pkg BY <1>7, Present DEF InstallCopy, TInv
  <2>2. \A p \in Pkg \ {P} : installed'[p] = installed[p] /\ staged'[p] = staged[p] /\ listed'[p] = listed[p]
    BY <1>7, <2>1 DEF InstallCopy, TInv, StampsOK, StagedOK
  <2>3. installed'[P] = 0 BY <1>7, NotMarked DEF InstallCopy
  <2> QED BY <2>1, <2>2, <2>3 DEF Whole
<1>8. CASE TouchInstalled
  <2>1. P \in Pkg BY <1>8, Present DEF TouchInstalled, TInv
  <2>2. \A p \in Pkg \ {P} : installed'[p] = installed[p] /\ staged'[p] = staged[p] /\ listed'[p] = listed[p]
    BY <1>8, <2>1 DEF TouchInstalled, TInv, StampsOK, StagedOK
  <2>3. UNCHANGED <<staged, listed>> BY <1>8 DEF TouchInstalled
  <2>4. {f.name : f \in staged[P]} = listed[P] /\ \A f \in staged[P] : f.obj = tree[P].obj
    BY <1>8 DEF TouchInstalled, Copied
  <2>5. staged[P] # {} BY <1>8, <2>4, NamesThere DEF TouchInstalled, Copied, TInv, JobOK
  <2>6. {f.obj : f \in staged[P]} = {tree[P].obj} BY <2>4, <2>5
  <2>7. Whole(P) BY <2>4, <2>6 DEF Whole
  <2> QED BY <2>1, <2>2, <2>3, <2>7 DEF Whole
<1>9. ASSUME NEW p \in Pkg, Clean(p) PROVE Standing'
  <2>1. \A q \in Pkg \ {p} : installed'[q] = installed[q] /\ staged'[q] = staged[q]
                             /\ listed'[q] = listed[q]
    BY <1>9 DEF Clean, TInv, StampsOK, StagedOK
  <2>2. installed'[p] = 0 BY <1>9 DEF Clean, TInv, StampsOK
  <2> QED BY <2>1, <2>2 DEF Whole
<1> QED BY <1>1, <1>2, <1>3, <1>4, <1>5, <1>6, <1>7, <1>8, <1>9 DEF Next

\* At the start nothing is built or staged.
LEMMA Starts == ASSUME Init PROVE Stages /\ Contents
<1>1. now \in Nat /\ now # 0 BY BuildAssumption DEF Init
<1>2. ASSUME NEW p \in Pkg
      PROVE  /\ tree[p].time = 0 /\ built[p] = 0 /\ configured[p] = NoConfigured
             /\ installed[p] = 0 /\ staged[p] = {} /\ listed[p] = {}
  BY DEF Init, NoTree
<1>3. job.pc = "idle" BY DEF Init, Idle
<1>4. Past BY <1>1, <1>2 DEF Past, NoConfigured, Conf
<1>5. OneConf BY <1>2 DEF OneConf, NoConfigured, Conf
<1>6. Covered /\ Standing /\ NothingOrphaned
  BY <1>2 DEF Covered, Standing, NothingOrphaned
<1>7. Bare /\ Cleared /\ Unmarked /\ Compiled /\ Emptied /\ Copied
  BY <1>3 DEF Bare, Cleared, Unmarked, Compiled, Emptied, Copied
<1> QED BY <1>4, <1>5, <1>6, <1>7 DEF Stages, Contents

\* Every step keeps the stages ...
LEMMA StepStages == ASSUME TInv, Stages, [Next]_vars PROVE Stages'
BY StepPast, StepOneConf, StepCovered, StepBare, StepCleared, StepUnmarked,
   StepCompiled DEF Stages

\* ... and the contents of the staging directory ...
LEMMA StepContents == ASSUME TInv, Stages, Contents, [Next]_vars PROVE Contents'
BY StepOrphans, StepEmptied, StepCopied, StepStanding DEF Contents

\* ... so they always hold.
LEMMA Staging == Spec => [](TInv /\ Stages /\ Contents)
<1>1. Init => TInv /\ Stages /\ Contents BY StartsTyped, Starts
<1>2. TInv /\ Stages /\ Contents /\ [Next]_vars => (TInv /\ Stages /\ Contents)'
  BY StepTyped, StepStages, StepContents
<1> QED BY <1>1, <1>2, PTL DEF Spec

\* OrphansNever: whatever was interrupted, a staged file is in the list the next
\* CleanStaging reads (scripts/clean-package.sh), so none is left behind.
THEOREM OrphansNever == Spec => []NothingOrphaned
<1>1. TInv /\ Stages /\ Contents => NothingOrphaned BY DEF Contents
<1> QED BY <1>1, Staging, PTL

\* StampStands: while stamp/.p_installed exists the staging directory holds
\* every file of p, all of one compilation, for any number of makes, edits and
\* interruptions (the .installed rule of build/package.mk).
THEOREM StampStands == Spec => []InstalledStands
<1>1. TInv /\ Stages /\ Contents => InstalledStands
  <2> SUFFICES ASSUME Standing, NEW p \in Pkg, installed[p] # 0
               PROVE  /\ {f.name : f \in staged[p]} = listed[p]
                      /\ Cardinality({f.obj : f \in staged[p]}) = 1
    BY DEF Contents, InstalledStands
  <2>1. {f.name : f \in staged[p]} = listed[p] /\ \E o : {f.obj : f \in staged[p]} = {o}
    BY DEF Standing, Whole
  <2>2. Cardinality({f.obj : f \in staged[p]}) = 1 BY <2>1, FS_Singleton
  <2> QED BY <2>1, <2>2
<1> QED BY <1>1, Staging, PTL

-----------------------------------------------------------------------------
(* What each stamp stands for, and how far the make has come.               *)

\* The value the names of the stamps are made with, and what an object is made of.
Chosen(p) == ConfVar(option[p])
Made(t) == [ver |-> t.ver, conf |-> t.conf, libs |-> t.libs]

\* What make concludes from the times: no source is newer than .prepared; then
\* .configured_<c> and .built are not older than what they follow.
Unedited(p) == prepared[p].time # 0 /\ UpToDateBy(prepared[p].time, src[p].time)
ConfiguredFor(p, c) == prepared[p].time # 0 /\ prepared[p].time <= configured[p][c]
BuiltFor(p, c) ==
    /\ ConfiguredFor(p, c) /\ configured[p][c] <= built[p]
    /\ UpToDateBy(built[p], tree[p].time)
Built(p) == \E c \in Conf : BuiltFor(p, c)

\* .configured_<c> may be believed: it is the one make will ask for, or no make
\* was cut short, which is what leaves an old one beside a tree configured anew.
Trusted(p, c) == c = Chosen(p) \/ (aborts = 0 /\ ~(At("oldconf") /\ p = P))

\* What may be concluded from that: each stamp stands for what was there when
\* it was touched ...
PreparedTells(p) == Unedited(p) => tree[p].ver = src[p].ver /\ prepared[p].list = src[p].list
ConfTells(p) == \A c \in Conf : Trusted(p, c) /\ ConfiguredFor(p, c) => tree[p].conf = c
\* ... the tree was configured against the libraries as their .version files
\* say, for as long as none of them is newer than .prepared ...
LibsTell(p) == \A c \in Conf :
    /\ Trusted(p, c) /\ ConfiguredFor(p, c)
    /\ \A d \in Deps[p] : version[d].time <= prepared[p].time
    => tree[p].libs = {<<d, version[d].abi>> : d \in Deps[p]}
BuiltTells(p) == \A c \in Conf : Trusted(p, c) /\ BuiltFor(p, c) => tree[p].obj = Made(tree[p])
\* ... and the .ipk, the .version file and the staged files hold what was built.
IpkTells(p) == Built(p) /\ built[p] <= ipk[p].time => ipk[p].obj = tree[p].obj
VersionTells(p) ==
    Unedited(p) /\ Built(p) /\ built[p] <= ipk[p].time /\ ipk[p].time <= version[p].time
    => version[p].abi = src[p].abi
InstalledTells(p) ==
    Unedited(p) /\ Built(p) /\ built[p] <= installed[p] =>
        /\ {f.name : f \in staged[p]} = Names(src[p].list)
        /\ \A f \in staged[p] : f.obj = tree[p].obj /\ f.abi = src[p].abi
Tells(p) == /\ PreparedTells(p) /\ ConfTells(p) /\ LibsTell(p) /\ BuiltTells(p)
            /\ IpkTells(p) /\ VersionTells(p) /\ InstalledTells(p)

\* No file is younger than the last write.
Before(p) == /\ src[p].time <= now /\ prepared[p].time <= now
             /\ ipk[p].time <= now /\ version[p].time <= now

\* The stages up to unpacking, compiling, .built and the .ipk.
Early == {"idle", "parse"}
Bared == Early \cup {"wipe", "unpack", "prepared"}
Uncompiled == Bared \cup {"clean", "unstage", "configure", "oldconf", "configured"}
Unbuilt == Uncompiled \cup {"compile", "built"}
Unpackaged == Unbuilt \cup {"pack", "ipk"}

\* What a make that has come to job.pc with p has read, tested and done.
Stage(p) ==
    /\ ~(job.pc \in Early) => job.list = src[p].list /\ job.conf = Chosen(p)
    /\ job.pc = "prepared" => tree[p].ver = src[p].ver
    /\ ~(job.pc \in Bared) => ~NeedPrepare(p)
    /\ job.pc \in {"unstage", "configure", "oldconf"} => NeedConfigure(p)
    /\ job.pc \in {"oldconf", "configured"} =>
          tree[p].conf = job.conf /\ tree[p].libs = {<<d, src[d].abi>> : d \in Deps[p]}
    /\ ~(job.pc \in Uncompiled) => ConfiguredFor(p, job.conf)
    /\ job.pc = "built" => tree[p].obj = Made(tree[p])
    /\ ~(job.pc \in Unbuilt) => BuiltFor(p, job.conf)
    /\ ~(job.pc \in Unpackaged) => built[p] <= ipk[p].time
    /\ job.pc \in {"install", "list", "copy", "installed", "done"} =>
          version[p].time # 0 /\ version[p].abi = src[p].abi
    /\ job.pc \in {"copy", "installed"} => \A f \in staged[p] : f.abi = src[p].abi
    /\ job.pc = "done" => built[p] <= installed[p]

\* What is left of Order, and what lies behind.
OnTheWay ==
    /\ Len(job.todo) <= Len(Order)
    /\ \A i \in 1..Len(job.todo) : job.todo[i] = Order[Len(Order) - Len(job.todo) + i]
Visited(p) == \E i \in 1..(Len(Order) - Len(job.todo)) : Order[i] = p

\* Nothing is left to do for p; so it is with every package behind, and with all
\* of them while quiet, and then a make goes from test to test.
Finished(p) ==
    /\ ~NeedPrepare(p) /\ BuiltFor(p, Chosen(p))
    /\ built[p] <= ipk[p].time /\ built[p] <= installed[p]
    /\ version[p].time # 0 /\ version[p].abi = src[p].abi
Behind(p) == quiet \/ (job.pc # "idle" /\ Visited(p)) => Finished(p)
Idling == quiet => job.pc \in {"idle", "parse", "clean", "pack", "install"}

\* The inductive invariant.
Ages == \A p \in Pkg : Before(p)
Vouched == \A p \in Pkg : Tells(p)
Progress == job.pc # "idle" => Stage(P)
Tour == OnTheWay /\ (\A p \in Pkg : Behind(p)) /\ Idling /\ job.dirty = FALSE

Sound == Ages /\ Vouched /\ Progress /\ Tour

-----------------------------------------------------------------------------
\* The steps of a package's own make.
PackageStep ==
    \/ Parse \/ Wipe \/ Unpack \/ TouchPrepared
    \/ CleanStaging \/ Unstage \/ Configure \/ RemoveConfigured \/ TouchConfigured
    \/ Compile \/ TouchBuilt \/ BuiltAlready
    \/ RemoveIpk \/ MakeIpk \/ WriteVersion
    \/ InstallClean \/ InstallList \/ InstallCopy \/ TouchInstalled

\* Everything of p is left as it is, but for its .version file.
Left(p) == /\ src'[p] = src[p] /\ prepared'[p] = prepared[p]
           /\ configured'[p] = configured[p] /\ built'[p] = built[p] /\ tree'[p] = tree[p]
           /\ ipk'[p] = ipk[p] /\ staged'[p] = staged[p] /\ installed'[p] = installed[p]

\* What a package's make never touches.
LEMMA OwnMake ==
    ASSUME TInv, PackageStep
    PROVE  /\ P \in Pkg /\ P' = P /\ job.pc # "idle" /\ job'.pc # "idle"
           /\ job'.todo = job.todo /\ job'.dirty = job.dirty
           /\ UNCHANGED <<src, option, quiet, aborts>>
<1>1. JobOK BY DEF TInv
<1>2. job.pc # "idle"
  BY <1>1 DEF PackageStep, Parse, Wipe, Unpack, TouchPrepared, CleanStaging, Unstage,
     Configure, RemoveConfigured, TouchConfigured, Compile, TouchBuilt, BuiltAlready,
     RemoveIpk, MakeIpk, WriteVersion, InstallClean, InstallList, InstallCopy,
     TouchInstalled, At
<1>3. P \in Pkg BY <1>1, <1>2, Present
<1>4. CASE Parse
  <2>1. job' = [job EXCEPT !.list = src[P].list, !.conf = ConfVar(option[P]),
                           !.pc = IF NeedPrepare(P) THEN "wipe" ELSE "clean"]
        /\ UNCHANGED <<src, option, quiet, aborts>>
    BY <1>4 DEF Parse, sources
  <2>2. job'.todo = job.todo /\ job'.dirty = job.dirty
        /\ job'.pc = IF NeedPrepare(P) THEN "wipe" ELSE "clean"
    BY <1>1, <2>1 DEF JobOK
  <2> QED BY <1>2, <1>3, <2>1, <2>2 DEF P
<1>5. CASE \/ Wipe \/ Unpack \/ TouchPrepared
           \/ CleanStaging \/ Unstage \/ Configure \/ RemoveConfigured \/ TouchConfigured
           \/ Compile \/ TouchBuilt \/ BuiltAlready
           \/ RemoveIpk \/ MakeIpk \/ WriteVersion
           \/ InstallClean \/ InstallList \/ InstallCopy \/ TouchInstalled
  <2>1. /\ \E pc \in Steps \ {"idle"} : job' = [job EXCEPT !.pc = pc]
        /\ UNCHANGED <<src, option, quiet, aborts>>
    BY <1>5 DEF Wipe, Unpack, TouchPrepared, CleanStaging, Unstage,
     Configure, RemoveConfigured, TouchConfigured, Compile, TouchBuilt, BuiltAlready,
     RemoveIpk, MakeIpk, WriteVersion, InstallClean, InstallList, InstallCopy,
     TouchInstalled, sources, stamps, outputs, Steps, Goto
  <2>2. job'.todo = job.todo /\ job'.dirty = job.dirty /\ job'.pc # "idle"
    BY <1>1, <2>1 DEF JobOK
  <2> QED BY <1>2, <1>3, <2>1, <2>2 DEF P
<1> QED BY <1>4, <1>5 DEF PackageStep

\* A package's make leaves the other packages alone.
LEMMA Others ==
    ASSUME TInv, PackageStep, NEW q \in Pkg, q # P
    PROVE  Left(q) /\ version'[q] = version[q]
<1>1. P \in Pkg /\ UNCHANGED <<src, option>> BY OwnMake
<1> USE DEF Left, stamps, outputs, sources
<1>2. CASE \/ Parse \/ BuiltAlready \/ InstallList
  BY <1>1, <1>2 DEF Parse, BuiltAlready, InstallList
<1>3. CASE \/ Wipe \/ Unpack \/ TouchPrepared
  BY <1>1, <1>3 DEF Wipe, Unpack, TouchPrepared, TInv, StampsOK, BuiltOK
<1>4. CASE CleanStaging \/ Unstage
  BY <1>1, <1>4 DEF CleanStaging, Unstage, TInv, StampsOK, StagedOK
<1>5. CASE Configure \/ Compile
  BY <1>1, <1>5 DEF Configure, Compile, TInv, BuiltOK
<1>6. CASE RemoveConfigured \/ TouchConfigured \/ TouchBuilt \/ TouchInstalled
  BY <1>1, <1>6 DEF RemoveConfigured, TouchConfigured, TouchBuilt, TouchInstalled,
     TInv, StampsOK
<1>7. CASE RemoveIpk \/ MakeIpk \/ WriteVersion
  BY <1>1, <1>7 DEF RemoveIpk, MakeIpk, WriteVersion, TInv, BuiltOK
<1>8. CASE InstallClean
  BY <1>1, <1>8 DEF InstallClean, TInv, StagedOK
<1>9. CASE InstallCopy
  <2>1. staged'[q] = staged[q] BY <1>9, Copying
  <2> QED BY <1>1, <1>9, <2>1 DEF InstallCopy
<1> QED BY <1>2, <1>3, <1>4, <1>5, <1>6, <1>7, <1>8, <1>9 DEF PackageStep

\* Files are younger than no write: what a step does to the times.
LEMMA StepAges ==
    ASSUME TInv, Ages, [Next]_vars PROVE Ages'
<1>1. now \in Nat /\ now' \in Nat /\ now <= now' BY Onward, StepTyped DEF TInv, ClockOK
<1>2. ASSUME NEW p \in Pkg
      PROVE  /\ src[p].time \in Nat /\ prepared[p].time \in Nat
             /\ ipk[p].time \in Nat /\ version[p].time \in Nat
  BY DEF TInv, SourcesOK, StampsOK, BuiltOK
<1>3. ASSUME NEW p \in Pkg PROVE Before(p) BY DEF Ages
<1>4. ASSUME NEW p \in Pkg,
             src'[p].time \in {0, src[p].time, now'},
             prepared'[p].time \in {0, prepared[p].time, now'},
             ipk'[p].time \in {0, ipk[p].time, now'},
             version'[p].time \in {0, version[p].time, now'}
      PROVE  Before(p)'
  BY <1>1, <1>2, <1>3, <1>4 DEF Before
<1>5. CASE PackageStep
  <2>1. P \in Pkg /\ UNCHANGED src BY <1>5, OwnMake
  <2>2. ASSUME NEW q \in Pkg, q # P PROVE Before(q)'
    <3>1. Left(q) /\ version'[q] = version[q] BY <1>5, <2>2, Others
    <3> QED BY <1>4, <3>1 DEF Left
  <2>3. /\ prepared'[P].time \in {0, prepared[P].time, now'}
        /\ ipk'[P].time \in {0, ipk[P].time, now'}
        /\ version'[P].time \in {0, version[P].time, now'}
    <3> USE DEF stamps, outputs
    <3>1. CASE Wipe BY <2>1, <3>1 DEF Wipe, TInv, StampsOK
    <3>2. CASE TouchPrepared BY <2>1, <3>2 DEF TouchPrepared, TInv, StampsOK
    <3>3. CASE RemoveIpk BY <2>1, <3>3 DEF RemoveIpk, NoIpk, TInv, BuiltOK
    <3>4. CASE MakeIpk BY <2>1, <3>4 DEF MakeIpk, TInv, BuiltOK
    <3>5. CASE WriteVersion BY <2>1, <3>5 DEF WriteVersion, TInv, BuiltOK
    <3>6. CASE \/ Parse \/ Unpack \/ CleanStaging \/ Unstage \/ Configure
               \/ RemoveConfigured \/ TouchConfigured \/ Compile \/ TouchBuilt
               \/ BuiltAlready \/ InstallClean \/ InstallList \/ InstallCopy
               \/ TouchInstalled
      BY <3>6 DEF Parse, Unpack, CleanStaging, Unstage, Configure, RemoveConfigured,
         TouchConfigured, Compile, TouchBuilt, BuiltAlready, InstallClean, InstallList,
         InstallCopy, TouchInstalled
    <3> QED BY <1>5, <3>1, <3>2, <3>3, <3>4, <3>5, <3>6 DEF PackageStep
  <2>4. ASSUME NEW q \in Pkg, q = P PROVE Before(q)' BY <1>4, <2>1, <2>3, <2>4
  <2>5. ASSUME NEW q \in Pkg PROVE Before(q)' BY <2>2, <2>4
  <2> QED BY <2>5 DEF Ages
<1>6. CASE Make \/ NextPackage \/ Abort \/ SecondPasses \/ UNCHANGED vars
  <2>1. UNCHANGED <<src, prepared, ipk, version>>
    BY <1>6 DEF Make, NextPackage, Abort, SecondPasses, sources, stamps, outputs, vars
  <2> QED BY <1>4, <2>1 DEF Ages
<1>7. ASSUME NEW p \in Pkg, Edit(p) \/ SetOption(p) \/ Clean(p) PROVE Ages'
  <2>1. ASSUME NEW q \in Pkg PROVE Before(q)'
    <3>1. CASE Edit(p)
      <4>1. src'[q].time \in {src[q].time, now'} /\ UNCHANGED <<prepared, ipk, version>>
        BY <3>1 DEF Edit, stamps, outputs, TInv, SourcesOK
      <4> QED BY <1>4, <4>1
    <3>2. CASE SetOption(p)
      <4>1. UNCHANGED <<src, prepared, ipk, version>>
        BY <3>2 DEF SetOption, stamps, outputs
      <4> QED BY <1>4, <4>1
    <3>3. CASE Clean(p)
      <4>1. /\ prepared'[q].time \in {0, prepared[q].time} /\ UNCHANGED <<src, version>>
            /\ ipk'[q].time \in {0, ipk[q].time}
        BY <3>3 DEF Clean, NoIpk, TInv, StampsOK, BuiltOK
      <4> QED BY <1>4, <4>1
    <3> QED BY <1>7, <3>1, <3>2, <3>3
  <2> QED BY <2>1 DEF Ages
<1> QED BY <1>5, <1>6, <1>7 DEF Next, PackageStep

-----------------------------------------------------------------------------
(* What each stamp stands for stays true.                                   *)

\* The stamps and the files of p have the types they should have.
LEMMA TypesOf ==
    ASSUME TInv, NEW p \in Pkg
    PROVE  /\ src[p].time \in Nat /\ prepared[p].time \in Nat /\ built[p] \in Nat
           /\ installed[p] \in Nat /\ tree[p].time \in Nat /\ ipk[p].time \in Nat
           /\ version[p].time \in Nat /\ now \in Nat
           /\ \A c \in Conf : configured[p][c] \in Nat
           /\ Deps[p] \subseteq Pkg
<1>1. src[p].time \in Nat /\ now \in Nat BY DEF TInv, SourcesOK, ClockOK
<1>2. prepared[p].time \in Nat /\ built[p] \in Nat /\ installed[p] \in Nat BY DEF TInv, StampsOK
<1>3. \A c \in Conf : configured[p][c] \in Nat BY DEF TInv, StampsOK
<1>4. tree[p].time \in Nat BY DEF TInv, BuiltOK, Tree
<1>5. ipk[p].time \in Nat /\ version[p].time \in Nat BY DEF TInv, BuiltOK
<1>6. Deps[p] \subseteq Pkg BY BuildAssumption
<1> QED BY <1>1, <1>2, <1>3, <1>4, <1>5, <1>6

\* A package that is left alone, like the .version files of its libraries, keeps
\* what its stamps stand for.
LEMMA StillTells ==
    ASSUME NEW p \in Pkg, Tells(p), Left(p), version'[p] = version[p],
           \A d \in Deps[p] : version'[d] = version[d] \/ prepared[p].time < version'[d].time,
           \A d \in Deps[p] : version'[d].time \in Nat,
           prepared[p].time \in Nat,
           \A c \in Conf : Trusted(p, c)' => Trusted(p, c)
    PROVE  Tells(p)'
<1> USE DEF Left
<1>1. /\ Unedited(p)' <=> Unedited(p)
      /\ Built(p)' <=> Built(p)
      /\ \A c \in Conf : (BuiltFor(p, c)' <=> BuiltFor(p, c)) /\ (ConfiguredFor(p, c)' <=> ConfiguredFor(p, c))
  BY DEF Unedited, Built, BuiltFor, ConfiguredFor, UpToDateBy, Sec
<1>2. PreparedTells(p)' BY <1>1 DEF Tells, PreparedTells
<1>3. ConfTells(p)' BY <1>1 DEF Tells, ConfTells
<1>4. LibsTell(p)'
  <2> SUFFICES ASSUME NEW c \in Conf, Trusted(p, c)', ConfiguredFor(p, c)',
                      \A d \in Deps[p] : version'[d].time <= prepared'[p].time
               PROVE  tree'[p].libs = {<<d, version'[d].abi>> : d \in Deps[p]}
    BY DEF LibsTell
  <2>1. \A d \in Deps[p] : version'[d] = version[d] OBVIOUS
  <2>2. \A d \in Deps[p] : version[d].time <= prepared[p].time BY <2>1
  <2>3. tree[p].libs = {<<d, version[d].abi>> : d \in Deps[p]}
    BY <1>1, <2>2 DEF Tells, LibsTell
  <2>4. {<<d, version'[d].abi>> : d \in Deps[p]} = {<<d, version[d].abi>> : d \in Deps[p]}
    BY <2>1
  <2> QED BY <2>3, <2>4
<1>5. BuiltTells(p)' BY <1>1 DEF Tells, BuiltTells, Made
<1>6. IpkTells(p)' BY <1>1 DEF Tells, IpkTells
<1>7. VersionTells(p)' BY <1>1 DEF Tells, VersionTells
<1>8. InstalledTells(p)' BY <1>1 DEF Tells, InstalledTells
<1> QED BY <1>2, <1>3, <1>4, <1>5, <1>6, <1>7, <1>8 DEF Tells

\* Without .prepared no stamp stands for anything.
LEMMA NothingTold ==
    ASSUME NEW p \in Pkg, prepared'[p].time = 0 PROVE Tells(p)'
BY DEF Tells, PreparedTells, ConfTells, LibsTell, BuiltTells, IpkTells, VersionTells,
   InstalledTells, Unedited, Built, BuiltFor, ConfiguredFor

\* Not compiled for either value.
LEMMA NotBuilt ==
    ASSUME NEW p, ~Built(p)'
    PROVE  BuiltTells(p)' /\ IpkTells(p)' /\ VersionTells(p)' /\ InstalledTells(p)'
BY DEF BuiltTells, IpkTells, VersionTells, InstalledTells, Built

\* Not configured for either value.
LEMMA NotConfigured ==
    ASSUME NEW p, \A c \in Conf : ~ConfiguredFor(p, c)'
    PROVE  ConfTells(p)' /\ LibsTell(p)' /\ ~Built(p)'
BY DEF ConfTells, LibsTell, Built, BuiltFor

\* .prepared has just been touched.
LEMMA PreparedTold ==
    ASSUME TInv, Stages, Ages, Progress, TouchPrepared
    PROVE  \A p \in Pkg : p = P => Tells(p)'
<1>1. P \in Pkg /\ P' = P /\ UNCHANGED src BY OwnMake DEF PackageStep
<1>2. now' \in Nat /\ now < now' BY Later DEF TouchPrepared, TInv
<1>3. prepared'[P] = [list |-> job.list, time |-> now']
  BY <1>1 DEF TouchPrepared, TInv, StampsOK
<1>4. configured'[P] = NoConfigured BY DEF Stages, Bare, TouchPrepared, At
<1>5. Stage(P) /\ job.pc = "prepared" BY DEF Progress, TouchPrepared, At
<1>6. tree[P].ver = src[P].ver /\ job.list = src[P].list BY <1>5 DEF Stage, Early
<1>7. tree'[P] = tree[P] BY DEF TouchPrepared, outputs
<1>8. PreparedTells(P)'
  BY <1>1, <1>3, <1>6, <1>7 DEF PreparedTells
<1>9. \A c \in Conf : ~ConfiguredFor(P, c)'
  BY <1>1, <1>2, <1>3, <1>4 DEF ConfiguredFor, NoConfigured, Conf
<1>10. ASSUME NEW p \in Pkg, p = P PROVE Tells(p)'
  <2>1. \A c \in Conf : ~ConfiguredFor(p, c)' BY <1>1, <1>9, <1>10
  <2>2. PreparedTells(p)' BY <1>1, <1>8, <1>10
  <2>3. ConfTells(p)' /\ LibsTell(p)' /\ ~Built(p)' BY <2>1, NotConfigured
  <2> QED BY <2>2, <2>3, NotBuilt DEF Tells
<1> QED BY <1>10

\* A package configured for one value is not configured for the other.
LEMMA OnlyFor ==
    ASSUME TInv, Stages, NEW p \in Pkg, NEW c \in Conf, NEW b \in Conf,
           ConfiguredFor(p, c), ConfiguredFor(p, b)
    PROVE  b = c
<1>1. PICK a \in Conf : \A e \in Conf \ {a} : configured[p][e] = 0
  BY DEF Stages, OneConf
<1>2. prepared[p].time \in Nat /\ configured[p][c] \in Nat /\ configured[p][b] \in Nat
  BY TypesOf
<1>3. configured[p][c] # 0 /\ configured[p][b] # 0 BY <1>2 DEF ConfiguredFor
<1> QED BY <1>1, <1>3

\* The tree is being configured, and the old .configured_* still stands.
LEMMA ConfigureTells ==
    ASSUME TInv, Stages, Progress, Vouched, Configure
    PROVE  \A p \in Pkg : p = P => Tells(p)'
<1>1. P \in Pkg /\ P' = P /\ UNCHANGED <<src, option, aborts>> BY OwnMake DEF PackageStep
<1>2. /\ UNCHANGED <<prepared, configured, built, installed, ipk, version, staged>>
      /\ job.pc = "configure" /\ job'.pc = "oldconf"
  BY DEF Configure, stamps, At, Goto, TInv, JobOK
<1>3. Stage(P) /\ Tells(P) BY <1>1, <1>2 DEF Progress, Vouched
<1>4. job.conf = Chosen(P) /\ NeedConfigure(P) BY <1>2, <1>3 DEF Stage, Early
<1>5. ~ConfiguredFor(P, Chosen(P))
  BY <1>1, <1>4, TypesOf DEF NeedConfigure, ConfiguredFor, TInv, JobOK
<1>6. tree'[P].ver = tree[P].ver /\ tree'[P].obj = tree[P].obj /\ tree'[P].time = now'
  BY <1>1 DEF Configure, TInv, BuiltOK, Tree
<1>7. now' \in Nat /\ now < now' /\ tree[P].time <= now /\ tree[P].time \in Nat /\ built[P] \in Nat
      /\ now \in Nat
  BY <1>1, Later, TypesOf DEF Configure, TInv, Stages, Past
<1>8. UpToDateBy(built[P], now') => UpToDateBy(built[P], tree[P].time)
  <2>1. Sec(tree[P].time) \in Nat /\ Sec(now') \in Nat /\ Sec(tree[P].time) <= Sec(now')
    BY <1>7, SecMonotone
  <2>2. Sec(built[P]) \in Nat BY <1>7, SecMonotone
  <2> QED BY <2>1, <2>2 DEF UpToDateBy
<1>9. Chosen(P) \in Conf BY <1>4 DEF TInv, JobOK
<1> SUFFICES ASSUME NEW p \in Pkg, p = P PROVE Tells(p)'
  OBVIOUS
<1>10. Unedited(p)' <=> Unedited(p) BY <1>1, <1>2 DEF Unedited
<1>11. \A c \in Conf : ConfiguredFor(p, c)' <=> ConfiguredFor(p, c) BY <1>2 DEF ConfiguredFor
<1>12. \A c \in Conf : BuiltFor(p, c)' => BuiltFor(p, c)
  BY <1>2, <1>6, <1>8, <1>11 DEF BuiltFor, UpToDateBy, Sec
<1>13. \A c \in Conf : ~(Trusted(p, c)' /\ ConfiguredFor(p, c)')
  BY <1>1, <1>2, <1>5, <1>11 DEF Trusted, At, Chosen
<1>14. PreparedTells(p)' BY <1>1, <1>2, <1>3, <1>6, <1>10 DEF Tells, PreparedTells
<1>15. ConfTells(p)' /\ LibsTell(p)' /\ BuiltTells(p)'
  BY <1>13 DEF ConfTells, LibsTell, BuiltTells, BuiltFor
<1>16. Built(p)' => Built(p) BY <1>12 DEF Built
<1>17. IpkTells(p)' BY <1>2, <1>3, <1>6, <1>16 DEF Tells, IpkTells
<1>18. VersionTells(p)' BY <1>1, <1>2, <1>3, <1>10, <1>16 DEF Tells, VersionTells
<1>19. InstalledTells(p)' BY <1>1, <1>2, <1>3, <1>6, <1>10, <1>16 DEF Tells, InstalledTells
<1> QED BY <1>14, <1>15, <1>17, <1>18, <1>19 DEF Tells

\* The old .configured_* goes.
LEMMA RemoveTells ==
    ASSUME TInv, Stages, Progress, Vouched, RemoveConfigured
    PROVE  \A p \in Pkg : p = P => Tells(p)'
<1>1. P \in Pkg /\ P' = P /\ UNCHANGED <<src, option, aborts>> BY OwnMake DEF PackageStep
<1>2. /\ UNCHANGED <<prepared, built, installed, tree, ipk, version, staged>>
      /\ configured'[P] = NoConfigured
  BY <1>1 DEF RemoveConfigured, outputs, TInv, StampsOK
<1>3. Tells(P) /\ prepared[P].time \in Nat BY <1>1, TypesOf DEF Vouched
<1> SUFFICES ASSUME NEW p \in Pkg, p = P PROVE Tells(p)'
  OBVIOUS
<1>4. \A c \in Conf : ~ConfiguredFor(p, c)'
  BY <1>2, <1>3 DEF ConfiguredFor, NoConfigured, Conf
<1>5. PreparedTells(p)'
  BY <1>1, <1>2, <1>3 DEF Tells, PreparedTells, Unedited, UpToDateBy, Sec
<1> QED BY <1>4, <1>5, NotConfigured, NotBuilt DEF Tells

\* .configured_<c> has just been touched.
LEMMA ConfiguredTold ==
    ASSUME TInv, Stages, Progress, Vouched, TouchConfigured,
           \A d \in Deps[P] : version[d].abi = src[d].abi
    PROVE  \A p \in Pkg : p = P => Tells(p)'
<1>1. P \in Pkg /\ P' = P /\ UNCHANGED <<src, option, aborts>> BY OwnMake DEF PackageStep
<1>2. /\ UNCHANGED <<prepared, built, installed, tree, ipk, version, staged>>
      /\ job.pc = "configured" /\ job'.pc = "compile"
  BY DEF TouchConfigured, outputs, TInv, JobOK, At, Goto
<1>3. job.conf \in Conf BY DEF TInv, JobOK
<1>4. configured[P] = NoConfigured BY <1>2 DEF Stages, Cleared
<1>5. /\ configured'[P][job.conf] = now'
      /\ \A c \in Conf \ {job.conf} : configured'[P][c] = 0
  BY <1>1, <1>3, <1>4 DEF TouchConfigured, TInv, StampsOK, NoConfigured
<1>6. Stage(P) /\ Tells(P) BY <1>1, <1>2 DEF Progress, Vouched
<1>7. tree[P].conf = job.conf /\ tree[P].libs = {<<d, src[d].abi>> : d \in Deps[P]}
  BY <1>2, <1>6 DEF Stage
<1>8. {<<d, src[d].abi>> : d \in Deps[P]} = {<<d, version[d].abi>> : d \in Deps[P]} OBVIOUS
<1>9. now' \in Nat /\ now < now' /\ built[P] \in Nat /\ built[P] <= now /\ prepared[P].time \in Nat
      /\ now \in Nat
  BY <1>1, Later, TypesOf DEF TouchConfigured, TInv, Stages, Past
<1> SUFFICES ASSUME NEW p \in Pkg, p = P PROVE Tells(p)'
  OBVIOUS
<1>10. ~Built(p)'
  BY <1>2, <1>5, <1>9 DEF Built, BuiltFor, ConfiguredFor
<1>11. \A c \in Conf : ConfiguredFor(p, c)' => c = job.conf
  BY <1>2, <1>5, <1>9 DEF ConfiguredFor
<1>12. ConfTells(p)' BY <1>2, <1>7, <1>11 DEF ConfTells
<1>13. LibsTell(p)' BY <1>2, <1>7, <1>8 DEF LibsTell
<1>14. PreparedTells(p)'
  BY <1>1, <1>2, <1>6 DEF Tells, PreparedTells, Unedited, UpToDateBy, Sec
<1> QED BY <1>10, <1>12, <1>13, <1>14, NotBuilt DEF Tells

\* The object is made, and .built is not touched yet.
LEMMA CompileTells ==
    ASSUME TInv, Stages, Progress, Vouched, Compile
    PROVE  \A p \in Pkg : p = P => Tells(p)'
<1>1. P \in Pkg /\ P' = P /\ UNCHANGED <<src, option, aborts>> BY OwnMake DEF PackageStep
<1>2. /\ UNCHANGED <<prepared, configured, built, installed, ipk, version, staged>>
      /\ job.pc \in {"compile", "clean"} /\ job'.pc = "built" /\ NeedCompile(P)
      /\ job.pc = "clean" => ~NeedConfigure(P)
  BY DEF Compile, stamps, At, Goto, TInv, JobOK
<1>3. Stage(P) /\ Tells(P) BY <1>1, <1>2 DEF Progress, Vouched
<1>4. job.conf \in Conf BY DEF TInv, JobOK
<1>5. ConfiguredFor(P, job.conf)
  <2>1. CASE job.pc = "compile"
    BY <1>3, <2>1 DEF Stage, Uncompiled, Bared, Early
  <2>2. CASE job.pc = "clean"
    <3>1. prepared[P].time # 0 BY <2>2 DEF TInv, Unpacked
    <3> QED BY <1>1, <1>2, <1>4, <2>2, <3>1, TypesOf DEF NeedConfigure, ConfiguredFor
  <2> QED BY <1>2, <2>1, <2>2
<1>6. /\ tree'[P].ver = tree[P].ver /\ tree'[P].conf = tree[P].conf
      /\ tree'[P].libs = tree[P].libs /\ tree'[P].time = now'
  BY <1>1 DEF Compile, TInv, BuiltOK, Tree
<1>7. now' \in Nat /\ now < now' /\ tree[P].time <= now /\ tree[P].time \in Nat /\ built[P] \in Nat
      /\ now \in Nat
  BY <1>1, Later, TypesOf DEF Compile, TInv, Stages, Past
<1>8. UpToDateBy(built[P], now') => UpToDateBy(built[P], tree[P].time)
  <2>1. Sec(tree[P].time) \in Nat /\ Sec(now') \in Nat /\ Sec(tree[P].time) <= Sec(now')
    BY <1>7, SecMonotone
  <2>2. Sec(built[P]) \in Nat BY <1>7, SecMonotone
  <2> QED BY <2>1, <2>2 DEF UpToDateBy
<1> SUFFICES ASSUME NEW p \in Pkg, p = P PROVE Tells(p)'
  OBVIOUS
<1>9. \A c \in Conf : ConfiguredFor(p, c)' <=> ConfiguredFor(p, c) BY <1>2 DEF ConfiguredFor
<1>10. ASSUME NEW c \in Conf, c = job.conf PROVE ~BuiltFor(p, c)'
  <2>1. configured[P][c] \in Nat BY <1>1, TypesOf
  <2>2. BuiltFor(p, c)' => configured[P][c] <= built[P] /\ UpToDateBy(built[P], now')
    BY <1>2, <1>6 DEF BuiltFor, UpToDateBy, Sec
  <2> QED BY <1>2, <1>7, <1>8, <1>10, <2>1, <2>2 DEF NeedCompile
<1>11. ~Built(p)'
  <2> SUFFICES ASSUME NEW c \in Conf, BuiltFor(p, c)' PROVE FALSE BY DEF Built
  <2>1. ConfiguredFor(P, c) BY <1>9 DEF BuiltFor
  <2>2. c = job.conf BY <1>1, <1>4, <1>5, <2>1, OnlyFor
  <2> QED BY <1>10, <2>2
<1>12. \A c \in Conf : Trusted(p, c)' /\ ConfiguredFor(p, c)' => c = job.conf
  BY <1>1, <1>4, <1>5, <1>9, OnlyFor
<1>13. job.conf = Chosen(P) BY <1>2, <1>3 DEF Stage, Early
<1>14. ConfTells(p)'
  BY <1>3, <1>4, <1>5, <1>6, <1>12, <1>13 DEF Tells, ConfTells, Trusted
<1>15. LibsTell(p)'
  BY <1>2, <1>3, <1>4, <1>5, <1>6, <1>12, <1>13 DEF Tells, LibsTell, Trusted
<1>16. PreparedTells(p)'
  BY <1>1, <1>2, <1>3, <1>6 DEF Tells, PreparedTells, Unedited, UpToDateBy, Sec
<1> QED BY <1>11, <1>14, <1>15, <1>16, NotBuilt DEF Tells

\* .built has just been touched.
LEMMA BuiltTold ==
    ASSUME TInv, Stages, Ages, Progress, Vouched, TouchBuilt
    PROVE  \A p \in Pkg : p = P => Tells(p)'
<1>1. P \in Pkg /\ P' = P /\ UNCHANGED <<src, option, aborts>> BY OwnMake DEF PackageStep
<1>2. /\ UNCHANGED <<prepared, configured, installed, tree, ipk, version, staged>>
      /\ job.pc = "built" /\ job'.pc = "pack"
  BY DEF TouchBuilt, outputs, At, Goto, TInv, JobOK
<1>3. Stage(P) /\ Tells(P) BY <1>1, <1>2 DEF Progress, Vouched
<1>4. tree[P].obj = Made(tree[P]) BY <1>2, <1>3 DEF Stage
<1>5. built'[P] = now' BY <1>1 DEF TouchBuilt, TInv, StampsOK
<1>6. now' \in Nat /\ now < now' /\ now \in Nat /\ ipk[P].time \in Nat /\ ipk[P].time <= now
  BY <1>1, Later, TypesOf DEF TouchBuilt, TInv, Ages, Before
<1>7. installed[P] = 0 BY <1>2 DEF Stages, Unmarked
<1> SUFFICES ASSUME NEW p \in Pkg, p = P PROVE Tells(p)'
  OBVIOUS
<1>8. ~(built[p] <= ipk[p].time)' /\ ~(built[p] <= installed[p])' BY <1>2, <1>5, <1>6, <1>7
<1>9. IpkTells(p)' /\ VersionTells(p)' /\ InstalledTells(p)'
  BY <1>8 DEF IpkTells, VersionTells, InstalledTells
<1>10. BuiltTells(p)' BY <1>2, <1>4 DEF BuiltTells, Made
<1>11. \A c \in Conf : (ConfiguredFor(p, c)' => ConfiguredFor(p, c)) /\ (Trusted(p, c)' => Trusted(p, c))
  BY <1>1, <1>2 DEF ConfiguredFor, Trusted, At, Chosen
<1>12. ConfTells(p)' BY <1>2, <1>3, <1>11 DEF Tells, ConfTells
<1>13. LibsTell(p)' BY <1>2, <1>3, <1>11 DEF Tells, LibsTell
<1>14. PreparedTells(p)'
  BY <1>1, <1>2, <1>3 DEF Tells, PreparedTells, Unedited, UpToDateBy, Sec
<1> QED BY <1>9, <1>10, <1>12, <1>13, <1>14 DEF Tells

\* Steps that leave the sources, the build directory and its stamps alone keep
\* what those stamps stand for.
LEMMA BuildKept ==
    ASSUME NEW p \in Pkg, Tells(p), p = P, P' = P, job.pc # "oldconf",
           UNCHANGED <<src, option, aborts, prepared, configured, built, tree, version>>
    PROVE  /\ PreparedTells(p)' /\ ConfTells(p)' /\ LibsTell(p)' /\ BuiltTells(p)'
           /\ Built(p)' <=> Built(p)
           /\ Unedited(p)' <=> Unedited(p)
<1>1. /\ Unedited(p)' <=> Unedited(p)
      /\ \A c \in Conf : /\ BuiltFor(p, c)' <=> BuiltFor(p, c)
                         /\ ConfiguredFor(p, c)' <=> ConfiguredFor(p, c)
                         /\ Trusted(p, c)' => Trusted(p, c)
  BY DEF Unedited, BuiltFor, ConfiguredFor, UpToDateBy, Sec, Trusted, At, Chosen
<1>2. PreparedTells(p)' BY <1>1 DEF Tells, PreparedTells
<1>3. ConfTells(p)' BY <1>1 DEF Tells, ConfTells
<1>4. LibsTell(p)' BY <1>1 DEF Tells, LibsTell
<1>5. BuiltTells(p)' BY <1>1 DEF Tells, BuiltTells, Made
<1> QED BY <1>1, <1>2, <1>3, <1>4, <1>5 DEF Built

\* The .ipk goes and comes.
LEMMA IpkTold ==
    ASSUME TInv, Stages, Ages, Vouched, RemoveIpk \/ MakeIpk
    PROVE  \A p \in Pkg : p = P => Tells(p)'
<1>1. P \in Pkg /\ P' = P /\ UNCHANGED <<src, option, aborts>> BY OwnMake DEF PackageStep
<1>2. /\ UNCHANGED <<prepared, configured, built, installed, tree, version, staged>>
      /\ job.pc # "oldconf"
  BY DEF RemoveIpk, MakeIpk, stamps, At
<1>3. Tells(P) BY <1>1 DEF Vouched
<1> SUFFICES ASSUME NEW p \in Pkg, p = P PROVE Tells(p)'
  OBVIOUS
<1>4. /\ PreparedTells(p)' /\ ConfTells(p)' /\ LibsTell(p)' /\ BuiltTells(p)'
      /\ Built(p)' <=> Built(p)
      /\ Unedited(p)' <=> Unedited(p)
  BY <1>1, <1>2, <1>3, BuildKept
<1>5. InstalledTells(p)' BY <1>1, <1>2, <1>3, <1>4 DEF Tells, InstalledTells
<1>6. prepared[P].time \in Nat /\ built[P] \in Nat /\ \A c \in Conf : configured[P][c] \in Nat
  BY <1>1, TypesOf
<1>7. Built(P) => built[P] # 0 BY <1>6 DEF Built, BuiltFor, ConfiguredFor
<1>8. CASE RemoveIpk
  <2>1. ipk'[P].time = 0 BY <1>1, <1>8 DEF RemoveIpk, NoIpk, TInv, BuiltOK
  <2>2. IpkTells(p)' /\ VersionTells(p)'
    BY <1>2, <1>4, <1>6, <1>7, <2>1 DEF IpkTells, VersionTells
  <2> QED BY <1>4, <1>5, <2>2 DEF Tells
<1>9. CASE MakeIpk
  <2>1. ipk'[P] = [obj |-> tree[P].obj, time |-> now'] BY <1>1, <1>9 DEF MakeIpk, TInv, BuiltOK
  <2>2. now' \in Nat /\ now < now' /\ version[P].time <= now /\ now \in Nat /\ version[P].time \in Nat
    BY <1>1, <1>9, Later, TypesOf DEF MakeIpk, TInv, Ages, Before
  <2>3. IpkTells(p)' BY <1>2, <2>1 DEF IpkTells
  <2>4. VersionTells(p)' BY <1>2, <2>1, <2>2 DEF VersionTells
  <2> QED BY <1>4, <1>5, <2>3, <2>4 DEF Tells
<1> QED BY <1>8, <1>9

\* The staging directory is cleaned and filled while .installed is gone.
LEMMA StagingTells ==
    ASSUME TInv, Stages, Vouched, CleanStaging \/ Unstage \/ InstallClean \/ InstallCopy
    PROVE  \A p \in Pkg : p = P => Tells(p)'
<1>1. P \in Pkg /\ P' = P /\ UNCHANGED <<src, option, aborts>> BY OwnMake DEF PackageStep
<1>2. /\ UNCHANGED <<prepared, configured, built, tree, ipk, version>>
      /\ job.pc # "oldconf"
  BY DEF CleanStaging, Unstage, InstallClean, InstallCopy, stamps, outputs, At
<1>3. Tells(P) BY <1>1 DEF Vouched
<1>4. installed'[P] = 0
  <2>1. CASE CleanStaging BY <1>1, <2>1 DEF CleanStaging, TInv, StampsOK
  <2>2. CASE Unstage \/ InstallClean \/ InstallCopy
    <3>1. UNCHANGED installed BY <2>2 DEF Unstage, InstallClean, InstallCopy, stamps
    <3> QED BY <2>2, <3>1, NotMarked
  <2> QED BY <2>1, <2>2
<1> SUFFICES ASSUME NEW p \in Pkg, p = P PROVE Tells(p)'
  OBVIOUS
<1>5. /\ PreparedTells(p)' /\ ConfTells(p)' /\ LibsTell(p)' /\ BuiltTells(p)'
      /\ Built(p)' <=> Built(p)
      /\ Unedited(p)' <=> Unedited(p)
  BY <1>1, <1>2, <1>3, BuildKept
<1>6. prepared[P].time \in Nat /\ built[P] \in Nat /\ \A c \in Conf : configured[P][c] \in Nat
  BY <1>1, TypesOf
<1>7. Built(P) => built[P] # 0 BY <1>6 DEF Built, BuiltFor, ConfiguredFor
<1>8. InstalledTells(p)' BY <1>2, <1>4, <1>5, <1>6, <1>7 DEF InstalledTells
<1>9. IpkTells(p)' BY <1>2, <1>3, <1>5 DEF Tells, IpkTells
<1>10. VersionTells(p)' BY <1>1, <1>2, <1>3, <1>5 DEF Tells, VersionTells
<1> QED BY <1>5, <1>8, <1>9, <1>10 DEF Tells

\* .installed has just been touched.
LEMMA InstalledTold ==
    ASSUME TInv, Stages, Contents, Progress, Vouched, TouchInstalled
    PROVE  \A p \in Pkg : p = P => Tells(p)'
<1>1. P \in Pkg /\ P' = P /\ UNCHANGED <<src, option, aborts>> BY OwnMake DEF PackageStep
<1>2. /\ UNCHANGED <<prepared, configured, built, tree, ipk, version, staged>>
      /\ job.pc = "installed"
  BY DEF TouchInstalled, outputs, At
<1>3. Stage(P) /\ Tells(P) BY <1>1, <1>2 DEF Progress, Vouched
<1>4. {f.name : f \in staged[P]} = Names(job.list) /\ \A f \in staged[P] : f.obj = tree[P].obj
  BY <1>2 DEF Contents, Copied
<1>5. job.list = src[P].list /\ \A f \in staged[P] : f.abi = src[P].abi
  BY <1>2, <1>3 DEF Stage, Early
<1> SUFFICES ASSUME NEW p \in Pkg, p = P PROVE Tells(p)'
  OBVIOUS
<1>6. /\ PreparedTells(p)' /\ ConfTells(p)' /\ LibsTell(p)' /\ BuiltTells(p)'
      /\ Built(p)' <=> Built(p)
      /\ Unedited(p)' <=> Unedited(p)
  BY <1>1, <1>2, <1>3, BuildKept
<1>7. InstalledTells(p)' BY <1>1, <1>2, <1>4, <1>5 DEF InstalledTells
<1>8. IpkTells(p)' BY <1>2, <1>3, <1>6 DEF Tells, IpkTells
<1>9. VersionTells(p)' BY <1>1, <1>2, <1>3, <1>6 DEF Tells, VersionTells
<1> QED BY <1>6, <1>7, <1>8, <1>9 DEF Tells

\* The .version file: written at need, it names the ABI of the sources.
LEMMA VersionTold ==
    ASSUME TInv, Stages, Ages, Vouched, P \notin Deps[P], WriteVersion
    PROVE  \A p \in Pkg : p = P => Tells(p)'
<1>1. P \in Pkg /\ P' = P /\ UNCHANGED <<src, option, aborts>> BY OwnMake DEF PackageStep
<1>2. /\ UNCHANGED <<prepared, configured, built, installed, tree, ipk, staged>>
      /\ job.pc # "oldconf"
  BY DEF WriteVersion, stamps, At
<1>3. Tells(P) BY <1>1 DEF Vouched
<1>4. \A d \in Deps[P] : version'[d] = version[d]
  BY <1>1, BuildAssumption DEF WriteVersion, TInv, BuiltOK
<1>5. \/ version'[P] = version[P]
      \/ version'[P].abi = src[P].abi
  BY <1>1 DEF WriteVersion, TInv, BuiltOK
<1> SUFFICES ASSUME NEW p \in Pkg, p = P PROVE Tells(p)'
  OBVIOUS
<1>6. /\ Unedited(p)' <=> Unedited(p)
      /\ \A c \in Conf : /\ BuiltFor(p, c)' <=> BuiltFor(p, c)
                         /\ ConfiguredFor(p, c)' <=> ConfiguredFor(p, c)
                         /\ Trusted(p, c)' => Trusted(p, c)
  BY <1>1, <1>2 DEF Unedited, BuiltFor, ConfiguredFor, UpToDateBy, Sec, Trusted, At, Chosen
<1>7. Built(p)' <=> Built(p) BY <1>6 DEF Built
<1>8. PreparedTells(p)' BY <1>1, <1>2, <1>3, <1>6 DEF Tells, PreparedTells
<1>9. ConfTells(p)' BY <1>2, <1>3, <1>6 DEF Tells, ConfTells
<1>10. LibsTell(p)'
  <2>1. {<<d, version'[d].abi>> : d \in Deps[P]} = {<<d, version[d].abi>> : d \in Deps[P]}
    BY <1>4
  <2>2. (\A d \in Deps[P] : version'[d].time <= prepared'[P].time)
        => (\A d \in Deps[P] : version[d].time <= prepared[P].time)
    BY <1>2, <1>4
  <2> QED BY <1>2, <1>3, <1>6, <2>1, <2>2 DEF Tells, LibsTell
<1>11. BuiltTells(p)' BY <1>2, <1>3, <1>6 DEF Tells, BuiltTells, Made
<1>12. IpkTells(p)' BY <1>2, <1>3, <1>7 DEF Tells, IpkTells
<1>13. VersionTells(p)' BY <1>1, <1>2, <1>3, <1>5, <1>6, <1>7 DEF Tells, VersionTells
<1>14. InstalledTells(p)' BY <1>1, <1>2, <1>3, <1>6, <1>7 DEF Tells, InstalledTells
<1> QED BY <1>8, <1>9, <1>10, <1>11, <1>12, <1>13, <1>14 DEF Tells

-----------------------------------------------------------------------------
(* The order of the packages.                                               *)

\* The package at work was not visited before, its libraries were, and no
\* package visited before depends on it.
LEMMA Ahead ==
    ASSUME InOrder, TInv, OnTheWay, job.pc # "idle"
    PROVE  /\ ~Visited(P) /\ P \notin Deps[P]
           /\ \A d \in Deps[P] : Visited(d)
           /\ \A q \in Pkg : Visited(q) => P \notin Deps[q]
<1> DEFINE n == Len(Order)
           m == Len(job.todo)
           k == n - m + 1
<1>1. n \in Nat BY BuildAssumption
<1>2. job.todo \in Seq(Pkg) /\ job.todo # << >> /\ m \in Nat /\ m > 0
  BY Present DEF TInv, JobOK
<1>3. m <= n /\ \A i \in 1..m : job.todo[i] = Order[n - m + i] BY DEF OnTheWay
<1>4. P = job.todo[1] BY <1>2 DEF P
<1>5. ASSUME NEW q PROVE Visited(q) <=> \E i \in 1..(n - m) : Order[i] = q BY DEF Visited
<1> HIDE DEF n, m
<1>6. k \in 1..n BY <1>1, <1>2, <1>3
<1>7. job.todo[1] = Order[k] BY <1>1, <1>2, <1>3
<1>8. P = Order[k] BY <1>4, <1>7
<1>9. k - 1 = n - m BY <1>1, <1>2
<1> HIDE DEF k
<1>10. ASSUME NEW q, Visited(q) PROVE \E i \in 1..(k - 1) : Order[i] = q
  BY <1>10, <1>5, <1>9
<1>11. ASSUME NEW i \in 1..(k - 1) PROVE Visited(Order[i]) BY <1>5, <1>9
<1>12. \A i \in 1..(k - 1) : i \in 1..Len(Order) /\ i # k BY <1>1, <1>6 DEF n
<1>13. \A i, j \in 1..Len(Order) : Order[i] = Order[j] => i = j BY DEF InOrder
<1>14. \A j \in 1..Len(Order) : \A d \in Deps[Order[j]] : \E i \in 1..(j - 1) : Order[i] = d
  BY DEF InOrder
<1>15. k \in 1..Len(Order) BY <1>6 DEF n
<1>16. \A i \in 1..(k - 1) : Order[i] # P BY <1>8, <1>12, <1>13, <1>15
<1>17. ~Visited(P) BY <1>10, <1>16
<1>18. \A d \in Deps[P] : \E i \in 1..(k - 1) : Order[i] = d BY <1>8, <1>14, <1>15
<1>19. \A d \in Deps[P] : Visited(d) BY <1>11, <1>18
<1>20. ASSUME NEW q \in Pkg, Visited(q), P \in Deps[q] PROVE FALSE
  <2>1. PICK j \in 1..(k - 1) : Order[j] = q BY <1>10, <1>20
  <2>2. PICK i \in 1..(j - 1) : Order[i] = P BY <1>12, <1>14, <1>20, <2>1
  <2>3. i \in 1..(k - 1) BY <1>6
  <2> QED BY <1>16, <2>2, <2>3
<1> QED BY <1>17, <1>18, <1>16, <1>19, <1>20

\* The libraries of the package at work are finished.
LEMMA LibrariesFinished ==
    ASSUME InOrder, TInv, Tour, job.pc # "idle"
    PROVE  \A d \in Deps[P] : Finished(d) /\ d \in Pkg
<1>1. \A d \in Deps[P] : Visited(d) BY Ahead DEF Tour
<1>2. P \in Pkg BY Present DEF TInv
<1>3. \A d \in Deps[P] : d \in Pkg BY <1>2, TypesOf
<1>4. \A p \in Pkg : Behind(p) BY DEF Tour
<1> QED BY <1>1, <1>3, <1>4 DEF Behind

\* What the developer changes is younger than every stamp.
LEMMA EditTells ==
    ASSUME Disciplined, TInv, Stages, Vouched, NEW p \in Pkg, Edit(p)
    PROVE  Tells(p)'
<1>1. /\ UNCHANGED <<option, aborts, prepared, configured, built, installed, tree, ipk,
                     version, staged>>
      /\ job.pc = "idle" /\ job'.pc = "idle"
  BY Outside DEF Edit, Edited, MayEdit, At, Disciplined, stamps, outputs, TInv, JobOK
<1>2. Tells(p) BY DEF Vouched
<1>3. now' \in Nat /\ now < now' /\ now \in Nat /\ prepared[p].time \in Nat
  BY Later, TypesOf DEF Edit, TInv
<1>4. Sec(prepared[p].time) < Sec(now) BY DEF Edit, MayEdit, Disciplined
<1>5. src'[p].time = now' BY DEF Edit, TInv, SourcesOK
<1>6. ~Unedited(p)'
  <2>1. Sec(now) \in Nat /\ Sec(now') \in Nat /\ Sec(now) <= Sec(now') BY <1>3, SecMonotone
  <2>2. Sec(prepared[p].time) \in Nat BY <1>3, SecMonotone
  <2>3. Unedited(p)' => Sec(now') <= Sec(prepared[p].time)
    BY <1>1, <1>5 DEF Unedited, UpToDateBy, Sec
  <2> QED BY <1>4, <2>1, <2>2, <2>3
<1>7. PreparedTells(p)' /\ VersionTells(p)' /\ InstalledTells(p)'
  BY <1>6 DEF PreparedTells, VersionTells, InstalledTells
<1>8. \A c \in Conf : /\ BuiltFor(p, c)' <=> BuiltFor(p, c)
                      /\ ConfiguredFor(p, c)' <=> ConfiguredFor(p, c)
                      /\ Trusted(p, c)' => Trusted(p, c)
  BY <1>1 DEF BuiltFor, ConfiguredFor, UpToDateBy, Sec, Trusted, At, Chosen
<1>9. Built(p)' <=> Built(p) BY <1>8 DEF Built
<1>10. ConfTells(p)' BY <1>1, <1>2, <1>8 DEF Tells, ConfTells
<1>11. LibsTell(p)' BY <1>1, <1>2, <1>8 DEF Tells, LibsTell
<1>12. BuiltTells(p)' BY <1>1, <1>2, <1>8 DEF Tells, BuiltTells, Made
<1>13. IpkTells(p)' BY <1>1, <1>2, <1>9 DEF Tells, IpkTells
<1> QED BY <1>7, <1>10, <1>11, <1>12, <1>13 DEF Tells

\* The stamps always stand for what they should.
LEMMA StepVouched ==
    ASSUME Disciplined, InOrder, TInv, Stages, Contents, Sound, [Next]_vars
    PROVE  Vouched'
<1> USE DEF Sound
<1>1. CASE PackageStep
  <2>1. P \in Pkg /\ P' = P /\ job.pc # "idle" /\ UNCHANGED <<src, option, aborts>>
    BY <1>1, OwnMake
  <2>2. P \notin Deps[P] /\ \A d \in Deps[P] : Finished(d)
    BY <2>1, Ahead, LibrariesFinished DEF Tour
  <2>3. ASSUME NEW q \in Pkg, q # P PROVE Tells(q)'
    <3>1. Left(q) /\ version'[q] = version[q] BY <1>1, <2>3, Others
    <3>2. ASSUME NEW d \in Deps[q]
          PROVE  /\ version'[d] = version[d] \/ prepared[q].time < version'[d].time
                 /\ version'[d].time \in Nat
      <4>1. d \in Pkg BY TypesOf
      <4>2. version'[d].time \in Nat BY <4>1, StepTyped DEF TInv, BuiltOK
      <4>3. CASE d # P BY <1>1, <4>1, <4>2, <4>3, Others
      <4>4. CASE d = P /\ ~WriteVersion
        <5>1. UNCHANGED version
          BY <1>1, <4>4 DEF PackageStep, Parse, Wipe, Unpack, TouchPrepared, CleanStaging,
             Unstage, Configure, RemoveConfigured, TouchConfigured, Compile, TouchBuilt,
             BuiltAlready, RemoveIpk, MakeIpk, InstallClean, InstallList, InstallCopy,
             TouchInstalled, outputs
        <5> QED BY <4>2, <5>1
      <4>5. CASE d = P /\ WriteVersion
        <5>1. version' = version \/ (Write /\ version'[P].time = now')
          BY <2>1, <4>5 DEF WriteVersion, TInv, BuiltOK
        <5>2. prepared[q].time \in Nat /\ prepared[q].time <= now /\ now \in Nat
          BY TypesOf DEF Ages, Before
        <5>3. ASSUME Write PROVE now' \in Nat /\ now < now' BY <5>3, Later DEF TInv
        <5> QED BY <4>2, <4>5, <5>1, <5>2, <5>3
      <4> QED BY <4>3, <4>4, <4>5
    <3>3. \A c \in Conf : Trusted(q, c)' => Trusted(q, c)
      BY <2>1, <2>3 DEF Trusted, Chosen
    <3>4. Tells(q) /\ prepared[q].time \in Nat BY TypesOf DEF Vouched
    <3> QED BY <3>1, <3>2, <3>3, <3>4, StillTells
  <2>4. \A p \in Pkg : p = P => Tells(p)'
    <3>1. CASE Parse \/ BuiltAlready \/ InstallList
      <4>1. \A p \in Pkg : Left(p) /\ version' = version
        BY <3>1 DEF Parse, BuiltAlready, InstallList, Left, sources, stamps, outputs
      <4>2. job.pc # "oldconf" BY <3>1 DEF Parse, BuiltAlready, InstallList, At
      <4>3. ASSUME NEW p \in Pkg, p = P PROVE Tells(p)'
        <5>1. \A c \in Conf : Trusted(p, c)' => Trusted(p, c)
          BY <2>1, <4>2 DEF Trusted, Chosen, At
        <5>2. \A d \in Deps[p] : version'[d].time \in Nat
          BY <4>1, TypesOf
        <5>3. Tells(p) /\ prepared[p].time \in Nat BY TypesOf DEF Vouched
        <5> QED BY <4>1, <5>1, <5>2, <5>3, StillTells
      <4> QED BY <4>3
    <3>2. CASE Wipe \/ Unpack
      <4>1. prepared'[P].time = 0
        BY <2>1, <3>2 DEF Wipe, Unpack, stamps, Stages, Bare, At, TInv, StampsOK
      <4> QED BY <4>1, NothingTold
    <3>3. CASE TouchPrepared BY <3>3, PreparedTold
    <3>4. CASE Configure BY <3>4, ConfigureTells
    <3>5. CASE RemoveConfigured BY <3>5, RemoveTells
    <3>6. CASE TouchConfigured
      <4>1. \A d \in Deps[P] : version[d].abi = src[d].abi BY <2>2 DEF Finished
      <4> QED BY <3>6, <4>1, ConfiguredTold
    <3>7. CASE Compile BY <3>7, CompileTells
    <3>8. CASE TouchBuilt BY <3>8, BuiltTold
    <3>9. CASE RemoveIpk \/ MakeIpk BY <3>9, IpkTold
    <3>10. CASE WriteVersion BY <2>2, <3>10, VersionTold
    <3>11. CASE CleanStaging \/ Unstage \/ InstallClean \/ InstallCopy BY <3>11, StagingTells
    <3>12. CASE TouchInstalled BY <3>12, InstalledTold
    <3> QED BY <1>1, <3>1, <3>2, <3>3, <3>4, <3>5, <3>6, <3>7, <3>8, <3>9, <3>10, <3>11,
               <3>12 DEF PackageStep
  <2> QED BY <2>3, <2>4 DEF Vouched
<1>2. ASSUME UNCHANGED <<src, prepared, configured, built, tree, ipk, staged, installed, version>>,
             \A q \in Pkg, c \in Conf : Trusted(q, c)' => Trusted(q, c)
      PROVE  Vouched'
  <2>1. ASSUME NEW q \in Pkg PROVE Tells(q)'
    <3>1. Left(q) BY <1>2 DEF Left
    <3>2. \A d \in Deps[q] : version'[d].time \in Nat BY <1>2, TypesOf
    <3>3. Tells(q) /\ prepared[q].time \in Nat BY TypesOf DEF Vouched
    <3> QED BY <1>2, <3>1, <3>2, <3>3, StillTells
  <2> QED BY <2>1 DEF Vouched
<1>3. CASE Make \/ NextPackage \/ Abort \/ SecondPasses \/ UNCHANGED vars
  <2>1. UNCHANGED <<src, option, prepared, configured, built, tree, ipk, staged, installed, version>>
    BY <1>3 DEF Make, NextPackage, Abort, SecondPasses, sources, stamps, outputs, vars
  <2>2. ASSUME NEW q \in Pkg, NEW c \in Conf, Trusted(q, c)' PROVE Trusted(q, c)
    <3>1. CASE Make \/ NextPackage
      <4>1. job.pc # "oldconf" /\ UNCHANGED aborts BY <3>1 DEF Make, NextPackage, At
      <4> QED BY <2>1, <2>2, <4>1 DEF Trusted, Chosen, At
    <3>2. CASE Abort
      <4>1. aborts' # 0 BY <3>2 DEF Abort, TInv, CountsOK
      <4> QED BY <2>1, <2>2, <4>1 DEF Trusted, Chosen
    <3>3. CASE SecondPasses \/ UNCHANGED vars
      <4>1. UNCHANGED <<aborts, job>> BY <3>3 DEF SecondPasses, vars
      <4> QED BY <2>1, <2>2, <4>1 DEF Trusted, Chosen, At, P
    <3> QED BY <1>3, <3>1, <3>2, <3>3
  <2> QED BY <1>2, <2>1, <2>2
<1>4. ASSUME NEW p \in Pkg, SetOption(p) PROVE Vouched'
  <2>1. UNCHANGED <<src, prepared, configured, built, tree, ipk, staged, installed, version>>
    BY <1>4 DEF SetOption, stamps, outputs
  <2>2. aborts = 0 /\ job.pc = "idle" BY <1>4 DEF SetOption, Disciplined, At
  <2>3. \A q \in Pkg, c \in Conf : Trusted(q, c) BY <2>2 DEF Trusted, At
  <2> QED BY <1>2, <2>1, <2>3
<1>5. ASSUME NEW p \in Pkg, Edit(p) \/ Clean(p) PROVE Vouched'
  <2>1. Tells(p)'
    <3>1. CASE Edit(p) BY <3>1, EditTells
    <3>2. CASE Clean(p)
      <4>1. prepared'[p].time = 0 BY <3>2 DEF Clean, TInv, StampsOK
      <4> QED BY <4>1, NothingTold
    <3> QED BY <1>5, <3>1, <3>2
  <2>2. job.pc = "idle" /\ UNCHANGED <<option, aborts, version>>
    BY <1>5 DEF Edit, Clean, MayEdit, Disciplined, At, stamps, outputs
  <2>3. ASSUME NEW q \in Pkg, q # p PROVE Tells(q)'
    <3>1. Left(q)
      BY <1>5, <2>3 DEF Left, Edit, Clean, stamps, outputs, TInv, SourcesOK, StampsOK,
         BuiltOK, StagedOK
    <3>2. \A c \in Conf : Trusted(q, c)' => Trusted(q, c) BY <2>2 DEF Trusted, Chosen, At
    <3>3. \A d \in Deps[q] : version'[d].time \in Nat BY <2>2, TypesOf
    <3>4. Tells(q) /\ prepared[q].time \in Nat BY TypesOf DEF Vouched
    <3> QED BY <2>2, <3>1, <3>2, <3>3, <3>4, StillTells
  <2> QED BY <2>1, <2>3 DEF Vouched
<1> QED BY <1>1, <1>3, <1>4, <1>5 DEF Next, PackageStep

-----------------------------------------------------------------------------
(* How far the make has come.                                               *)

\* Where a step of a package's make goes; only the first one reads names.
LEMMA Going ==
    ASSUME TInv, PackageStep, ~Parse
    PROVE  job'.list = job.list /\ job'.conf = job.conf
<1>1. \E pc \in Steps : job' = [job EXCEPT !.pc = pc]
  BY DEF PackageStep, Wipe, Unpack, TouchPrepared, CleanStaging, Unstage,
     Configure, RemoveConfigured, TouchConfigured, Compile, TouchBuilt, BuiltAlready,
     RemoveIpk, MakeIpk, WriteVersion, InstallClean, InstallList, InstallCopy,
     TouchInstalled, Steps, Goto
<1> QED BY <1>1 DEF TInv, JobOK

\* What only the stamps of the build directory decide.
LEMMA SameDecisions ==
    ASSUME NEW p \in Pkg, NEW c,
           prepared'[p] = prepared[p], src'[p] = src[p],
           \A d \in Deps[p] : version'[d] = version[d]
    PROVE  /\ NeedPrepare(p)' <=> NeedPrepare(p)
           /\ configured'[p] = configured[p] => (ConfiguredFor(p, c)' <=> ConfiguredFor(p, c))
           /\ configured'[p] = configured[p] /\ built'[p] = built[p] /\ tree'[p] = tree[p]
              => (BuiltFor(p, c)' <=> BuiltFor(p, c))
BY DEF NeedPrepare, ConfiguredFor, BuiltFor, UpToDateBy, Sec

\* Nothing is known yet of a package whose make has not begun.
LEMMA NotBegun == ASSUME job'.pc \in Early PROVE Progress'
BY DEF Progress, Stage, Early, Bared, Uncompiled, Unbuilt, Unpackaged

\* Up to .prepared.
LEMMA PreparingGoes ==
    ASSUME InOrder, TInv, Stages, Ages, Progress, OnTheWay,
           Parse \/ Wipe \/ Unpack \/ TouchPrepared
    PROVE  \A p \in Pkg : p = P => Stage(p)'
<1>1. P \in Pkg /\ P' = P /\ UNCHANGED <<src, option>> /\ job.pc # "idle"
  BY OwnMake DEF PackageStep
<1>2. Stage(P) BY <1>1 DEF Progress
<1> SUFFICES ASSUME NEW p \in Pkg, p = P PROVE Stage(p)'
  OBVIOUS
<1>3. CASE Parse
  <2>1. /\ job'.list = src[P].list /\ job'.conf = ConfVar(option[P])
        /\ job'.pc = IF NeedPrepare(P) THEN "wipe" ELSE "clean"
        /\ UNCHANGED <<prepared, version>>
    BY <1>3 DEF Parse, stamps, outputs, TInv, JobOK
  <2>2. NeedPrepare(p)' <=> NeedPrepare(p) BY <1>1, <2>1 DEF NeedPrepare, UpToDateBy, Sec
  <2>3. CASE NeedPrepare(P)
    BY <1>1, <2>1, <2>3 DEF Stage, Chosen, Early, Bared, Uncompiled, Unbuilt, Unpackaged
  <2>4. CASE ~NeedPrepare(P)
    BY <1>1, <2>1, <2>2, <2>4 DEF Stage, Chosen, Early, Bared, Uncompiled, Unbuilt, Unpackaged
  <2> QED BY <2>3, <2>4
<1>4. CASE Wipe \/ Unpack \/ TouchPrepared
  <2>1. job'.list = job.list /\ job'.conf = job.conf BY <1>4, Going
    DEF PackageStep, Parse, Wipe, Unpack, TouchPrepared, At
  <2>2. job.list = src[P].list /\ job.conf = Chosen(P)
    BY <1>2, <1>4 DEF Stage, Early, Wipe, Unpack, TouchPrepared, At
  <2>3. CASE Wipe
    <3>1. job'.pc = "unpack" BY <2>3 DEF Wipe, Goto, TInv, JobOK
    <3> QED BY <1>1, <2>1, <2>2, <3>1
      DEF Stage, Chosen, Early, Bared, Uncompiled, Unbuilt, Unpackaged
  <2>4. CASE Unpack
    <3>1. job'.pc = "prepared" BY <2>4 DEF Unpack, Goto, TInv, JobOK
    <3>2. tree'[P].ver = src[P].ver
      BY <1>1, <2>4 DEF Unpack, TInv, BuiltOK, NoTree
    <3> QED BY <1>1, <2>1, <2>2, <3>1, <3>2
      DEF Stage, Chosen, Early, Bared, Uncompiled, Unbuilt, Unpackaged
  <2>5. CASE TouchPrepared
    <3>1. job'.pc = "clean" BY <2>5 DEF TouchPrepared, Goto, TInv, JobOK
    <3>2. prepared'[P] = [list |-> job.list, time |-> now'] /\ UNCHANGED version
      BY <1>1, <2>5 DEF TouchPrepared, outputs, TInv, StampsOK
    <3>3. now' \in Nat /\ now < now' /\ now \in Nat /\ src[P].time <= now /\ src[P].time \in Nat
      BY <1>1, <2>5, Later, TypesOf DEF TouchPrepared, Ages, Before, TInv
    <3>4. \A d \in Deps[P] : version[d].time \in Nat /\ version[d].time <= now
      BY <1>1, TypesOf DEF Ages, Before
    <3>5. UpToDateBy(now', src[P].time) BY <3>3, TouchedLast
    <3>6. ~NeedPrepare(p)'
      BY <1>1, <2>2, <3>2, <3>3, <3>4, <3>5 DEF NeedPrepare, UpToDateBy, Sec
    <3> QED BY <1>1, <2>1, <2>2, <3>1, <3>6
      DEF Stage, Chosen, Early, Bared, Uncompiled, Unbuilt, Unpackaged
  <2> QED BY <1>4, <2>3, <2>4, <2>5
<1> QED BY <1>3, <1>4

\* From .prepared to .configured.
LEMMA ConfiguringGoes ==
    ASSUME InOrder, TInv, Stages, Sound,
           CleanStaging \/ Unstage \/ Configure \/ RemoveConfigured \/ TouchConfigured
    PROVE  \A p \in Pkg : p = P => Stage(p)'
<1> USE DEF Sound
<1>1. P \in Pkg /\ P' = P /\ UNCHANGED <<src, option>> /\ job.pc # "idle"
  BY OwnMake DEF PackageStep
<1>2. Stage(P) BY <1>1 DEF Progress
<1>3. job'.list = job.list /\ job'.conf = job.conf /\ job.conf \in Conf
  BY Going DEF PackageStep, Parse, CleanStaging, Unstage, Configure, RemoveConfigured,
     TouchConfigured, At, TInv, JobOK
<1>4. job.list = src[P].list /\ job.conf = Chosen(P) /\ ~NeedPrepare(P)
  BY <1>2 DEF Stage, Early, Bared, CleanStaging, Unstage, Configure, RemoveConfigured,
     TouchConfigured, At
<1>5. UNCHANGED <<prepared, version>>
  BY DEF CleanStaging, Unstage, Configure, RemoveConfigured, TouchConfigured, stamps, outputs
<1> SUFFICES ASSUME NEW p \in Pkg, p = P PROVE Stage(p)'
  OBVIOUS
<1>6. ~NeedPrepare(p)' BY <1>1, <1>4, <1>5, SameDecisions
<1>7. CASE CleanStaging \/ Unstage
  <2>1. job'.pc \in {"unstage", "configure"} /\ NeedConfigure(P) /\ UNCHANGED configured
    BY <1>2, <1>7 DEF CleanStaging, Unstage, Goto, TInv, JobOK, Stage, At, stamps
  <2>2. NeedConfigure(p)' BY <1>1, <1>3, <1>5, <2>1 DEF NeedConfigure
  <2> QED BY <1>1, <1>3, <1>4, <1>6, <2>1, <2>2
    DEF Stage, Chosen, Early, Bared, Uncompiled, Unbuilt, Unpackaged
<1>8. CASE Configure
  <2>1. job'.pc = "oldconf" /\ NeedConfigure(P) /\ UNCHANGED configured
    BY <1>2, <1>8 DEF Configure, Goto, TInv, JobOK, Stage, At, stamps
  <2>2. NeedConfigure(p)' BY <1>1, <1>3, <1>5, <2>1 DEF NeedConfigure
  <2>3. /\ tree'[P].conf = job.conf
        /\ tree'[P].libs = UNION {{<<d, f.abi>> : f \in staged[d]} : d \in Deps[P]}
    BY <1>1, <1>8 DEF Configure, TInv, BuiltOK, Tree
  <2>4. ASSUME NEW d \in Deps[P] PROVE (\A f \in staged[d] : f.abi = src[d].abi) /\ staged[d] # {}
    <3>1. Finished(d) /\ d \in Pkg BY <1>1, LibrariesFinished
    <3>2. InstalledTells(d) /\ PreparedTells(d) BY <3>1 DEF Vouched, Tells
    <3>3. Unedited(d) BY <3>1 DEF Finished, NeedPrepare, Unedited
    <3>4. Chosen(d) \in Conf BY DEF Chosen, ConfVar, Conf
    <3>5. Built(d) BY <3>1, <3>4 DEF Finished, Built
    <3>6. /\ {f.name : f \in staged[d]} = Names(src[d].list)
          /\ \A f \in staged[d] : f.abi = src[d].abi
      BY <3>1, <3>2, <3>3, <3>5 DEF InstalledTells, Finished
    <3>7. Names(src[d].list) # {} BY DEF Names
    <3> QED BY <3>6, <3>7
  <2>5. UNION {{<<d, f.abi>> : f \in staged[d]} : d \in Deps[P]} = {<<d, src[d].abi>> : d \in Deps[P]}
    <3>1. \A d \in Deps[P] : {<<d, f.abi>> : f \in staged[d]} = {<<d, src[d].abi>>}
      BY <2>4
    <3> QED BY <3>1
  <2> QED BY <1>1, <1>3, <1>4, <1>6, <2>1, <2>2, <2>3, <2>5
    DEF Stage, Chosen, Early, Bared, Uncompiled, Unbuilt, Unpackaged
<1>9. CASE RemoveConfigured
  <2>1. job'.pc = "configured" /\ UNCHANGED tree
    BY <1>9 DEF RemoveConfigured, Goto, TInv, JobOK, outputs
  <2>2. tree[P].conf = job.conf /\ tree[P].libs = {<<d, src[d].abi>> : d \in Deps[P]}
    BY <1>2, <1>9 DEF RemoveConfigured, Stage, At
  <2> QED BY <1>1, <1>3, <1>4, <1>6, <2>1, <2>2
    DEF Stage, Chosen, Early, Bared, Uncompiled, Unbuilt, Unpackaged
<1>10. CASE TouchConfigured
  <2>1. job'.pc = "compile" BY <1>10 DEF TouchConfigured, Goto, TInv, JobOK
  <2>2. configured'[P][job.conf] = now' BY <1>1, <1>3, <1>10 DEF TouchConfigured, TInv, StampsOK
  <2>3. now' \in Nat /\ now < now' /\ prepared[P].time <= now /\ prepared[P].time \in Nat /\ now \in Nat
    BY <1>1, <1>10, Later, TypesOf DEF TouchConfigured, Ages, Before, TInv
  <2>4. prepared[P].time # 0 BY <1>4 DEF NeedPrepare
  <2>5. ConfiguredFor(p, job.conf)'
    BY <1>1, <1>3, <1>5, <2>2, <2>3, <2>4 DEF ConfiguredFor
  <2> QED BY <1>1, <1>3, <1>4, <1>6, <2>1, <2>5
    DEF Stage, Chosen, Early, Bared, Uncompiled, Unbuilt, Unpackaged
<1> QED BY <1>7, <1>8, <1>9, <1>10

\* From .configured to .built.
LEMMA CompilingGoes ==
    ASSUME TInv, Stages, Sound, Compile \/ TouchBuilt \/ BuiltAlready
    PROVE  \A p \in Pkg : p = P => Stage(p)'
<1> USE DEF Sound
<1>1. P \in Pkg /\ P' = P /\ UNCHANGED <<src, option>> /\ job.pc # "idle"
  BY OwnMake DEF PackageStep
<1>2. Stage(P) BY <1>1 DEF Progress
<1>3. job'.list = job.list /\ job'.conf = job.conf /\ job.conf \in Conf
  BY Going DEF PackageStep, Parse, Compile, TouchBuilt, BuiltAlready, At, TInv, JobOK
<1>4. job.list = src[P].list /\ job.conf = Chosen(P) /\ ~NeedPrepare(P)
  BY <1>2 DEF Stage, Early, Bared, Compile, TouchBuilt, BuiltAlready, At
<1>5. UNCHANGED <<prepared, configured, version>>
  BY DEF Compile, TouchBuilt, BuiltAlready, stamps, outputs
<1>6. ConfiguredFor(P, job.conf)
  <2>1. CASE job.pc \in {"compile", "built"}
    BY <1>2, <2>1 DEF Stage, Uncompiled, Bared, Early
  <2>2. CASE job.pc = "clean" /\ ~NeedConfigure(P)
    <3>1. prepared[P].time # 0 BY <2>2 DEF TInv, Unpacked
    <3> QED BY <1>1, <1>3, <2>2, <3>1, TypesOf DEF NeedConfigure, ConfiguredFor
  <2> QED BY <2>1, <2>2 DEF Compile, TouchBuilt, BuiltAlready, At
<1> SUFFICES ASSUME NEW p \in Pkg, p = P PROVE Stage(p)'
  OBVIOUS
<1>7. ~NeedPrepare(p)' BY <1>1, <1>4, <1>5, SameDecisions
<1>8. ConfiguredFor(p, job.conf)' BY <1>3, <1>5, <1>6 DEF ConfiguredFor
<1>9. CASE Compile
  <2>1. job'.pc = "built" BY <1>9 DEF Compile, Goto, TInv, JobOK
  <2>2. tree'[P].obj = Made(tree'[P])
    BY <1>1, <1>9 DEF Compile, Made, TInv, BuiltOK, Tree
  <2> QED BY <1>1, <1>3, <1>4, <1>7, <1>8, <2>1, <2>2
    DEF Stage, Chosen, Made, Early, Bared, Uncompiled, Unbuilt, Unpackaged
<1>10. CASE TouchBuilt
  <2>1. job'.pc = "pack" BY <1>10 DEF TouchBuilt, Goto, TInv, JobOK
  <2>2. built'[P] = now' /\ UNCHANGED tree BY <1>1, <1>10
    DEF TouchBuilt, outputs, TInv, StampsOK
  <2>3. now' \in Nat /\ now < now' /\ tree[P].time \in Nat /\ tree[P].time <= now /\ now \in Nat
        /\ configured[P][job.conf] \in Nat /\ configured[P][job.conf] <= now
    BY <1>1, <1>3, <1>10, Later, TypesOf DEF TouchBuilt, Stages, Past, TInv
  <2>4. UpToDateBy(now', tree[P].time) BY <2>3, TouchedLast
  <2>5. BuiltFor(p, job.conf)'
    BY <1>3, <1>5, <1>8, <2>2, <2>3, <2>4 DEF BuiltFor, UpToDateBy, Sec
  <2> QED BY <1>1, <1>3, <1>4, <1>7, <1>8, <2>1, <2>5
    DEF Stage, Chosen, Early, Bared, Uncompiled, Unbuilt, Unpackaged
<1>11. CASE BuiltAlready
  <2>1. job'.pc = "pack" /\ ~NeedCompile(P) /\ UNCHANGED <<built, tree>>
    BY <1>11 DEF BuiltAlready, Goto, TInv, JobOK, stamps, outputs
  <2>2. BuiltFor(P, job.conf)
    BY <1>1, <1>3, <1>6, <2>1, TypesOf DEF BuiltFor, NeedCompile
  <2>3. BuiltFor(p, job.conf)'
    BY <1>3, <1>5, <1>8, <2>1, <2>2 DEF BuiltFor, UpToDateBy, Sec
  <2> QED BY <1>1, <1>3, <1>4, <1>7, <1>8, <2>1, <2>3
    DEF Stage, Chosen, Early, Bared, Uncompiled, Unbuilt, Unpackaged
<1> QED BY <1>9, <1>10, <1>11

\* From .built on the build directory and its stamps rest.
LEMMA Resting ==
    ASSUME TInv, Stages, Progress, P \notin Deps[P],
           \/ RemoveIpk \/ MakeIpk \/ WriteVersion
           \/ InstallClean \/ InstallList \/ InstallCopy \/ TouchInstalled
    PROVE  /\ P \in Pkg /\ P' = P /\ Stage(P) /\ UNCHANGED <<src, option, built, tree>>
           /\ job'.list = src[P].list /\ job'.conf = Chosen(P)
           /\ BuiltFor(P, job.conf)
           /\ \A p \in Pkg : p = P => /\ ~NeedPrepare(p)'
                                      /\ ConfiguredFor(p, job.conf)'
                                      /\ BuiltFor(p, job.conf)'
<1>1. P \in Pkg /\ P' = P /\ UNCHANGED <<src, option>> /\ job.pc # "idle"
  BY OwnMake DEF PackageStep
<1>2. Stage(P) BY <1>1 DEF Progress
<1>3. job'.list = job.list /\ job'.conf = job.conf
  BY Going DEF PackageStep, Parse, RemoveIpk, MakeIpk, WriteVersion, InstallClean,
     InstallList, InstallCopy, TouchInstalled, At
<1>4. /\ job.list = src[P].list /\ job.conf = Chosen(P) /\ ~NeedPrepare(P)
      /\ ConfiguredFor(P, job.conf) /\ BuiltFor(P, job.conf)
  BY <1>2 DEF Stage, Early, Bared, Uncompiled, Unbuilt, RemoveIpk, MakeIpk, WriteVersion,
     InstallClean, InstallList, InstallCopy, TouchInstalled, At
<1>5. /\ UNCHANGED <<prepared, configured, built, tree>>
      /\ version' = version \/ version'= [version EXCEPT ![P] = [abi |-> src[P].abi, time |-> now']]
  BY DEF RemoveIpk, MakeIpk, WriteVersion, InstallClean, InstallList, InstallCopy,
     TouchInstalled, stamps, outputs
<1>6. \A d \in Deps[P] : version'[d] = version[d]
  BY <1>1, <1>5, TypesOf DEF TInv, BuiltOK
<1>7. ASSUME NEW p \in Pkg, p = P PROVE ~NeedPrepare(p)'
  BY <1>1, <1>4, <1>5, <1>6, <1>7, SameDecisions
<1>8. ASSUME NEW p \in Pkg, p = P PROVE ConfiguredFor(p, job.conf)' /\ BuiltFor(p, job.conf)'
  BY <1>3, <1>4, <1>5, <1>8 DEF ConfiguredFor, BuiltFor, UpToDateBy, Sec
<1> QED BY <1>1, <1>2, <1>3, <1>4, <1>5, <1>7, <1>8

\* From .built to pkginfo/p.version.
LEMMA PackingGoes ==
    ASSUME InOrder, TInv, Stages, Sound, RemoveIpk \/ MakeIpk \/ WriteVersion
    PROVE  \A p \in Pkg : p = P => Stage(p)'
<1> USE DEF Sound
<1>1. P \notin Deps[P]
  <2>1. job.pc # "idle" BY DEF RemoveIpk, MakeIpk, WriteVersion, At
  <2> QED BY <2>1, Ahead DEF Tour
<1>2. /\ P \in Pkg /\ P' = P /\ Stage(P) /\ UNCHANGED <<src, option, built, tree>>
      /\ job'.list = src[P].list /\ job'.conf = Chosen(P) /\ BuiltFor(P, job.conf)
  BY <1>1, Resting
<1> SUFFICES ASSUME NEW p \in Pkg, p = P PROVE Stage(p)'
  OBVIOUS
<1>3. ~NeedPrepare(p)' /\ ConfiguredFor(p, job.conf)' /\ BuiltFor(p, job.conf)'
  BY <1>1, Resting
<1>4. Chosen(p)' = Chosen(P) BY <1>2 DEF Chosen
<1>5. CASE RemoveIpk
  <2>1. job'.pc = "ipk" BY <1>5 DEF RemoveIpk, Goto, TInv, JobOK
  <2> QED BY <1>2, <1>3, <1>4, <2>1 DEF Stage, Early, Bared, Uncompiled, Unbuilt, Unpackaged
<1>6. CASE MakeIpk
  <2>1. job'.pc = "version" BY <1>6 DEF MakeIpk, Goto, TInv, JobOK
  <2>2. ipk'[P].time = now' BY <1>2, <1>6 DEF MakeIpk, TInv, BuiltOK
  <2>3. now' \in Nat /\ now < now' /\ now \in Nat /\ built[P] \in Nat /\ built[P] <= now
    BY <1>2, <1>6, Later, TypesOf DEF MakeIpk, Stages, Past, TInv
  <2> QED BY <1>2, <1>3, <1>4, <2>1, <2>2, <2>3
    DEF Stage, Early, Bared, Uncompiled, Unbuilt, Unpackaged
<1>7. CASE WriteVersion
  <2>1. job'.pc = "install" /\ UNCHANGED ipk BY <1>7 DEF WriteVersion, Goto, TInv, JobOK
  <2>2. /\ prepared[P].time \in Nat /\ built[P] \in Nat /\ ipk[P].time \in Nat
        /\ version[P].time \in Nat /\ \A c \in Conf : configured[P][c] \in Nat
    BY <1>2, TypesOf
  <2>3. built[P] <= ipk[P].time
    BY <1>2, <1>7, <2>2
      DEF WriteVersion, At, NeedPack, Stage, Early, Bared, Uncompiled, Unbuilt, Unpackaged
  <2>4. job.conf \in Conf BY DEF TInv, JobOK
  <2>5. built[P] # 0 BY <1>2, <2>2, <2>4 DEF BuiltFor, ConfiguredFor
  <2>6. version'[P].time # 0 /\ version'[P].abi = src[P].abi
    <3>1. CASE version[P].time < ipk[P].time /\ (version[P].time = 0 \/ version[P].abi # src[P].abi)
      <4>1. Write /\ version'[P] = [abi |-> src[P].abi, time |-> now']
        BY <1>2, <1>7, <3>1 DEF WriteVersion, TInv, BuiltOK
      <4>2. now' # 0 BY <4>1, Later DEF TInv, ClockOK
      <4> QED BY <4>1, <4>2
    <3>2. CASE ~(version[P].time < ipk[P].time)
      <4>1. UNCHANGED version BY <1>7, <3>2 DEF WriteVersion
      <4>2. VersionTells(P) BY <1>2 DEF Vouched, Tells
      <4>3. Built(P) BY <1>2, <2>4 DEF Built
      <4>4. ~NeedPrepare(P)
        BY <1>2, <1>7 DEF Stage, Early, Bared, WriteVersion, At
      <4>5. Unedited(P) BY <4>4 DEF Unedited, NeedPrepare
      <4> QED BY <2>2, <2>3, <2>5, <3>2, <4>1, <4>2, <4>3, <4>5 DEF VersionTells
    <3>3. CASE ~(version[P].time = 0 \/ version[P].abi # src[P].abi)
      <4>1. UNCHANGED version BY <1>7, <3>3 DEF WriteVersion
      <4> QED BY <3>3, <4>1
    <3> QED BY <3>1, <3>2, <3>3
  <2> QED BY <1>2, <1>3, <1>4, <2>1, <2>3, <2>6
    DEF Stage, Early, Bared, Uncompiled, Unbuilt, Unpackaged
<1> QED BY <1>5, <1>6, <1>7

\* From pkginfo/p.version to .installed.
LEMMA InstallingGoes ==
    ASSUME InOrder, TInv, Stages, Contents, Sound,
           InstallClean \/ InstallList \/ InstallCopy \/ TouchInstalled
    PROVE  \A p \in Pkg : p = P => Stage(p)'
<1> USE DEF Sound
<1>1. P \notin Deps[P]
  <2>1. job.pc # "idle" BY DEF InstallClean, InstallList, InstallCopy, TouchInstalled, At
  <2> QED BY <2>1, Ahead DEF Tour
<1>2. /\ P \in Pkg /\ P' = P /\ Stage(P) /\ UNCHANGED <<src, option, built, tree>>
      /\ job'.list = src[P].list /\ job'.conf = Chosen(P) /\ BuiltFor(P, job.conf)
  BY <1>1, Resting
<1> SUFFICES ASSUME NEW p \in Pkg, p = P PROVE Stage(p)'
  OBVIOUS
<1>3. ~NeedPrepare(p)' /\ ConfiguredFor(p, job.conf)' /\ BuiltFor(p, job.conf)'
  BY <1>1, Resting
<1>4. Chosen(p)' = Chosen(P) BY <1>2 DEF Chosen
<1>5. /\ UNCHANGED <<ipk, version>> /\ built[P] <= ipk[P].time
      /\ version[P].time # 0 /\ version[P].abi = src[P].abi
  BY <1>2 DEF InstallClean, InstallList, InstallCopy, TouchInstalled, At, outputs, Stage,
     Early, Bared, Uncompiled, Unbuilt, Unpackaged
<1>6. CASE InstallClean
  <2>1. job'.pc = "list" BY <1>6 DEF InstallClean, Goto, TInv, JobOK
  <2> QED BY <1>2, <1>3, <1>4, <1>5, <2>1
    DEF Stage, Early, Bared, Uncompiled, Unbuilt, Unpackaged
<1>7. CASE InstallList
  <2>1. job'.pc = "copy" /\ UNCHANGED staged BY <1>7 DEF InstallList, Goto, TInv, JobOK
  <2>2. staged[P] = {} BY <1>7 DEF InstallList, At, Contents, Emptied
  <2> QED BY <1>2, <1>3, <1>4, <1>5, <2>1, <2>2
    DEF Stage, Early, Bared, Uncompiled, Unbuilt, Unpackaged
<1>8. CASE InstallCopy
  <2>1. \A f \in staged[P] : f.abi = src[P].abi BY <1>2, <1>8 DEF Stage, InstallCopy, At
  <2>2. PICK some \in SUBSET Names(job.list) :
            /\ staged'[P] = {f \in staged[P] : f.name \notin some} \cup
                 {[name |-> n, obj |-> tree[P].obj, abi |-> src[P].abi] : n \in some}
            /\ job'.pc = IF some = Names(job.list) THEN "installed" ELSE "copy"
    BY <1>8, Copying
  <2>3. \A f \in staged'[P] : f.abi = src[P].abi BY <2>1, <2>2
  <2>4. job'.pc \in {"installed", "copy"} BY <2>2
  <2> QED BY <1>2, <1>3, <1>4, <1>5, <2>3, <2>4
    DEF Stage, Early, Bared, Uncompiled, Unbuilt, Unpackaged
<1>9. CASE TouchInstalled
  <2>1. job'.pc = "done" BY <1>9 DEF TouchInstalled, Goto, TInv, JobOK
  <2>2. installed'[P] = now' BY <1>2, <1>9 DEF TouchInstalled, TInv, StampsOK
  <2>3. now' \in Nat /\ now < now' /\ now \in Nat /\ built[P] \in Nat /\ built[P] <= now
    BY <1>2, <1>9, Later, TypesOf DEF TouchInstalled, Stages, Past, TInv
  <2> QED BY <1>2, <1>3, <1>4, <1>5, <2>1, <2>2, <2>3
    DEF Stage, Early, Bared, Uncompiled, Unbuilt, Unpackaged
<1> QED BY <1>6, <1>7, <1>8, <1>9

\* Every stage has done what it is there for.
LEMMA StepProgress ==
    ASSUME Disciplined, InOrder, TInv, Stages, Contents, Sound, [Next]_vars
    PROVE  Progress'
<1> USE DEF Sound
<1>1. CASE PackageStep
  <2>1. P \in Pkg /\ P' = P BY <1>1, OwnMake
  <2>2. \A p \in Pkg : p = P => Stage(p)'
    BY <1>1, PreparingGoes, ConfiguringGoes, CompilingGoes, PackingGoes, InstallingGoes
       DEF PackageStep, Tour
  <2> QED BY <2>1, <2>2 DEF Progress
<1>2. CASE Make \/ NextPackage \/ Abort
  <2>1. job'.pc \in {"idle", "parse"} BY <1>2, Leaves DEF TInv
  <2> QED BY <2>1, NotBegun DEF Early
<1>3. CASE SecondPasses \/ UNCHANGED vars
  <2>1. UNCHANGED <<job, src, option, prepared, configured, built, tree, ipk, version, staged,
                    installed>>
    BY <1>3 DEF SecondPasses, sources, stamps, outputs, vars
  <2> QED BY <2>1 DEF Progress, P, Stage, Chosen, NeedPrepare, NeedConfigure, ConfiguredFor,
             BuiltFor, Made, UpToDateBy, Sec
<1>4. ASSUME NEW p \in Pkg, Edit(p) \/ SetOption(p) \/ Clean(p) PROVE Progress'
  <2>1. job'.pc = "idle"
    BY <1>4, Outside DEF TInv, Edit, MayEdit, Disciplined, At
  <2> QED BY <2>1, NotBegun DEF Early
<1> QED BY <1>1, <1>2, <1>3, <1>4 DEF Next, PackageStep

-----------------------------------------------------------------------------
(* The tour of the packages.                                                *)

\* A finished package has been compiled for its option, so it is settled.
LEMMA FinishedDecides ==
    ASSUME TInv, Stages, NEW p \in Pkg, Finished(p)
    PROVE  /\ Chosen(p) \in Conf /\ Unedited(p) /\ Built(p)
           /\ ConfiguredFor(p, Chosen(p)) /\ BuiltFor(p, Chosen(p))
           /\ built[p] # 0
<1>1. Chosen(p) \in Conf BY DEF Chosen, ConfVar, Conf
<1>2. BuiltFor(p, Chosen(p)) /\ ConfiguredFor(p, Chosen(p)) BY DEF Finished, BuiltFor
<1>3. Built(p) BY <1>1, <1>2 DEF Built
<1>4. Unedited(p) BY DEF Finished, NeedPrepare, Unedited
<1>5. built[p] # 0
  BY <1>1, <1>2, TypesOf DEF BuiltFor, ConfiguredFor
<1> QED BY <1>1, <1>2, <1>3, <1>4, <1>5

\* A make over finished packages passes from test to test.
LEMMA QuietStep ==
    ASSUME TInv, Stages, Sound, quiet, PackageStep
    PROVE  /\ job'.pc \in {"clean", "pack", "install"}
           /\ UNCHANGED <<prepared, configured, built, installed, tree, ipk, version, staged>>
<1> USE DEF Sound
<1>1. P \in Pkg /\ job.pc # "idle" BY OwnMake
<1>2. Stage(P) BY <1>1 DEF Progress
<1>3. Finished(P) BY <1>1 DEF Tour, Behind
<1>4. job.pc \in {"parse", "clean", "pack", "install"} BY <1>1 DEF Tour, Idling
<1>5. Parse \/ CleanStaging \/ Compile \/ BuiltAlready \/ RemoveIpk \/ WriteVersion \/ InstallClean
  BY <1>4 DEF PackageStep, Wipe, Unpack, TouchPrepared, Unstage, Configure,
     RemoveConfigured, TouchConfigured, TouchBuilt, MakeIpk, InstallList, InstallCopy,
     TouchInstalled, At
<1>6. /\ prepared[P].time \in Nat /\ built[P] \in Nat /\ installed[P] \in Nat
      /\ ipk[P].time \in Nat /\ version[P].time \in Nat
      /\ \A c \in Conf : configured[P][c] \in Nat
  BY <1>1, TypesOf
<1>7. ~NeedPrepare(P) /\ ~NeedPack(P) /\ ~NeedInstall(P)
  BY <1>3, <1>6 DEF Finished, NeedPack, NeedInstall
<1>8. ~CleanStaging /\ ~Compile
  <2>1. SUFFICES ASSUME job.pc = "clean" PROVE ~NeedConfigure(P) /\ ~NeedCompile(P)
    BY <1>4 DEF CleanStaging, Compile, At
  <2>2. job.conf = Chosen(P) BY <1>2, <2>1 DEF Stage, Early
  <2>3. BuiltFor(P, job.conf) /\ job.conf \in Conf BY <1>3, <2>2 DEF Finished, TInv, JobOK
  <2> QED BY <1>6, <2>3 DEF BuiltFor, ConfiguredFor, NeedConfigure, NeedCompile
<1>9. ~RemoveIpk /\ ~InstallClean BY <1>7 DEF RemoveIpk, InstallClean
<1>10. CASE Parse
  <2>1. job'.pc = "clean" BY <1>7, <1>10 DEF Parse, TInv, JobOK
  <2> QED BY <1>10, <2>1 DEF Parse, stamps, outputs
<1>11. CASE BuiltAlready
  <2>1. job'.pc = "pack" BY <1>11 DEF BuiltAlready, Goto, TInv, JobOK
  <2> QED BY <1>11, <2>1 DEF BuiltAlready, stamps, outputs
<1>12. CASE WriteVersion
  <2>1. job'.pc = "install" BY <1>12 DEF WriteVersion, Goto, TInv, JobOK
  <2>2. ~(version[P].time = 0 \/ version[P].abi # src[P].abi) BY <1>3 DEF Finished
  <2> QED BY <1>12, <2>1, <2>2 DEF WriteVersion, stamps
<1> QED BY <1>5, <1>8, <1>9, <1>10, <1>11, <1>12

\* What a package and its libraries' .version files decide.
LEMMA StillFinished ==
    ASSUME NEW p \in Pkg, Finished(p), Left(p), option'[p] = option[p],
           version'[p] = version[p], \A d \in Deps[p] : version'[d] = version[d]
    PROVE  Finished(p)'
BY DEF Finished, Left, NeedPrepare, BuiltFor, ConfiguredFor, Chosen, UpToDateBy, Sec

\* The packages behind stay finished while the next one is made.
LEMMA OwnMakeBehind ==
    ASSUME InOrder, TInv, Stages, Sound, PackageStep, NEW q \in Pkg
    PROVE  Behind(q)'
<1> USE DEF Sound
<1>1. /\ P \in Pkg /\ job.pc # "idle" /\ job'.todo = job.todo
      /\ UNCHANGED <<src, option, quiet>>
  BY OwnMake
<1>2. Visited(q)' <=> Visited(q) BY <1>1 DEF Visited
<1>3. Behind(q) BY DEF Tour
<1>4. CASE quiet
  <2>1. UNCHANGED <<prepared, configured, built, installed, tree, ipk, version, staged>>
    BY <1>4, QuietStep
  <2>2. Left(q) BY <1>1, <2>1 DEF Left
  <2>3. Finished(q) BY <1>3, <1>4 DEF Behind
  <2>4. Finished(q)' BY <1>1, <2>1, <2>2, <2>3, StillFinished
  <2> QED BY <2>4 DEF Behind
<1>5. CASE ~quiet /\ Visited(q)
  <2>1. q # P /\ P \notin Deps[q] BY <1>1, <1>5, Ahead DEF Tour
  <2>2. Left(q) /\ version'[q] = version[q] BY <2>1, Others
  <2>3. \A d \in Deps[q] : version'[d] = version[d]
    <3>1. \A d \in Deps[q] : d \in Pkg /\ d # P BY <2>1, TypesOf
    <3> QED BY <3>1, Others
  <2>4. Finished(q) BY <1>1, <1>3, <1>5 DEF Behind
  <2>5. Finished(q)' BY <1>1, <2>2, <2>3, <2>4, StillFinished
  <2> QED BY <2>5 DEF Behind
<1>6. CASE ~quiet /\ ~Visited(q)
  BY <1>1, <1>2, <1>6 DEF Behind
<1> QED BY <1>4, <1>5, <1>6

\* A package whose make is through is finished.
LEMMA ThroughFinished ==
    ASSUME InOrder, TInv, Stages, Sound, NextPackage
    PROVE  P \in Pkg /\ Finished(P) /\ job.pc # "idle"
<1> USE DEF Sound
<1>1. job.pc # "idle" BY DEF NextPackage, At
<1>2. P \in Pkg /\ Stage(P) BY <1>1, Present DEF Progress, TInv
<1>3. built[P] \in Nat /\ installed[P] \in Nat BY <1>2, TypesOf
<1>4. /\ job.conf = Chosen(P) /\ ~NeedPrepare(P) /\ BuiltFor(P, job.conf)
      /\ built[P] <= ipk[P].time /\ version[P].time # 0 /\ version[P].abi = src[P].abi
  BY <1>2 DEF NextPackage, At, Stage, Early, Bared, Uncompiled, Unbuilt, Unpackaged
<1>5. built[P] <= installed[P]
  BY <1>2, <1>3 DEF NextPackage, At, NeedInstall, Stage
<1> QED BY <1>1, <1>2, <1>4, <1>5 DEF Finished

\* Where a make goes from a package whose make is through.
LEMMA NextPackageTour ==
    ASSUME InOrder, TInv, Stages, Sound, NextPackage
    PROVE  Tour'
<1> USE DEF Sound
<1>1. P \in Pkg /\ Finished(P) /\ job.pc # "idle" BY ThroughFinished
<1>2. UNCHANGED <<src, option, prepared, configured, built, installed, tree, ipk, version, staged>>
  BY DEF NextPackage, sources, stamps, outputs
<1>3. ASSUME NEW q \in Pkg, Finished(q) PROVE Finished(q)'
  BY <1>2, <1>3, StillFinished DEF Left
<1> DEFINE n == Len(Order)
           m == Len(job.todo)
<1>4. n \in Nat BY BuildAssumption
<1>5. job.todo \in Seq(Pkg) /\ job.todo # << >> /\ m \in Nat /\ m > 0
  BY <1>1, Present DEF TInv, JobOK
<1>6. m <= n /\ \A i \in 1..m : job.todo[i] = Order[n - m + i] BY DEF Tour, OnTheWay
<1>7. P = Order[n - m + 1]
  <2>1. P = job.todo[1] BY <1>5 DEF P
  <2>2. 1 \in 1..m BY <1>5
  <2> HIDE DEF n, m
  <2> QED BY <1>6, <2>1, <2>2
<1>8. ASSUME NEW q PROVE Visited(q) <=> \E i \in 1..(n - m) : Order[i] = q BY DEF Visited
<1>9. ASSUME NEW q \in Pkg, NEW i \in 1..(n - m + 1), Order[i] = q PROVE Finished(q)'
  <2>1. CASE i = n - m + 1 BY <1>1, <1>3, <1>7, <1>9, <2>1
  <2>2. CASE i \in 1..(n - m)
    <3>1. Visited(q) BY <1>8, <1>9, <2>2
    <3>2. Finished(q) BY <1>1, <3>1 DEF Tour, Behind
    <3> QED BY <1>3, <3>2
  <2>3. i = n - m + 1 \/ i \in 1..(n - m) BY <1>4, <1>5, <1>6
  <2> QED BY <2>1, <2>2, <2>3
<1>10. CASE Tail(job.todo) = << >>
  <2>1. job' = Idle BY <1>10 DEF NextPackage
  <2>2. job'.todo = << >> /\ job'.dirty = FALSE /\ job'.pc = "idle" BY <2>1 DEF Idle
  <2>3. m = 1
    <3>1. Len(Tail(job.todo)) = m - 1 BY <1>5
    <3>2. Len(<< >>) = 0 OBVIOUS
    <3>3. Len(Tail(job.todo)) = Len(<< >>) BY <1>10, Zenon
    <3>4. m - 1 = 0 BY <3>1, <3>2, <3>3
    <3> HIDE DEF m
    <3> QED BY <1>5, <3>4
  <2>4. ASSUME NEW q \in Pkg PROVE Behind(q)'
    <3>1. PICK i \in 1..n : Order[i] = q BY DEF InOrder
    <3>2. i \in 1..(n - m + 1) BY <1>4, <2>3
    <3>3. Finished(q)' BY <1>9, <3>1, <3>2
    <3> QED BY <3>3 DEF Behind
  <2>5. OnTheWay' BY <1>4, <2>2 DEF OnTheWay
  <2>6. Idling' BY <2>2 DEF Idling
  <2> QED BY <2>2, <2>4, <2>5, <2>6 DEF Tour
<1>11. CASE Tail(job.todo) # << >>
  <2>1. job' = [job EXCEPT !.todo = Tail(job.todo), !.pc = "parse"] /\ UNCHANGED quiet
    BY <1>11 DEF NextPackage
  <2>2. job'.todo = Tail(job.todo) /\ job'.dirty = FALSE /\ job'.pc = "parse"
    BY <2>1 DEF TInv, JobOK, Tour
  <2>3. Len(job'.todo) = m - 1 BY <1>5, <2>2
  <2>4. \A i \in 1..(m - 1) : job'.todo[i] = job.todo[i + 1] BY <1>5, <2>2
  <2>5. \A i \in 1..(m - 1) : job'.todo[i] = Order[n - (m - 1) + i]
    <3> SUFFICES ASSUME NEW i \in 1..(m - 1) PROVE job'.todo[i] = Order[n - (m - 1) + i]
      OBVIOUS
    <3>1. i + 1 \in 1..m /\ n - m + (i + 1) = n - (m - 1) + i BY <1>4, <1>5
    <3> HIDE DEF m, n
    <3> QED BY <1>6, <2>4, <3>1
  <2>6. OnTheWay'
    <3>1. m - 1 <= n BY <1>4, <1>5, <1>6
    <3> QED BY <2>3, <2>5, <3>1 DEF OnTheWay
  <2>7. ASSUME NEW q \in Pkg PROVE Behind(q)'
    <3>1. CASE quiet
      <4>1. Finished(q) BY <3>1 DEF Tour, Behind
      <4> QED BY <1>3, <4>1 DEF Behind
    <3>2. CASE ~quiet
      <4>1. ASSUME Visited(q)' PROVE Finished(q)'
        <5>1. PICK i \in 1..(n - (m - 1)) : Order[i] = q BY <2>3, <4>1 DEF Visited
        <5>2. n - (m - 1) = n - m + 1 BY <1>4, <1>5
        <5> QED BY <1>9, <5>1, <5>2
      <4> QED BY <2>1, <3>2, <4>1 DEF Behind
    <3> QED BY <3>1, <3>2
  <2>8. Idling' BY <2>2 DEF Idling
  <2> QED BY <2>2, <2>6, <2>7, <2>8 DEF Tour
<1> QED BY <1>10, <1>11

\* The packages behind are finished, and a make over finished packages does nothing.
LEMMA StepTour ==
    ASSUME Disciplined, InOrder, TInv, Stages, Contents, Sound, [Next]_vars
    PROVE  Tour'
<1> USE DEF Sound
<1>1. Len(Order) \in Nat /\ Len(<< >>) = 0 BY BuildAssumption
<1>2. CASE PackageStep
  <2>1. job'.todo = job.todo /\ job'.dirty = job.dirty /\ UNCHANGED quiet BY <1>2, OwnMake
  <2>2. OnTheWay' BY <2>1 DEF Tour, OnTheWay
  <2>3. \A q \in Pkg : Behind(q)' BY <1>2, OwnMakeBehind
  <2>4. Idling' BY <1>2, <2>1, QuietStep DEF Idling
  <2> QED BY <2>1, <2>2, <2>3, <2>4 DEF Tour
<1>3. CASE NextPackage BY <1>3, NextPackageTour
<1>4. CASE Make
  <2>1. job' = [Idle EXCEPT !.pc = "parse", !.todo = Order] BY <1>4 DEF Make
  <2>2. job'.pc = "parse" /\ job'.todo = Order /\ job'.dirty = FALSE BY <2>1 DEF Idle
  <2>3. OnTheWay' BY <1>1, <2>2 DEF OnTheWay
  <2>4. ASSUME NEW q \in Pkg PROVE Behind(q)'
    <3>1. ~Visited(q)' BY <1>1, <2>2 DEF Visited
    <3>2. /\ UNCHANGED <<src, option, prepared, configured, built, installed, tree, ipk, version, staged>>
          /\ UNCHANGED quiet
      BY <1>4 DEF Make, sources, stamps, outputs
    <3>3. Finished(q) => Finished(q)' BY <3>2, StillFinished DEF Left
    <3>4. quiet => Finished(q) BY DEF Tour, Behind
    <3> QED BY <3>1, <3>2, <3>3, <3>4 DEF Behind
  <2>5. Idling' BY <2>2 DEF Idling
  <2> QED BY <2>2, <2>3, <2>4, <2>5 DEF Tour
<1>5. CASE Abort
  <2>1. job'.pc = "idle" /\ job'.todo = << >> /\ job'.dirty = FALSE /\ quiet' = FALSE
    BY <1>5 DEF Abort, Idle
  <2>2. OnTheWay' BY <1>1, <2>1 DEF OnTheWay
  <2>3. \A q \in Pkg : Behind(q)' BY <2>1 DEF Behind
  <2>4. Idling' BY <2>1 DEF Idling
  <2> QED BY <2>1, <2>2, <2>3, <2>4 DEF Tour
<1>6. CASE SecondPasses \/ UNCHANGED vars
  <2>1. UNCHANGED <<job, quiet, src, option, prepared, configured, built, installed, tree, ipk,
                    version, staged>>
    BY <1>6 DEF SecondPasses, sources, stamps, outputs, vars
  <2>2. \A q \in Pkg : Finished(q) => Finished(q)' BY <2>1, StillFinished DEF Left
  <2>3. \A q \in Pkg : Behind(q)' BY <2>1, <2>2 DEF Tour, Behind, Visited
  <2>4. OnTheWay' /\ Idling' BY <2>1 DEF Tour, OnTheWay, Idling
  <2> QED BY <2>1, <2>3, <2>4 DEF Tour
<1>7. ASSUME NEW p \in Pkg, Edit(p) \/ SetOption(p) \/ Clean(p) PROVE Tour'
  <2>1. job.pc = "idle" /\ Edited
    BY <1>7 DEF Edit, SetOption, Clean, MayEdit, Disciplined, At
  <2>2. job' = [job EXCEPT !.dirty = FALSE] /\ quiet' = FALSE BY <2>1 DEF Edited, At
  <2>3. job'.pc = "idle" /\ job'.todo = job.todo /\ job'.dirty = FALSE
    BY <2>1, <2>2 DEF TInv, JobOK
  <2>4. OnTheWay' BY <2>3 DEF Tour, OnTheWay
  <2>5. \A q \in Pkg : Behind(q)' BY <2>2, <2>3 DEF Behind
  <2>6. Idling' BY <2>2 DEF Idling
  <2> QED BY <2>3, <2>4, <2>5, <2>6 DEF Tour
<1> QED BY <1>2, <1>3, <1>4, <1>5, <1>6, <1>7 DEF Next, PackageStep

-----------------------------------------------------------------------------
\* At the start nothing is built.
LEMMA StartsSound == ASSUME Init PROVE Sound
<1>1. now = Second /\ Second \in Nat \ {0} BY BuildAssumption DEF Init
<1>2. ASSUME NEW p \in Pkg
      PROVE  /\ src[p].time = 1 /\ prepared[p].time = 0 /\ ipk[p].time = 0 /\ version[p].time = 0
  BY DEF Init, NoIpk
<1>3. Ages BY <1>1, <1>2 DEF Ages, Before
<1>4. ASSUME NEW p \in Pkg PROVE Tells(p)
  BY <1>2 DEF Tells, PreparedTells, ConfTells, LibsTell, BuiltTells, IpkTells, VersionTells,
     InstalledTells, Unedited, Built, BuiltFor, ConfiguredFor
<1>5. job.pc = "idle" /\ job.todo = << >> /\ job.dirty = FALSE /\ quiet = FALSE
  BY DEF Init, Idle
<1>6. Len(Order) \in Nat /\ Len(job.todo) = 0 BY <1>5, BuildAssumption
<1>7. OnTheWay BY <1>6 DEF OnTheWay
<1> QED BY <1>3, <1>4, <1>5, <1>7 DEF Sound, Vouched, Progress, Tour, Behind, Idling

\* Edited between makes, the build directories are sound.
LEMMA SoundAlways ==
    ASSUME Disciplined, InOrder PROVE Spec => [](TInv /\ Stages /\ Sound)
<1>1. Init => Sound BY StartsSound
<1>2. TInv /\ Stages /\ Contents /\ Sound /\ [Next]_vars => Sound'
  BY StepAges, StepVouched, StepProgress, StepTour DEF Sound
<1> QED BY <1>1, <1>2, Staging, PTL DEF Spec

\* What a finished package is made from, when its libraries are finished too.
LEMMA FinishedCurrent ==
    ASSUME TInv, Stages, Sound, NEW p \in Pkg, Finished(p), \A d \in Deps[p] : Finished(d)
    PROVE  /\ Current(p, tree[p].obj) /\ ipk[p].time # 0 /\ ipk[p].obj = tree[p].obj
           /\ {f.name : f \in staged[p]} = Names(src[p].list)
           /\ \A f \in staged[p] : f.obj = tree[p].obj
<1>1. Tells(p) BY DEF Sound, Vouched
<1>2. /\ Chosen(p) \in Conf /\ Unedited(p) /\ Built(p) /\ built[p] # 0
      /\ ConfiguredFor(p, Chosen(p)) /\ BuiltFor(p, Chosen(p))
  BY FinishedDecides
<1>3. Trusted(p, Chosen(p)) BY DEF Trusted
<1>4. tree[p].ver = src[p].ver BY <1>1, <1>2 DEF Tells, PreparedTells
<1>5. tree[p].conf = Chosen(p) BY <1>1, <1>2, <1>3 DEF Tells, ConfTells
<1>6. /\ prepared[p].time \in Nat /\ built[p] \in Nat /\ ipk[p].time \in Nat
      /\ \A d \in Deps[p] : version[d].time \in Nat
  BY TypesOf
<1>7. \A d \in Deps[p] : version[d].time <= prepared[p].time
  BY <1>6 DEF Finished, NeedPrepare
<1>8. tree[p].libs = {<<d, version[d].abi>> : d \in Deps[p]}
  BY <1>1, <1>2, <1>3, <1>7 DEF Tells, LibsTell
<1>9. {<<d, version[d].abi>> : d \in Deps[p]} = {<<d, src[d].abi>> : d \in Deps[p]}
  <2>1. \A d \in Deps[p] : version[d].abi = src[d].abi BY DEF Finished
  <2> QED BY <2>1
<1>10. tree[p].obj = Made(tree[p]) BY <1>1, <1>2, <1>3 DEF Tells, BuiltTells
<1>11. Current(p, tree[p].obj)
  BY <1>4, <1>5, <1>8, <1>9, <1>10 DEF Current, Made, Chosen
<1>12. built[p] <= ipk[p].time /\ built[p] <= installed[p] BY DEF Finished
<1>13. ipk[p].time # 0 /\ ipk[p].obj = tree[p].obj
  BY <1>1, <1>2, <1>6, <1>12 DEF Tells, IpkTells
<1>14. {f.name : f \in staged[p]} = Names(src[p].list) /\ \A f \in staged[p] : f.obj = tree[p].obj
  BY <1>1, <1>2, <1>12 DEF Tells, InstalledTells
<1> QED BY <1>11, <1>13, <1>14

\* MissesNothing: when a make has succeeded and nothing was edited since it
\* began, every package file and every staged file is made from the present
\* sources, option and libraries (the rules of build/package.mk).
THEOREM MissesNothing ==
    ASSUME Disciplined, InOrder PROVE Spec => []NothingMissed
<1>1. TInv /\ Stages /\ Sound => NothingMissed
  <2> SUFFICES ASSUME TInv, Stages, Sound, quiet, NEW p \in Pkg
               PROVE  /\ ipk[p].time # 0 /\ Current(p, ipk[p].obj)
                      /\ {f.name : f \in staged[p]} = Names(src[p].list)
                      /\ \A f \in staged[p] : Current(p, f.obj)
    BY DEF NothingMissed
  <2>1. \A q \in Pkg : Finished(q) BY DEF Sound, Tour, Behind
  <2>2. \A d \in Deps[p] : Finished(d) BY <2>1, TypesOf
  <2>3. Finished(p) BY <2>1
  <2>4. /\ Current(p, tree[p].obj) /\ ipk[p].time # 0 /\ ipk[p].obj = tree[p].obj
        /\ {f.name : f \in staged[p]} = Names(src[p].list)
        /\ \A f \in staged[p] : f.obj = tree[p].obj
    BY <2>2, <2>3, FinishedCurrent
  <2>5. Current(p, ipk[p].obj) BY <2>4
  <2>6. \A f \in staged[p] : Current(p, f.obj) BY <2>4
  <2> QED BY <2>4, <2>5, <2>6
<1> QED BY <1>1, SoundAlways, PTL

\* RepeatsNothing: after a make that succeeded, with nothing edited since, a
\* further make unpacks, configures, compiles, packs and installs nothing (the
\* tests of build/depends.mk and scripts/timestamp.pl).
THEOREM RepeatsNothing ==
    ASSUME Disciplined, InOrder PROVE Spec => NothingRepeated
<1> DEFINE Work == {"wipe", "unstage", "built", "ipk", "list"}
<1>1. TInv /\ Stages /\ Sound /\ [Next]_vars => [quiet => job'.pc \notin Work]_vars
  <2> SUFFICES ASSUME TInv, Stages, Sound, Next, quiet PROVE job'.pc \notin Work
    OBVIOUS
  <2>1. job.pc \in {"idle", "parse", "clean", "pack", "install"} BY DEF Sound, Tour, Idling
  <2>2. CASE PackageStep BY <2>2, QuietStep
  <2>3. CASE Make \/ NextPackage \/ Abort BY <2>3, Leaves DEF TInv
  <2>4. CASE SecondPasses BY <2>1, <2>4 DEF SecondPasses
  <2>5. ASSUME NEW p \in Pkg, Edit(p) \/ SetOption(p) \/ Clean(p) PROVE job'.pc \notin Work
    BY <2>1, <2>5, Outside DEF TInv
  <2> QED BY <2>2, <2>3, <2>4, <2>5 DEF Next, PackageStep
<1> QED BY <1>1, SoundAlways, PTL DEF Spec, NothingRepeated
=============================================================================
