-------------------------- MODULE BootstrapProofs --------------------------
(***************************************************************************)
(* PassIsTrue and StampsTrue of Bootstrap, for all archives, patches, sets *)
(* of languages, numbers of jobs and bounds, wherever the tool may be      *)
(* interrupted and however often.                                          *)
(***************************************************************************)
EXTENDS Bootstrap, TLAPS

BuildPlaces == StepPlaces \cup {"recover", "unstamp", "verify"}
PatchPlaces == {"patch", "patching", "patchStamp"}

\* Archive i is extracted, and its patches are stamped.
Prepared(i) == Archives[i] \in source /\ Patches(Archives[i]) \subseteq patchStamps

\* The sources before the one at hand are ready, and the patches before the
\* one at hand are stamped; that one is not, while it is applied.
SourcesReady ==
    /\ tool.at \in SourcePlaces => \A i \in 1 .. tool.n - 1 : Prepared(i)
    /\ tool.at = "source" => Archives[tool.n] \in archive
    /\ tool.at \in PatchPlaces =>
         /\ Archives[tool.n] \in source
         /\ tool.p \in 1 .. Len(PatchesOf[Archives[tool.n]]) + 1
         /\ \A j \in 1 .. tool.p - 1 : PatchesOf[Archives[tool.n]][j] \in patchStamps
    /\ tool.at \in {"patching", "patchStamp"} => q_ \notin patchStamps
    /\ tool.at = "patching" => file \in 1 .. FilesOf[q_] + 1
    /\ tool.at = "patchStamp" => q_ \notin spoilt
    /\ tool.at \in BuildPlaces => source = ArchiveNames /\ AllPatches \subseteq patchStamps

\* How many files of patch q, not stamped yet, a running patch(1) has done.
Done(q) ==
    CASE tool.at = "patching" /\ q = q_ -> file - 1
      [] tool.at = "patchStamp" /\ q = q_ -> FilesOf[q]
      [] OTHER -> 0

\* A patch that no invocation was interrupted in has changed its first files,
\* and all of them when it is stamped.
Untorn ==
    \A q \in AllPatches \ torn :
        /\ q \notin spoilt
        /\ patched[q] = 1 .. (IF q \in patchStamps THEN FilesOf[q] ELSE Done(q))

\* A compiler is never installed from a Makefile without OUTPUT_OPTION.
NothingBad ==
    /\ \A x \in Products : prefix[x] # "bad"
    /\ tool.at \in StepPlaces /\ tool.n \in {5, 6} => option = "set"

\* What the build directories may hold, and what a running make relies on.
TreesConfigured ==
    /\ conf["binutils"] \in {{}, {"as"}}
    /\ conf["gcc"] \in {{}} \cup Languages
    /\ built["binutils"] \subseteq {"as"}
    /\ tool.at = "running" /\ tool.n \in {2, 3} => conf["binutils"] # {}
    /\ tool.at = "running" /\ tool.n \in {5, 6} => conf["gcc"] # {}

\* The step whose stamp is about to be written has been done.
StepDone ==
    /\ tool.at = "stamp" /\ tool.n = 1 => conf["binutils"] = {"as"}
    /\ tool.at = "stamp" /\ tool.n = 2 => built["binutils"] = {"as"}
    /\ tool.at = "stamp" /\ tool.n = 3 => prefix["as"] = "good"
    /\ tool.at = "stamp" /\ tool.n = 6 => prefix["c"] = "good"

\* GCC is built with binutils installed.
BinutilsFirst ==
    /\ tool.at \in {"recover", "unstamp", "verify"} => prefix["as"] = "good"
    /\ tool.at \in StepPlaces /\ tool.n >= 4 => prefix["as"] = "good"

IInv ==
    /\ TypeOK
    /\ SourcesReady
    /\ Untorn
    /\ NothingBad
    /\ TreesConfigured
    /\ StepDone
    /\ BinutilsFirst
    /\ StampsTrue
    /\ PassIsTrue
    /\ outcome = "pass" => tool.at = "idle"

-----------------------------------------------------------------------------

LEMMA ArchiveNamed == \A i \in DOMAIN Archives : Archives[i] \in ArchiveNames
BY DEF ArchiveNames, Range

LEMMA PatchNamed ==
    \A i \in DOMAIN Archives : \A j \in DOMAIN PatchesOf[Archives[i]] :
        PatchesOf[Archives[i]][j] \in AllPatches
BY DEF ArchiveNames, AllPatches, Patches, Range

\* The first state.
LEMMA Initially == Init => IInv
<1> SUFFICES ASSUME Init PROVE IInv
    OBVIOUS
<1>1. TypeOK
    BY LanguagesAssumption, JobsAssumption, FaultsAssumption
    DEF Init, TypeOK, Places, SourcePlaces, StepPlaces, PartStates, Sig, NoStamp, Trees, Products
<1>3. Untorn
    BY DEF Init, Untorn, Done
<1>2. QED
    BY <1>1, <1>3 DEF Init, IInv, SourcesReady, NothingBad, TreesConfigured, StepDone, BinutilsFirst,
        StampsTrue, PassIsTrue, NoStamp, SourcePlaces, StepPlaces, BuildPlaces, PatchPlaces,
        Trees, Step

-----------------------------------------------------------------------------
(* The steps on the sources                                                *)

\* What they leave alone: the build, and what the last invocation said.
Aside ==
    /\ UNCHANGED <<args, builds>>
    /\ tool'.at \in SourcePlaces \cup {"idle"} \/ tool' = [at |-> "step", n |-> 1, p |-> 0]
    /\ outcome' \in {"none", "fail"} \/ (outcome' = outcome /\ tool.at # "idle")

LEMMA AsideKeeps ==
    ASSUME IInv, Aside
    PROVE  NothingBad' /\ TreesConfigured' /\ StepDone' /\ BinutilsFirst' /\ StampsTrue'
           /\ PassIsTrue' /\ (outcome = "pass" => tool.at = "idle")'
<1>1. /\ SourcePlaces \cap BuildPlaces = {} /\ "idle" \notin BuildPlaces /\ "running" \in StepPlaces
      /\ "stamp" \in StepPlaces /\ StepPlaces \subseteq BuildPlaces
    BY DEF SourcePlaces, BuildPlaces, StepPlaces
<1>2. NothingBad' /\ TreesConfigured' /\ StepDone' /\ BinutilsFirst' /\ StampsTrue'
    BY <1>1 DEF IInv, TypeOK, Aside, builds, trees, NothingBad, TreesConfigured, StepDone,
        BinutilsFirst,
        StampsTrue, SourcePlaces, BuildPlaces, StepPlaces
<1>3. PassIsTrue' /\ (outcome = "pass" => tool.at = "idle")'
    BY DEF IInv, Aside, PassIsTrue
<1>4. QED
    BY <1>2, <1>3

\* The sources that are ready stay ready.
LEMMA PreparedKept ==
    ASSUME source \subseteq source', patchStamps \subseteq patchStamps'
    PROVE  \A i \in DOMAIN Archives : Prepared(i) => Prepared(i)'
BY DEF Prepared

\* A step that is not of patch(1) leaves the patches as they are.
LEMMA UntornKept ==
    ASSUME Untorn, UNCHANGED patches,
           {tool.at, tool'.at} \cap {"patching", "patchStamp"} = {}
    PROVE  Untorn'
<1>1. \A q : Done(q) = 0 /\ Done(q)' = 0
    BY DEF Done
<1>2. QED
    BY <1>1 DEF Untorn, patches, AllPatches, ArchiveNames, Patches

LEMMA EarlierPrepared ==
    ASSUME IInv, tool.at \in SourcePlaces
    PROVE  /\ tool.n \in DOMAIN Archives /\ DOMAIN Archives = 1 .. Len(Archives)
           /\ Archives[tool.n] \in ArchiveNames
           /\ 1 .. tool.n - 1 \subseteq DOMAIN Archives
           /\ \A i \in 1 .. tool.n - 1 : Prepared(i)
BY ArchivesAssumption, ArchiveNamed DEF IInv, TypeOK, SourcesReady

LEMMA ArchiveAtHandKeeps == IInv /\ ArchiveAtHand => IInv'
<1> SUFFICES ASSUME IInv, ArchiveAtHand PROVE IInv'
    OBVIOUS
<1> USE DEF ArchiveAtHand, a_, Goto, At, Continues, NoFault, Fault, Fail, Ends, Idle, Places,
    SourcePlaces, StepPlaces
<1>1. Aside
    BY ArchivesAssumption DEF IInv, Aside, sources
<1>2. TypeOK'
    BY EarlierPrepared, FaultsAssumption DEF IInv, TypeOK, PartStates, sources, patches, builds,
        trees
<1>3. SourcesReady'
    BY EarlierPrepared, PreparedKept DEF IInv, TypeOK, SourcesReady, BuildPlaces, PatchPlaces,
        sources, patches
<1>4. Untorn'
    BY UntornKept DEF IInv, sources
<1>9. QED
    BY <1>1, <1>2, <1>3, <1>4, AsideKeeps DEF IInv

LEMMA ArchiveMissingKeeps == IInv /\ ArchiveMissing => IInv'
<1> SUFFICES ASSUME IInv, ArchiveMissing PROVE IInv'
    OBVIOUS
<1> USE DEF ArchiveMissing, a_, Goto, At, Continues, NoFault, Fault, Fail, Ends, Idle, Places,
    SourcePlaces, StepPlaces
<1>1. Aside
    BY ArchivesAssumption DEF IInv, Aside, sources
<1>2. TypeOK'
    BY EarlierPrepared, FaultsAssumption DEF IInv, TypeOK, PartStates, sources, patches, builds,
        trees
<1>3. SourcesReady'
    BY EarlierPrepared, PreparedKept DEF IInv, TypeOK, SourcesReady, BuildPlaces, PatchPlaces,
        sources, patches
<1>4. Untorn'
    BY UntornKept DEF IInv, sources
<1>9. QED
    BY <1>1, <1>2, <1>3, <1>4, AsideKeeps DEF IInv

LEMMA ReceivedKeeps == IInv /\ Received => IInv'
<1> SUFFICES ASSUME IInv, Received PROVE IInv'
    OBVIOUS
<1> USE DEF Received, a_, Goto, At, Continues, NoFault, Fault, Fail, Ends, Idle, Places,
    SourcePlaces, StepPlaces
<1>1. Aside
    BY ArchivesAssumption DEF IInv, Aside, sources
<1>2. TypeOK'
    BY EarlierPrepared, FaultsAssumption DEF IInv, TypeOK, PartStates, sources, patches, builds,
        trees
<1>3. SourcesReady'
    BY EarlierPrepared, PreparedKept DEF IInv, TypeOK, SourcesReady, BuildPlaces, PatchPlaces,
        sources, patches
<1>4. Untorn'
    BY UntornKept DEF IInv, sources
<1>9. QED
    BY <1>1, <1>2, <1>3, <1>4, AsideKeeps DEF IInv

LEMMA NotReceivedKeeps == IInv /\ NotReceived => IInv'
<1> SUFFICES ASSUME IInv, NotReceived PROVE IInv'
    OBVIOUS
<1> USE DEF NotReceived, a_, Goto, At, Continues, NoFault, Fault, Fail, Ends, Idle, Places,
    SourcePlaces, StepPlaces
<1>1. Aside
    BY ArchivesAssumption DEF IInv, Aside, sources
<1>2. TypeOK'
    BY EarlierPrepared, FaultsAssumption DEF IInv, TypeOK, PartStates, sources, patches, builds,
        trees
<1>3. SourcesReady'
    BY EarlierPrepared, PreparedKept DEF IInv, TypeOK, SourcesReady, BuildPlaces, PatchPlaces,
        sources, patches
<1>4. Untorn'
    BY UntornKept DEF IInv, sources
<1>9. QED
    BY <1>1, <1>2, <1>3, <1>4, AsideKeeps DEF IInv

LEMMA CheckDownloadKeeps == IInv /\ CheckDownload => IInv'
<1> SUFFICES ASSUME IInv, CheckDownload PROVE IInv'
    OBVIOUS
<1> USE DEF CheckDownload, a_, Goto, At, Continues, NoFault, Fault, Fail, Ends, Idle, Places,
    SourcePlaces, StepPlaces
<1>1. Aside
    BY ArchivesAssumption DEF IInv, Aside, sources
<1>2. TypeOK'
    BY EarlierPrepared, FaultsAssumption DEF IInv, TypeOK, PartStates, sources, patches, builds,
        trees
<1>3. SourcesReady'
    BY EarlierPrepared, PreparedKept DEF IInv, TypeOK, SourcesReady, BuildPlaces, PatchPlaces,
        sources, patches
<1>4. Untorn'
    BY UntornKept DEF IInv, sources
<1>9. QED
    BY <1>1, <1>2, <1>3, <1>4, AsideKeeps DEF IInv

LEMMA ExtractKeeps == IInv /\ Extract => IInv'
<1> SUFFICES ASSUME IInv, Extract PROVE IInv'
    OBVIOUS
<1> USE DEF Extract, a_, Goto, At, Continues, NoFault, Fault, Fail, Ends, Idle, Places,
    SourcePlaces, StepPlaces
<1>1. Aside
    BY ArchivesAssumption DEF IInv, Aside, sources
<1>2. TypeOK'
    BY EarlierPrepared, FaultsAssumption DEF IInv, TypeOK, SourcesReady, PartStates, sources,
        patches, builds, trees
<1>3. SourcesReady'
    BY EarlierPrepared, PreparedKept DEF IInv, TypeOK, SourcesReady, BuildPlaces, PatchPlaces,
        sources, patches
<1>4. Untorn'
    BY UntornKept DEF IInv, sources
<1>9. QED
    BY <1>1, <1>2, <1>3, <1>4, AsideKeeps DEF IInv

LEMMA NextArchiveKeeps == IInv /\ NextArchive => IInv'
<1> SUFFICES ASSUME IInv, NextArchive PROVE IInv'
    OBVIOUS
<1> USE DEF NextArchive, a_, Goto, At, Continues, NoFault, Fault, Fail, Ends, Idle, Places,
    SourcePlaces, StepPlaces
<1>1. Aside
    BY ArchivesAssumption DEF IInv, Aside, sources
<1>2. Prepared(tool.n)
    <2>1. PatchesOf[Archives[tool.n]] \in Seq(Range(PatchesOf[Archives[tool.n]]))
        BY EarlierPrepared, ArchivesAssumption DEF ArchiveNames
    <2>2. /\ Archives[tool.n] \in source
          /\ \A j \in 1 .. Len(PatchesOf[Archives[tool.n]]) :
                PatchesOf[Archives[tool.n]][j] \in patchStamps
        <3>1. tool.p = Len(PatchesOf[Archives[tool.n]]) + 1
            BY <2>1 DEF IInv, TypeOK, SourcesReady, PatchPlaces, MorePatches
        <3>2. QED
            BY <2>1, <3>1 DEF IInv, SourcesReady, PatchPlaces
    <2>3. QED
        BY <2>1, <2>2 DEF Prepared, Patches, Range
<1>3. TypeOK'
    BY EarlierPrepared, FaultsAssumption DEF IInv, TypeOK, sources, patches, builds, trees, Step
<1>4. ASSUME tool.n < Len(Archives) PROVE SourcesReady'
    <2>1. tool'.at = "archive" /\ tool'.n - 1 = tool.n
        BY <1>4 DEF IInv, TypeOK
    <2>2. \A i \in 1 .. tool.n : Prepared(i)
        BY <1>2, EarlierPrepared, <2>1
    <2>3. \A i \in 1 .. tool.n : Prepared(i)'
        BY <2>2 DEF Prepared, sources, patches
    <2>4. QED
        BY <2>1, <2>3 DEF SourcesReady, BuildPlaces, PatchPlaces, Prepared
<1>5. ASSUME tool.n = Len(Archives) PROVE SourcesReady'
    <2>1. \A i \in DOMAIN Archives : Prepared(i)
        BY <1>2, <1>5, EarlierPrepared DEF IInv, TypeOK
    <2>2. source = ArchiveNames /\ AllPatches \subseteq patchStamps
        BY <2>1 DEF IInv, TypeOK, Prepared, AllPatches, ArchiveNames, Range
    <2>3. QED
        <3>1. tool'.at = "step" /\ UNCHANGED <<source, patchStamps>>
            BY <1>5 DEF IInv, TypeOK, sources, patches
        <3>2. QED
            BY <2>2, <3>1 DEF SourcesReady, BuildPlaces, PatchPlaces, AllPatches, ArchiveNames
<1>6. Untorn'
    BY UntornKept DEF IInv, sources
<1>9. QED
    BY <1>1, <1>3, <1>4, <1>5, <1>6, EarlierPrepared, AsideKeeps DEF IInv, TypeOK

LEMMA PatchStampedKeeps == IInv /\ PatchStamped => IInv'
<1> SUFFICES ASSUME IInv, PatchStamped PROVE IInv'
    OBVIOUS
<1> USE DEF PatchStamped, a_, Goto, At, Continues, NoFault, Fault, Fail, Ends, Idle, Places,
    SourcePlaces, StepPlaces
<1>1. Aside
    BY ArchivesAssumption DEF IInv, Aside, sources
<1>2. TypeOK'
    BY EarlierPrepared, FaultsAssumption DEF IInv, TypeOK, PartStates, sources, patches, builds, trees,
        MorePatches, q_
<1>3. SourcesReady'
    BY EarlierPrepared, PreparedKept DEF IInv, TypeOK, SourcesReady, BuildPlaces, PatchPlaces,
        sources, patches, MorePatches, q_
<1>4. Untorn'
    BY UntornKept DEF IInv, sources
<1>9. QED
    BY <1>1, <1>2, <1>3, <1>4, AsideKeeps DEF IInv

\* The patch at hand.
LEMMA PatchAtHand ==
    ASSUME IInv, tool.at \in PatchPlaces, tool.at = "patch" => MorePatches
    PROVE  /\ tool.p \in DOMAIN PatchesOf[Archives[tool.n]]
           /\ q_ \in AllPatches /\ q_ \in Patches(Archives[tool.n])
           /\ FilesOf[q_] \in Nat \ {0}
<1>1. tool.n \in DOMAIN Archives /\ Archives[tool.n] \in ArchiveNames
    BY EarlierPrepared DEF PatchPlaces, SourcePlaces
<1>2. tool.p \in DOMAIN PatchesOf[Archives[tool.n]]
    <2>1. PatchesOf[Archives[tool.n]] \in Seq(Range(PatchesOf[Archives[tool.n]]))
        BY <1>1, ArchivesAssumption DEF ArchiveNames
    <2>2. CASE tool.at = "patch"
        BY <2>1, <2>2 DEF IInv, SourcesReady, PatchPlaces, MorePatches, a_
    <2>3. CASE tool.at # "patch"
        BY <2>3 DEF IInv, TypeOK, PatchPlaces
    <2>4. QED
        BY <2>2, <2>3
<1>3. QED
    BY <1>1, <1>2, PatchNamed, FilesAssumption DEF q_, a_, Patches, ArchiveNames, Range

LEMMA BeginPatchKeeps == IInv /\ BeginPatch => IInv'
<1> SUFFICES ASSUME IInv, BeginPatch PROVE IInv'
    OBVIOUS
<1> USE DEF BeginPatch, Goto, At, Continues, NoFault, Fail, Ends, Idle, Places, SourcePlaces,
    StepPlaces, PatchPlaces
<1>1. Aside
    BY DEF IInv, Aside
<1>2. \/ tool' = Idle /\ UNCHANGED file
      \/ tool' = [tool EXCEPT !.at = "patching"] /\ file' = 1
    BY DEF IInv, TypeOK
<1>3. TypeOK'
    BY <1>2, PatchAtHand, EarlierPrepared DEF IInv, TypeOK, builds, trees
<1>4. SourcesReady'
    <2>1. CASE tool' = Idle
        BY <2>1 DEF SourcesReady, BuildPlaces
    <2>2. CASE tool' = [tool EXCEPT !.at = "patching"] /\ file' = 1
        <3>1. tool'.at = "patching" /\ tool'.n = tool.n /\ tool'.p = tool.p /\ q_' = q_
            BY <2>2 DEF IInv, TypeOK, q_, a_
        <3>2. \A i \in 1 .. tool.n - 1 : Prepared(i)'
            BY EarlierPrepared, PreparedKept
        <3>3. QED
            BY <2>2, <3>1, <3>2, PatchAtHand DEF IInv, SourcesReady, BuildPlaces
    <2>3. QED
        BY <1>2, <2>1, <2>2
<1>5. Untorn'
    <2>1. \A q : Done(q) = 0 /\ Done(q)' = 0
        BY <1>2 DEF Done, IInv, TypeOK
    <2>2. QED
        BY <2>1 DEF IInv, Untorn, AllPatches, ArchiveNames, Patches
<1>9. QED
    BY <1>1, <1>3, <1>4, <1>5, AsideKeeps DEF IInv

LEMMA PatchFileKeeps == IInv /\ PatchFile => IInv'
<1> SUFFICES ASSUME IInv, PatchFile PROVE IInv'
    OBVIOUS
<1> USE DEF PatchFile, At, NoFault, Places, SourcePlaces, StepPlaces, PatchPlaces
<1>1. Aside
    BY DEF IInv, Aside
<1>2. /\ q_ \in AllPatches /\ q_ \notin patchStamps /\ FilesOf[q_] \in Nat
      /\ file \in 1 .. FilesOf[q_] /\ q_' = q_
    BY PatchAtHand DEF IInv, SourcesReady, q_, a_
<1>3. /\ patched' \in [AllPatches -> SUBSET Nat]
      /\ spoilt' \subseteq AllPatches /\ patchStamps \subseteq AllPatches \ spoilt'
    BY <1>2 DEF IInv, TypeOK
<1>4. TypeOK'
    BY <1>2, <1>3 DEF IInv, TypeOK, builds, trees
<1>5. SourcesReady'
    BY <1>2, EarlierPrepared, PreparedKept DEF IInv, SourcesReady, BuildPlaces
<1>6. Untorn'
    <2>1. SUFFICES ASSUME NEW q \in AllPatches, q \notin torn
                   PROVE  /\ q \notin spoilt'
                          /\ patched'[q] = 1 .. (IF q \in patchStamps THEN FilesOf[q] ELSE Done(q)')
        BY DEF Untorn, AllPatches, ArchiveNames, Patches
    <2>2. CASE q = q_
        <3>1. q \notin spoilt /\ patched[q] = 1 .. file - 1 /\ Done(q)' = file
            BY <1>2, <2>1, <2>2 DEF IInv, Untorn, Done
        <3>2. file \notin patched[q] /\ patched'[q] = 1 .. file
            <4>1. file \in Nat \ {0} /\ file \notin patched[q]
                BY <1>2, <3>1
            <4>2. patched'[q] = patched[q] \cup {file}
                BY <1>2, <2>2, <4>1 DEF IInv, TypeOK
            <4>3. (1 .. file - 1) \cup {file} = 1 .. file
                BY <4>1
            <4>4. QED
                BY <3>1, <4>1, <4>2, <4>3
        <3>3. QED
            BY <1>2, <2>2, <3>1, <3>2
    <2>3. CASE q # q_
        BY <1>2, <2>1, <2>3 DEF IInv, TypeOK, Untorn, Done
    <2>4. QED
        BY <2>2, <2>3
<1>9. QED
    BY <1>1, <1>4, <1>5, <1>6, AsideKeeps DEF IInv

LEMMA EndPatchKeeps == IInv /\ EndPatch => IInv'
<1> SUFFICES ASSUME IInv, EndPatch PROVE IInv'
    OBVIOUS
<1> USE DEF EndPatch, Goto, At, Continues, NoFault, Fail, Ends, Idle, Places, SourcePlaces,
    StepPlaces, PatchPlaces, sources, patches
<1>1. Aside
    BY DEF IInv, Aside
<1>2. /\ \/ tool' = Idle /\ q_ \in spoilt
         \/ /\ tool'.at = "patchStamp" /\ tool' \in [at : Places, n : Nat, p : Nat]
            /\ tool'.n = tool.n /\ tool'.p = tool.p
            /\ q_ \notin spoilt /\ q_' = q_
      /\ q_ \in AllPatches /\ q_ \notin patchStamps /\ FilesOf[q_] \in Nat
      /\ file - 1 = FilesOf[q_]
    <2>1. q_ \in AllPatches /\ q_ \notin patchStamps /\ FilesOf[q_] \in Nat
        BY PatchAtHand DEF IInv, SourcesReady
    <2>2. file \in 1 .. FilesOf[q_] + 1 /\ file > FilesOf[q_]
        BY DEF IInv, SourcesReady
    <2>3. tool.n \in Nat /\ tool.p \in Nat
        BY DEF IInv, TypeOK
    <2>4. ASSUME q_ \notin spoilt
          PROVE  tool' = [at |-> "patchStamp", n |-> tool.n, p |-> tool.p] /\ q_' = q_
        BY <2>4 DEF q_, a_
    <2>5. QED
        BY <2>1, <2>2, <2>3, <2>4
<1>3. TypeOK'
    BY <1>2, PatchAtHand, EarlierPrepared DEF IInv, TypeOK, builds, trees
<1>4. SourcesReady'
    <2>1. \A i \in 1 .. tool.n - 1 : Prepared(i)'
        BY EarlierPrepared, PreparedKept
    <2>2. QED
        BY <1>2, <2>1 DEF IInv, SourcesReady, BuildPlaces
<1>5. Untorn'
    <2>1. ASSUME NEW q \in AllPatches, q \notin torn PROVE Done(q)' = Done(q)
        BY <1>2, <2>1 DEF IInv, TypeOK, Untorn, Done
    <2>2. QED
        BY <2>1 DEF IInv, Untorn, AllPatches, ArchiveNames, Patches
<1>9. QED
    BY <1>1, <1>3, <1>4, <1>5, AsideKeeps DEF IInv

LEMMA StampPatchKeeps == IInv /\ StampPatch => IInv'
<1> SUFFICES ASSUME IInv, StampPatch PROVE IInv'
    OBVIOUS
<1> USE DEF StampPatch, Goto, At, Continues, NoFault, Places, SourcePlaces, StepPlaces,
    PatchPlaces
<1>1. Aside
    BY DEF IInv, Aside
<1>2. q_ \in AllPatches /\ q_ \notin patchStamps /\ q_ \notin spoilt
    BY PatchAtHand DEF IInv, SourcesReady
<1>3. TypeOK'
    BY <1>2, PatchAtHand, EarlierPrepared DEF IInv, TypeOK, SourcesReady, builds, trees
<1>4. SourcesReady'
    <2>1. \A i \in 1 .. tool.n - 1 : Prepared(i)'
        BY EarlierPrepared, PreparedKept
    <2>2. tool'.at = "patch" /\ tool'.n = tool.n /\ tool'.p - 1 = tool.p
        BY DEF IInv, TypeOK
    <2>3. PatchesOf[Archives[tool.n]] \in Seq(Range(PatchesOf[Archives[tool.n]]))
        BY EarlierPrepared, ArchivesAssumption DEF ArchiveNames
    <2>4. tool'.p \in 1 .. Len(PatchesOf[Archives[tool.n]]) + 1
        BY <2>2, <2>3, PatchAtHand DEF IInv, TypeOK
    <2>5. \A j \in 1 .. tool.p : PatchesOf[Archives[tool.n]][j] \in patchStamps'
        <3>1. \A j \in 1 .. tool.p - 1 : PatchesOf[Archives[tool.n]][j] \in patchStamps'
            BY DEF IInv, SourcesReady
        <3>2. PatchesOf[Archives[tool.n]][tool.p] \in patchStamps'
            BY DEF q_, a_
        <3>3. tool.p \in Nat
            BY DEF IInv, TypeOK
        <3>4. QED
            BY <3>1, <3>2, <3>3
    <2>6. QED
        BY <2>1, <2>2, <2>4, <2>5 DEF IInv, SourcesReady, BuildPlaces
<1>5. Untorn'
    <2>1. \A q : Done(q) = (IF q = q_ THEN FilesOf[q] ELSE 0) /\ Done(q)' = 0
        BY DEF Done, IInv, TypeOK
    <2>2. QED
        BY <1>2, <2>1 DEF IInv, Untorn, AllPatches, ArchiveNames, Patches
<1>9. QED
    BY <1>1, <1>3, <1>4, <1>5, AsideKeeps DEF IInv

-----------------------------------------------------------------------------
(* The steps of the build                                                  *)

\* They leave the sources alone, and the tool does not go back to them.
LEMMA BuildKeepsSources ==
    ASSUME IInv, UNCHANGED sources, tool'.at \in BuildPlaces => tool.at \in BuildPlaces,
           tool'.at \in BuildPlaces \cup {"idle"}, tool.at \in BuildPlaces
    PROVE  SourcesReady' /\ Untorn'
<1>1. SourcesReady'
    BY DEF IInv, SourcesReady, sources, patches, SourcePlaces, StepPlaces, BuildPlaces,
        PatchPlaces, Prepared, AllPatches, ArchiveNames
<1>2. Untorn'
    BY UntornKept DEF IInv, sources, StepPlaces, BuildPlaces
<1>3. QED
    BY <1>1, <1>2

\* Where the tool goes after a step.
LEMMA Proceeds ==
    ASSUME NEW k \in Step, Proceed(k)
    PROVE  \/ tool' = Idle /\ outcome' = "fail"
           \/ /\ outcome' = outcome
              /\ \/ k = 3 /\ prefix'["as"] # "none" /\ tool' = [at |-> "recover", n |-> 4, p |-> 0]
                 \/ k = 6 /\ tool' = [at |-> "verify", n |-> 6, p |-> 0]
                 \/ /\ k \in {1, 2, 4, 5} /\ (k = 4 => option' # "empty")
                    /\ tool' = [at |-> "step", n |-> k + 1, p |-> 0]
BY DEF Step, Proceed, Fail, Ends, Goto, Continues

\* What make leaves and what it installs.
LEMMA MadeKeeps ==
    ASSUME IInv, NEW b \in Trees, NEW S \in SUBSET conf[b], Made(b, S)
    PROVE  /\ UNCHANGED <<conf, option>>
           /\ built' \in [Trees -> SUBSET Products]
           /\ built["binutils"] \subseteq built'["binutils"]
           /\ built'["binutils"] \subseteq {"as"}
           /\ S \subseteq built'[b]
BY DEF IInv, TypeOK, TreesConfigured, Trees, Made

LEMMA InstalledGood ==
    ASSUME IInv, NEW b \in Trees, NEW S \in SUBSET conf[b], Installed(b, S),
           b = "gcc" => option = "set"
    PROVE  /\ prefix' \in [Products -> {"none", "good", "bad"}]
           /\ \A x \in Products : prefix'[x] # "bad"
           /\ \A x \in Products : prefix[x] = "good" => prefix'[x] = "good"
           /\ \A x \in S : x \in Products /\ prefix'[x] = "good"
BY DEF IInv, TypeOK, NothingBad, Installed

LEMMA ConfiguredFor ==
    ASSUME IInv
    PROVE  /\ "as" \in Products /\ "c" \in Products
           /\ args.languages \subseteq Fronts
           /\ conf["gcc"] # {} => "c" \in conf["gcc"]
           /\ conf["binutils"] # {} => conf["binutils"] = {"as"}
BY LanguagesAssumption DEF IInv, TypeOK, TreesConfigured, Products, Fronts

LEMMA SkipStepKeeps == IInv /\ SkipStep => IInv'
<1> SUFFICES ASSUME IInv, SkipStep PROVE IInv'
    OBVIOUS
<1> USE DEF SkipStep, Goto, At, Continues, NoFault, Fault, Fail, Ends, Idle, Places,
    SourcePlaces, StepPlaces, BuildPlaces
<1>0. tool.n \in Step /\ UNCHANGED <<conf, option, built, prefix, stamps>>
    BY DEF IInv, TypeOK, builds, trees
<1>1. TypeOK'
    BY <1>0, Proceeds DEF IInv, TypeOK, Step, sources, patches, builds, trees
<1>2. SourcesReady' /\ Untorn'
    BY <1>0, Proceeds, ConfiguredFor, BuildKeepsSources DEF IInv, TypeOK, Step
<1>3. NothingBad'
    BY <1>0, Proceeds, ConfiguredFor DEF IInv, TypeOK, NothingBad, Step
<1>4. TreesConfigured'
    BY <1>0, Proceeds, ConfiguredFor, LanguagesAssumption DEF IInv, TypeOK, TreesConfigured,
        Step, Trees, trees
<1>5. StepDone'
    BY <1>0, Proceeds, ConfiguredFor DEF IInv, TypeOK, StepDone, Step, NothingBad
<1>6. BinutilsFirst'
    BY <1>0, Proceeds, ConfiguredFor DEF IInv, TypeOK, NothingBad, BinutilsFirst, Step
<1>7. StampsTrue'
    BY <1>0, Proceeds, ConfiguredFor DEF IInv, StampsTrue, trees, builds
<1>8. PassIsTrue' /\ (outcome = "pass" => tool.at = "idle")'
    BY <1>0, Proceeds, ConfiguredFor DEF IInv, PassIsTrue
<1>9. QED
    BY <1>1, <1>2, <1>3, <1>4, <1>5, <1>6, <1>7, <1>8 DEF IInv

LEMMA BeginStepKeeps == IInv /\ BeginStep => IInv'
<1> SUFFICES ASSUME IInv, BeginStep PROVE IInv'
    OBVIOUS
<1> USE DEF BeginStep, Goto, At, Continues, NoFault, Fault, Fail, Ends, Idle, Places,
    SourcePlaces, StepPlaces, BuildPlaces
<1>a. /\ tool.n \in Step /\ Dir(tool.n) \in Trees
      /\ tool.n \in {1, 2, 3} => Dir(tool.n) = "binutils"
      /\ tool.n \in {4, 5, 6} => Dir(tool.n) = "gcc"
    BY DEF IInv, TypeOK, Dir, Trees, Step
<1>b. /\ UNCHANGED <<conf, option>> /\ built' \in [Trees -> SUBSET Products]
      /\ built["binutils"] \subseteq built'["binutils"] /\ built'["binutils"] \subseteq {"as"}
    BY <1>a, MadeKeeps DEF IInv, TypeOK, TreesConfigured, RunPartly, trees
<1>c. /\ prefix' \in [Products -> {"none", "good", "bad"}]
      /\ \A x \in Products : prefix'[x] # "bad"
      /\ \A x \in Products : prefix[x] = "good" => prefix'[x] = "good"
    <2>1. CASE UNCHANGED prefix
        BY <2>1 DEF IInv, TypeOK, NothingBad
    <2>2. CASE \E S \in SUBSET conf[Dir(tool.n)] : tool.n \in {3, 6} /\ Installed(Dir(tool.n), S)
        BY <2>2, <1>a, InstalledGood DEF IInv, NothingBad
    <2>3. QED
        BY <2>1, <2>2 DEF RunPartly
<1>d. \/ tool' = Idle /\ outcome' = "fail"
      \/ /\ tool' = [at |-> "running", n |-> tool.n, p |-> 0] /\ outcome' = outcome
         /\ tool.n \notin {1, 4} => conf[Dir(tool.n)] # {}
    BY DEF RunPartly
<1>1. TypeOK'
    BY <1>a, <1>b, <1>c, <1>d, ConfiguredFor, LanguagesAssumption, JobsAssumption,
        FaultsAssumption DEF IInv, TypeOK, Step, Sig, Trees, sources, patches, NoStamp, trees,
        Products, Fronts
<1>2. SourcesReady' /\ Untorn'
    BY <1>a, <1>b, <1>c, <1>d, ConfiguredFor, BuildKeepsSources DEF IInv, TypeOK, Step
<1>3. NothingBad'
    BY <1>a, <1>b, <1>c, <1>d, ConfiguredFor DEF IInv, TypeOK, NothingBad, Step
<1>4. TreesConfigured'
    BY <1>a, <1>b, <1>c, <1>d, ConfiguredFor, LanguagesAssumption DEF IInv, TypeOK,
        TreesConfigured, Step, Trees, trees
<1>5. StepDone'
    BY <1>a, <1>b, <1>c, <1>d, ConfiguredFor DEF IInv, TypeOK, StepDone, Step, NothingBad
<1>6. BinutilsFirst'
    BY <1>a, <1>b, <1>c, <1>d, ConfiguredFor DEF IInv, TypeOK, NothingBad, BinutilsFirst, Step
<1>7. StampsTrue'
    <2>1. stamps' = stamps
        BY DEF IInv
    <2>2. conf["binutils"] = {"as"} => conf'["binutils"] = {"as"}
        BY <1>b
    <2>3. built["binutils"] = {"as"} => built'["binutils"] = {"as"}
        BY <1>b, <1>c
    <2>4. QED
        BY <1>c, <1>d, <2>1, <2>2, <2>3, ConfiguredFor DEF IInv, StampsTrue
<1>8. PassIsTrue' /\ (outcome = "pass" => tool.at = "idle")'
    BY <1>a, <1>b, <1>c, <1>d, ConfiguredFor DEF IInv, PassIsTrue
<1>9. QED
    BY <1>1, <1>2, <1>3, <1>4, <1>5, <1>6, <1>7, <1>8 DEF IInv

LEMMA EndStepKeeps == IInv /\ EndStep => IInv'
<1> SUFFICES ASSUME IInv, EndStep PROVE IInv'
    OBVIOUS
<1> USE DEF EndStep, Goto, At, Continues, NoFault, Fault, Fail, Ends, Idle, Places,
    SourcePlaces, StepPlaces, BuildPlaces
<1>a. /\ tool.n \in Step /\ Dir(tool.n) \in Trees
      /\ tool.n \in {1, 2, 3} => Dir(tool.n) = "binutils"
      /\ tool.n \in {4, 5, 6} => Dir(tool.n) = "gcc"
    BY DEF IInv, TypeOK, Dir, Trees, Step
<1>b. /\ conf' \in [Trees -> SUBSET Products] /\ option' \in {"set", "empty"}
      /\ tool.n # 4 => option' = option
      /\ conf["binutils"] # {} => conf'["binutils"] = {"as"}
      /\ tool.n = 1 => conf'["binutils"] = {"as"}
      /\ tool.n \notin {1, 4} => conf' = conf
      /\ conf'["binutils"] \in {{}, {"as"}} /\ conf'["gcc"] \in {{}} \cup Languages
    BY <1>a, ConfiguredFor DEF IInv, TypeOK, TreesConfigured, Configured, Made, Target, Trees,
        Products, Fronts, Dir, Step
<1>c. /\ built' \in [Trees -> SUBSET Products]
      /\ built["binutils"] \subseteq built'["binutils"] /\ built'["binutils"] \subseteq {"as"}
      /\ tool.n = 2 => built'["binutils"] = {"as"}
    <2>1. CASE UNCHANGED built /\ tool.n \in {1, 4}
        BY <2>1 DEF IInv, TypeOK, TreesConfigured
    <2>2. CASE tool.n \notin {1, 4} /\ Made(Dir(tool.n), conf[Dir(tool.n)])
        BY <2>2, <1>a, MadeKeeps, ConfiguredFor DEF IInv, TreesConfigured
    <2>3. QED
        BY <1>a, <2>1, <2>2 DEF Configured, Step
<1>d. /\ prefix' \in [Products -> {"none", "good", "bad"}]
      /\ \A x \in Products : prefix'[x] # "bad"
      /\ \A x \in Products : prefix[x] = "good" => prefix'[x] = "good"
      /\ tool.n = 3 => prefix'["as"] = "good"
      /\ tool.n = 6 => prefix'["c"] = "good"
    <2>1. CASE UNCHANGED prefix /\ tool.n \notin {3, 6}
        BY <2>1 DEF IInv, TypeOK, NothingBad
    <2>2. CASE tool.n \in {3, 6} /\ Installed(Dir(tool.n), conf[Dir(tool.n)])
        BY <2>2, <1>a, InstalledGood, ConfiguredFor DEF IInv, NothingBad, TreesConfigured
    <2>3. QED
        BY <1>a, <2>1, <2>2 DEF Configured, Step
<1>e. tool' = [at |-> "stamp", n |-> tool.n, p |-> 0] /\ outcome' = outcome /\ faults' \in 0 .. Faults
    BY FaultsAssumption DEF IInv, TypeOK
<1> HIDE DEF Fault, NoFault
<1>1. TypeOK'
    BY <1>a, <1>b, <1>c, <1>d, <1>e, ConfiguredFor, LanguagesAssumption, JobsAssumption,
        FaultsAssumption DEF IInv, TypeOK, Step, Sig, Trees, sources, patches, NoStamp, trees,
        Products, Fronts
<1>2. SourcesReady' /\ Untorn'
    BY <1>a, <1>b, <1>c, <1>d, <1>e, ConfiguredFor, BuildKeepsSources DEF IInv, TypeOK, Step
<1>3. NothingBad'
    BY <1>a, <1>b, <1>c, <1>d, <1>e, ConfiguredFor DEF IInv, TypeOK, NothingBad, Step
<1>4. TreesConfigured'
    BY <1>a, <1>b, <1>c, <1>d, <1>e, ConfiguredFor, LanguagesAssumption DEF IInv, TypeOK,
        TreesConfigured, Step, Trees, trees
<1>5. StepDone'
    BY <1>a, <1>b, <1>c, <1>d, <1>e, ConfiguredFor DEF IInv, TypeOK, StepDone, Step, NothingBad
<1>6. BinutilsFirst'
    BY <1>a, <1>b, <1>c, <1>d, <1>e, ConfiguredFor DEF IInv, TypeOK, NothingBad, BinutilsFirst, Step
<1>7. StampsTrue'
    <2>1. stamps' = stamps
        BY DEF IInv
    <2>2. conf["binutils"] = {"as"} => conf'["binutils"] = {"as"}
        BY <1>b
    <2>3. built["binutils"] = {"as"} => built'["binutils"] = {"as"}
        BY <1>b, <1>c
    <2>4. QED
        BY <1>c, <1>d, <2>1, <2>2, <2>3, ConfiguredFor DEF IInv, StampsTrue
<1>8. PassIsTrue' /\ (outcome = "pass" => tool.at = "idle")'
    BY <1>a, <1>b, <1>c, <1>d, <1>e, ConfiguredFor DEF IInv, PassIsTrue
<1>9. QED
    BY <1>1, <1>2, <1>3, <1>4, <1>5, <1>6, <1>7, <1>8 DEF IInv

LEMMA StepFailsKeeps == IInv /\ StepFails => IInv'
<1> SUFFICES ASSUME IInv, StepFails PROVE IInv'
    OBVIOUS
<1>1. /\ tool' = [at |-> "idle", n |-> 0, p |-> 0] /\ outcome' = "fail"
      /\ UNCHANGED <<args, sources, builds, faults>> /\ tool.at = "running"
    BY DEF StepFails, At, Fail, Ends, Idle, NoFault
<1>2. TypeOK'
    BY <1>1 DEF IInv, TypeOK, Places, SourcePlaces, StepPlaces, sources, patches, builds, trees
<1>3. SourcesReady' /\ Untorn'
    BY <1>1, BuildKeepsSources DEF StepPlaces, BuildPlaces
<1>4. NothingBad' /\ TreesConfigured' /\ StepDone' /\ BinutilsFirst' /\ StampsTrue'
    BY <1>1 DEF IInv, NothingBad, TreesConfigured, StepDone, BinutilsFirst, StampsTrue, StepPlaces,
        builds, trees
<1>5. PassIsTrue' /\ (outcome = "pass" => tool.at = "idle")'
    BY <1>1 DEF PassIsTrue
<1>6. QED
    BY <1>2, <1>3, <1>4, <1>5 DEF IInv

LEMMA WriteStampKeeps == IInv /\ WriteStamp => IInv'
<1> SUFFICES ASSUME IInv, WriteStamp PROVE IInv'
    OBVIOUS
<1> USE DEF WriteStamp, Goto, At, Continues, NoFault, Fault, Fail, Ends, Idle, Places,
    SourcePlaces, StepPlaces, BuildPlaces
<1>a. tool.n \in Step /\ UNCHANGED <<conf, option, built, prefix>>
    BY DEF IInv, TypeOK, trees
<1>b. /\ stamps' \in [Step -> Sig]
      /\ \A k \in Step \ {tool.n} : stamps'[k] = stamps[k]
    BY <1>a, JobsAssumption, LanguagesAssumption DEF IInv, TypeOK, Sig, Signature, GccJobs, Fronts
<1>1. TypeOK'
    BY <1>a, <1>b, Proceeds DEF IInv, TypeOK, Step, sources, patches
<1>2. SourcesReady' /\ Untorn'
    BY <1>a, <1>b, Proceeds, ConfiguredFor, BuildKeepsSources DEF IInv, TypeOK, Step
<1>3. NothingBad'
    BY <1>a, <1>b, Proceeds, ConfiguredFor DEF IInv, TypeOK, NothingBad, Step
<1>4. TreesConfigured'
    BY <1>a, <1>b, Proceeds, ConfiguredFor, LanguagesAssumption DEF IInv, TypeOK,
        TreesConfigured, Step, Trees, trees
<1>5. StepDone'
    BY <1>a, <1>b, Proceeds, ConfiguredFor DEF IInv, TypeOK, StepDone, Step, NothingBad
<1>6. BinutilsFirst'
    BY <1>a, <1>b, Proceeds, ConfiguredFor DEF IInv, TypeOK, NothingBad, BinutilsFirst, Step
<1>7. StampsTrue'
    BY <1>a, <1>b DEF IInv, StampsTrue, StepDone, Step
<1>8. PassIsTrue' /\ (outcome = "pass" => tool.at = "idle")'
    BY <1>a, <1>b, Proceeds, ConfiguredFor DEF IInv, PassIsTrue
<1>9. QED
    BY <1>1, <1>2, <1>3, <1>4, <1>5, <1>6, <1>7, <1>8 DEF IInv

LEMMA RecoverKeeps == IInv /\ Recover => IInv'
<1> SUFFICES ASSUME IInv, Recover PROVE IInv'
    OBVIOUS
<1> USE DEF Recover, Goto, At, Continues, NoFault, Fault, Fail, Ends, Idle, Places,
    SourcePlaces, StepPlaces, BuildPlaces
<1>1. TypeOK'
    BY LanguagesAssumption, JobsAssumption, FaultsAssumption DEF IInv, TypeOK, Step, Sig, Trees,
        sources, patches, NoStamp, trees, Products, Fronts
<1>2. SourcesReady' /\ Untorn'
    BY BuildKeepsSources DEF IInv, TypeOK, Step
<1>3. NothingBad'
    BY DEF IInv, TypeOK, NothingBad, Step
<1>4. TreesConfigured'
    BY LanguagesAssumption DEF IInv, TypeOK, TreesConfigured, Step, Trees, trees
<1>5. StepDone'
    BY DEF IInv, TypeOK, StepDone, Step, NothingBad
<1>6. BinutilsFirst'
    BY DEF IInv, TypeOK, NothingBad, BinutilsFirst, Step
<1>7. StampsTrue'
    BY DEF IInv, TypeOK, StampsTrue, Trees, trees
<1>8. PassIsTrue' /\ (outcome = "pass" => tool.at = "idle")'
    BY DEF IInv, PassIsTrue
<1>9. QED
    BY <1>1, <1>2, <1>3, <1>4, <1>5, <1>6, <1>7, <1>8 DEF IInv

LEMMA MoveStampKeeps == IInv /\ MoveStamp => IInv'
<1> SUFFICES ASSUME IInv, MoveStamp PROVE IInv'
    OBVIOUS
<1> USE DEF MoveStamp, Goto, At, Continues, NoFault, Fault, Fail, Ends, Idle, Places,
    SourcePlaces, StepPlaces, BuildPlaces
<1>1. TypeOK'
    BY LanguagesAssumption, JobsAssumption, FaultsAssumption DEF IInv, TypeOK, Step, Sig, Trees,
        sources, patches, NoStamp, trees, Products, Fronts
<1>2. SourcesReady' /\ Untorn'
    BY BuildKeepsSources DEF IInv, TypeOK, Step
<1>3. NothingBad'
    BY DEF IInv, TypeOK, NothingBad, Step
<1>4. TreesConfigured'
    BY LanguagesAssumption DEF IInv, TypeOK, TreesConfigured, Step, Trees, trees
<1>5. StepDone'
    BY DEF IInv, TypeOK, StepDone, Step, NothingBad
<1>6. BinutilsFirst'
    BY DEF IInv, TypeOK, NothingBad, BinutilsFirst, Step
<1>7. StampsTrue'
    <2>1. \A k \in Step : stamps'[k] = stamps[k] \/ stamps'[k] = NoStamp
        BY DEF IInv, TypeOK
    <2>2. QED
        BY <2>1 DEF IInv, StampsTrue, Step, trees
<1>8. PassIsTrue' /\ (outcome = "pass" => tool.at = "idle")'
    BY DEF IInv, PassIsTrue
<1>9. QED
    BY <1>1, <1>2, <1>3, <1>4, <1>5, <1>6, <1>7, <1>8 DEF IInv

LEMMA VerifyAndRecordKeeps == IInv /\ VerifyAndRecord => IInv'
<1> SUFFICES ASSUME IInv, VerifyAndRecord PROVE IInv'
    OBVIOUS
<1> USE DEF VerifyAndRecord, Goto, At, Continues, NoFault, Fault, Fail, Ends, Idle, Places,
    SourcePlaces, StepPlaces, BuildPlaces
<1>1. TypeOK'
    BY LanguagesAssumption, JobsAssumption, FaultsAssumption DEF IInv, TypeOK, Step, Sig, Trees,
        sources, patches, NoStamp, trees, Products, Fronts
<1>2. SourcesReady' /\ Untorn'
    BY BuildKeepsSources DEF IInv, TypeOK, Step
<1>3. NothingBad'
    BY DEF IInv, TypeOK, NothingBad, Step
<1>4. TreesConfigured'
    BY LanguagesAssumption DEF IInv, TypeOK, TreesConfigured, Step, Trees, trees
<1>5. StepDone'
    BY DEF IInv, TypeOK, StepDone, Step, NothingBad
<1>6. BinutilsFirst'
    BY DEF IInv, TypeOK, NothingBad, BinutilsFirst, Step
<1>7. StampsTrue'
    BY DEF IInv, StampsTrue, trees, builds
<1>8. PassIsTrue' /\ (outcome = "pass" => tool.at = "idle")'
    <2>1. ASSUME outcome' = "pass"
          PROVE  PassIsTrue'
        <3>1. \A x \in args.languages \cup {"as"} : prefix[x] = "good"
            BY <2>1, ConfiguredFor DEF IInv, TypeOK, NothingBad, BinutilsFirst, Products
        <3>2. source = ArchiveNames /\ \A q \in AllPatches : Applied(q) \/ q \in torn
            BY DEF IInv, SourcesReady, Untorn, Applied
        <3>3. QED
            BY <2>1, <3>1, <3>2 DEF PassIsTrue, Applied, sources, patches, AllPatches, ArchiveNames
    <2>2. QED
        BY <2>1 DEF PassIsTrue
<1>9. QED
    BY <1>1, <1>2, <1>3, <1>4, <1>5, <1>6, <1>7, <1>8 DEF IInv

-----------------------------------------------------------------------------
(* The user, and what goes wrong                                           *)

LEMMA StartKeeps == IInv /\ (Start \/ StartOtherwise) => IInv'
<1> SUFFICES ASSUME IInv, Start \/ StartOtherwise PROVE IInv'
    OBVIOUS
<1>1. /\ tool' = [at |-> "archive", n |-> 1, p |-> 0] /\ outcome' = "none"
      /\ UNCHANGED <<sources, builds>>
      /\ args' \in [languages : Languages, jobs : Jobs]
      /\ faults' \in 0 .. Faults
    BY FaultsAssumption DEF IInv, TypeOK, Start, StartOtherwise, Goto, Fault
<1>2. 1 \in DOMAIN Archives
    BY ArchivesAssumption
<1>3. TypeOK'
    BY <1>1, <1>2 DEF IInv, TypeOK, Places, SourcePlaces, StepPlaces, sources, patches, builds, trees
<1>4. SourcesReady'
    BY <1>1 DEF SourcesReady, SourcePlaces, StepPlaces, BuildPlaces, PatchPlaces
<1>5. NothingBad' /\ TreesConfigured' /\ StepDone' /\ BinutilsFirst' /\ StampsTrue'
    BY <1>1 DEF IInv, NothingBad, TreesConfigured, StepDone, BinutilsFirst, StampsTrue, StepPlaces,
        builds, trees
<1>6. PassIsTrue' /\ (outcome = "pass" => tool.at = "idle")'
    BY <1>1 DEF PassIsTrue
<1>8. Untorn'
    BY <1>1, UntornKept DEF IInv, sources, Start, StartOtherwise, At
<1>7. QED
    BY <1>3, <1>8, <1>4, <1>5, <1>6 DEF IInv

LEMMA CrashKeeps == IInv /\ Crash => IInv'
<1> SUFFICES ASSUME IInv, Crash PROVE IInv'
    OBVIOUS
<1>1. /\ tool' = [at |-> "idle", n |-> 0, p |-> 0] /\ outcome' = "fail"
      /\ UNCHANGED <<args, archive, part, source, patched, spoilt, file, patchStamps, builds>>
      /\ faults' \in 0 .. Faults
    BY FaultsAssumption DEF IInv, TypeOK, Crash, Fault, Fail, Ends, Idle
<1>7. torn \subseteq torn' /\ torn' \subseteq AllPatches
    BY PatchAtHand DEF IInv, TypeOK, Crash, At, PatchPlaces
<1>2. TypeOK'
    BY <1>1, <1>7 DEF IInv, TypeOK, Places, SourcePlaces, StepPlaces, builds, trees
<1>3. SourcesReady'
    BY <1>1 DEF SourcesReady, SourcePlaces, StepPlaces, BuildPlaces, PatchPlaces
<1>4. NothingBad' /\ TreesConfigured' /\ StepDone' /\ BinutilsFirst' /\ StampsTrue'
    BY <1>1 DEF IInv, NothingBad, TreesConfigured, StepDone, BinutilsFirst, StampsTrue, StepPlaces,
        builds, trees
<1>5. PassIsTrue' /\ (outcome = "pass" => tool.at = "idle")'
    BY <1>1 DEF PassIsTrue
<1>8. Untorn'
    <2>1. ASSUME NEW q \in AllPatches, q \notin torn' PROVE 1 .. Done(q) = 1 .. Done(q)'
        <3>1. ~(tool.at = "patchStamp" /\ q = q_) /\ ~(tool.at = "patching" /\ file > 1 /\ q = q_)
            BY <2>1 DEF Crash, At
        <3>2. tool.at = "patching" => file \in Nat \ {0}
            BY DEF IInv, TypeOK, SourcesReady
        <3>3. Done(q) = 0
            BY <3>1, <3>2 DEF Done
        <3>4. QED
            BY <1>1, <3>3 DEF Done
    <2>2. QED
        BY <1>1, <1>7, <2>1 DEF IInv, Untorn, AllPatches, ArchiveNames, Patches
<1>6. QED
    BY <1>2, <1>8, <1>3, <1>4, <1>5 DEF IInv

LEMMA StutterKeeps == IInv /\ UNCHANGED vars => IInv'
<1> SUFFICES ASSUME IInv, UNCHANGED vars PROVE IInv'
    OBVIOUS
<1> USE DEF vars, sources, patches, builds, trees
<1>1. TypeOK' /\ NothingBad' /\ TreesConfigured' /\ StepDone' /\ BinutilsFirst' /\ StampsTrue'
    BY DEF IInv, TypeOK, NothingBad, TreesConfigured, StepDone, BinutilsFirst, StampsTrue
<1>2. SourcesReady' /\ Untorn' /\ PassIsTrue' /\ (outcome = "pass" => tool.at = "idle")'
    BY DEF IInv, SourcesReady, Prepared, Untorn, Done, Applied, PassIsTrue, q_, a_
<1>3. QED
    BY <1>1, <1>2 DEF IInv

-----------------------------------------------------------------------------
\* The inductive invariant holds.
THEOREM Invariant == Spec => []IInv
<1>1. IInv /\ [Next]_vars => IInv'
    BY StartKeeps, CrashKeeps, ArchiveAtHandKeeps, ArchiveMissingKeeps, ReceivedKeeps,
        NotReceivedKeeps,
       CheckDownloadKeeps, ExtractKeeps, NextArchiveKeeps, PatchStampedKeeps, BeginPatchKeeps,
       PatchFileKeeps, EndPatchKeeps, StampPatchKeeps, SkipStepKeeps, BeginStepKeeps, EndStepKeeps,
       StepFailsKeeps, WriteStampKeeps, RecoverKeeps, MoveStampKeeps, VerifyAndRecordKeeps, StutterKeeps
    DEF Next, ToolStep
<1>2. QED
    BY Initially, <1>1, PTL DEF Spec

\* A bootstrap that says PASS has built what was asked for, however often and
\* wherever it was interrupted before, and from sources that have each patch
\* completely, but for the patches that an invocation was interrupted in
\* (bootstrap_ee_gcc_stage1.py, main).
THEOREM PassesAreTrue == Spec => []PassIsTrue
<1>1. IInv => PassIsTrue
    BY DEF IInv
<1>2. QED
    BY Invariant, <1>1, PTL

\* The stamps that a later invocation believes (stamp_matches) are true.
THEOREM StampsAreTrue == Spec => []StampsTrue
<1>1. IInv => StampsTrue
    BY DEF IInv
<1>2. QED
    BY Invariant, <1>1, PTL

\* Types; and a patch one of whose files patch(1) could not change is never stamped.
THEOREM TypeCorrect == Spec => []TypeOK
<1>1. IInv => TypeOK
    BY DEF IInv
<1>2. QED
    BY Invariant, <1>1, PTL
=============================================================================
