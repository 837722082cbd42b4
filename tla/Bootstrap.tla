----------------------------- MODULE Bootstrap -----------------------------
(***************************************************************************)
(* The bootstrap of the historical compiler                                *)
(* (src/tools/bootstrap_ee_gcc_stage1.py): it downloads two archives,      *)
(* extracts and patches them and runs six build steps, and leaves on the   *)
(* disk what a later invocation needs to go on where this one stopped.     *)
(*                                                                         *)
(* The tool can be interrupted between any two actions below, so between   *)
(* two files of a patch, and within make or install, which then has done   *)
(* part of its work.                                                       *)
(* Its user starts it again until it passes.  Everything that goes wrong   *)
(* costs one of Faults: a bound of the model, so that a behaviour has an   *)
(* undisturbed end.                                                        *)
(*                                                                         *)
(* The servers honour Range requests.  patch(1), configure and make are    *)
(* not in the repository.  They are modelled from what the tool expects,   *)
(* and patch(1), which the tool runs with --batch, as GNU patch does then: *)
(* a file in which the patch is found already is reversed.                 *)
(***************************************************************************)
EXTENDS Integers, Sequences, Functions

CONSTANTS
    Archives,      \* ARCHIVES, a sequence
    PatchesOf,     \* the patches of an archive's source, a sequence; one for two is two here
    FilesOf,       \* how many files a patch changes
    Backups,       \* of these, the ones that have the name of the backup of the one before
    Languages,     \* what --languages may be: sets of front ends
    Jobs,          \* what --jobs may be
    Attempts,      \* attempts at a download, 3
    Faults,        \* bound of the model: faults in a behaviour
    FaultKinds,    \* the faults that happen
    CrashPoints    \* the places where the tool may be interrupted

ASSUME ArchivesAssumption ==
    /\ Archives \in Seq(Range(Archives)) /\ Archives # << >>
    /\ \A a \in Range(Archives) : PatchesOf[a] \in Seq(Range(PatchesOf[a]))
ASSUME FilesAssumption ==
    \A a \in Range(Archives) : \A q \in Range(PatchesOf[a]) : FilesOf[q] \in Nat \ {0}
ASSUME LanguagesAssumption == \A L \in Languages : "c" \in L /\ "as" \notin L
ASSUME JobsAssumption == Jobs \subseteq Nat
ASSUME AttemptsAssumption == Attempts \in Nat \ {0}
ASSUME FaultsAssumption ==
    /\ Faults \in Nat
    /\ FaultKinds \subseteq {"crash", "network", "mirror", "poison", "arguments"}

VARIABLES
    tool,          \* where the invocation is
    args,          \* its arguments
    outcome,       \* of the last invocation
    archive,       \* archives verified and in place
    part,          \* the .part file of each
    source,        \* sources extracted
    patched,       \* the files of each patch that are in their new form
    spoilt,        \* patches with a file that neither form of the patch fits
    torn,          \* history: patches interrupted after their first file, unstamped
    file,          \* the file at which a running patch(1) is
    patchStamps,   \* patches that are stamped
    conf,          \* what a build directory is configured for; {}: no Makefile
    option,        \* whether OUTPUT_OPTION is "set" or "empty" in the Makefile of GCC
    built,         \* what make has built in a build directory
    prefix,        \* tools installed
    stamps,        \* the stamp of each step
    manifest,      \* languages in bootstrap-manifest.json
    faults         \* faults left

patches == <<patched, spoilt, torn, file, patchStamps>>
sources == <<archive, part, source, patches>>
trees == <<conf, option, built>>
builds == <<trees, prefix, stamps, manifest>>
vars == <<tool, args, outcome, sources, builds, faults>>

ArchiveNames == Range(Archives)
Patches(a) == Range(PatchesOf[a])
AllPatches == UNION {Patches(a) : a \in ArchiveNames}
Step == 1 .. 6
Fronts == UNION Languages
Products == Fronts \cup {"as"}         \* "as" stands for the four binutils

\* The .part file: a true beginning, the archive, a beginning that is of
\* something else, and such a file that has reached the archive's length.
PartStates == {"none", "some", "all", "bad", "allbad"}

Trees == {"binutils", "gcc"}

\* The part of a stamp's signature that differs between invocations.
Sig == [languages : SUBSET Fronts, jobs : Nat \cup {-1}]
NoStamp == [languages |-> {}, jobs |-> -1]

SourcePlaces == {"archive", "attempt", "check", "source", "patch", "patching", "patchStamp"}
StepPlaces == {"step", "running", "stamp"}
Places == {"idle", "recover", "unstamp", "verify"} \cup SourcePlaces \cup StepPlaces

TypeOK ==
    /\ tool \in [at : Places, n : Nat, p : Nat]
    /\ tool.at \in SourcePlaces => tool.n \in DOMAIN Archives
    /\ tool.at \in {"patching", "patchStamp"} => tool.p \in DOMAIN PatchesOf[Archives[tool.n]]
    /\ tool.at \in StepPlaces => tool.n \in Step
    /\ tool.at = "unstamp" => tool.p \in 4 .. 6
    /\ args \in [languages : Languages, jobs : Jobs]
    /\ outcome \in {"none", "fail", "pass"}
    /\ archive \subseteq ArchiveNames
    /\ part \in [ArchiveNames -> PartStates]
    /\ source \subseteq archive
    /\ patched \in [AllPatches -> SUBSET Nat] /\ file \in Nat
    /\ spoilt \subseteq AllPatches /\ torn \subseteq AllPatches
    /\ patchStamps \subseteq AllPatches \ spoilt
    /\ conf \in [Trees -> SUBSET Products]
    /\ option \in {"set", "empty"}
    /\ built \in [Trees -> SUBSET Products]
    /\ prefix \in [Products -> {"none", "good", "bad"}]
    /\ stamps \in [Step -> Sig]
    /\ manifest \in {{}} \cup Languages
    /\ faults \in 0 .. Faults

Init ==
    /\ tool = [at |-> "idle", n |-> 0, p |-> 0]
    /\ args \in [languages : Languages, jobs : Jobs]
    /\ outcome = "none"
    /\ archive = {}
    /\ part = [a \in ArchiveNames |-> "none"]
    /\ source = {}
    /\ patched = [q \in AllPatches |-> {}]
    /\ spoilt = {} /\ torn = {} /\ file = 0
    /\ patchStamps = {}
    /\ conf = [b \in Trees |-> {}]
    /\ option = "set"
    /\ built = [b \in Trees |-> {}]
    /\ prefix = [x \in Products |-> "none"]
    /\ stamps = [k \in Step |-> NoStamp]
    /\ manifest = {}
    /\ faults = Faults

-----------------------------------------------------------------------------
Idle == [at |-> "idle", n |-> 0, p |-> 0]
Goto(at, n, p) == tool' = [at |-> at, n |-> n, p |-> p]
At(place) == tool.at = place
Fault(kind) == kind \in FaultKinds /\ faults > 0 /\ faults' = faults - 1
NoFault == UNCHANGED faults

Ends(result) == tool' = Idle /\ outcome' = result
Fail == Ends("fail")
Continues == UNCHANGED outcome

\* The user starts the tool, again as before or with other arguments.
Start ==
    /\ At("idle") /\ outcome # "pass"
    /\ Goto("archive", 1, 0)
    /\ outcome' = "none"
    /\ UNCHANGED <<args, sources, builds, faults>>

StartOtherwise ==
    /\ At("idle")
    /\ args' \in [languages : Languages, jobs : Jobs] /\ args' # args
    /\ Fault("arguments")
    /\ Goto("archive", 1, 0)
    /\ outcome' = "none"
    /\ UNCHANGED <<sources, builds>>

a_ == Archives[tool.n]
q_ == PatchesOf[a_][tool.p]

\* Killed, or out of battery; a BuildFailure for want of disk space leaves the same.
Crash ==
    /\ tool.at \in CrashPoints \ {"idle"}
    /\ Fault("crash")
    /\ Fail
    /\ torn' = IF At("patchStamp") \/ (At("patching") /\ file > 1) THEN torn \cup {q_} ELSE torn
    /\ UNCHANGED <<args, archive, part, source, patched, spoilt, file, patchStamps, builds>>

-----------------------------------------------------------------------------
(* download_archive and safe_extract_archive                               *)

ArchiveAtHand ==
    /\ At("archive")
    /\ a_ \in archive \/ part[a_] = "all"
    /\ archive' = archive \cup {a_}
    /\ part' = [part EXCEPT ![a_] = IF a_ \in archive THEN @ ELSE "none"]
    /\ Goto("source", tool.n, 0)
    /\ Continues /\ NoFault
    /\ UNCHANGED <<args, source, patches, builds>>

ArchiveMissing ==
    /\ At("archive")
    /\ a_ \notin archive /\ part[a_] # "all"
    /\ Goto("attempt", tool.n, 1)
    /\ Continues /\ NoFault
    /\ UNCHANGED <<args, sources, builds>>

\* The rest of the archive arrives, after what the .part file holds.
Received ==
    /\ At("attempt")
    /\ part[a_] # "allbad"
    /\ \/ NoFault /\ part' = [part EXCEPT ![a_] = IF @ = "bad" THEN "allbad" ELSE "all"]
       \/ Fault("network") /\ part[a_] # "bad" /\ part' = [part EXCEPT ![a_] = "some"]
       \/ Fault("mirror") /\ part[a_] = "none" /\ part' = [part EXCEPT ![a_] = "bad"]
    /\ Goto("check", tool.n, tool.p)
    /\ Continues
    /\ UNCHANGED <<args, archive, source, patches, builds>>

\* An exception: the connection breaks, or nothing is left to send (416).
NotReceived ==
    /\ At("attempt")
    /\ \/ Fault("network") /\ part[a_] # "allbad"
       \/ NoFault /\ part[a_] = "allbad"
    /\ part' = [part EXCEPT ![a_] = IF @ = "none" THEN "some" ELSE @]
    /\ IF tool.p < Attempts THEN Goto("attempt", tool.n, tool.p + 1) /\ Continues ELSE Fail
    /\ UNCHANGED <<args, archive, source, patches, builds>>

CheckDownload ==
    /\ At("check")
    /\ IF part[a_] = "all"
       THEN /\ archive' = archive \cup {a_}
            /\ part' = [part EXCEPT ![a_] = "none"]
            /\ Goto("source", tool.n, 0)
            /\ Continues
       ELSE Fail /\ UNCHANGED <<archive, part>>
    /\ NoFault
    /\ UNCHANGED <<args, source, patches, builds>>

\* The tree is made under another name and moved into place.
Extract ==
    /\ At("source")
    /\ source' = source \cup {a_}
    /\ Goto("patch", tool.n, 1)
    /\ Continues /\ NoFault
    /\ UNCHANGED <<args, archive, part, patches, builds>>

-----------------------------------------------------------------------------
(* apply_patch_once                                                        *)

MorePatches == tool.p <= Len(PatchesOf[a_])

NextArchive ==
    /\ At("patch") /\ ~MorePatches
    /\ IF tool.n < Len(Archives) THEN Goto("archive", tool.n + 1, 0) ELSE Goto("step", 1, 0)
    /\ Continues /\ NoFault
    /\ UNCHANGED <<args, sources, builds>>

PatchStamped ==
    /\ At("patch") /\ MorePatches
    /\ q_ \in patchStamps
    /\ Goto("patch", tool.n, tool.p + 1)
    /\ Continues /\ NoFault
    /\ UNCHANGED <<args, sources, builds>>

Applied(q) == patched[q] = 1 .. FilesOf[q] /\ q \notin spoilt

\* Mutant: a patch that is there, or half there, is not taken to be one.
ProbedForward(q) == IF patched[q] = {} /\ q \notin spoilt THEN "fits" ELSE "neither"

\* What the first dry run of patch tells of the source.  With --batch it
\* takes a file in its new form as well as one in its old form, whatever the
\* others are, so that the second dry run, with --reverse, comes only when it
\* would fail too: the case of an interrupted stamp (lines 311-315) is not met.
Probed(q) == IF q \in spoilt THEN "neither" ELSE "fits"

BeginPatch ==
    /\ At("patch") /\ MorePatches
    /\ q_ \notin patchStamps
    /\ IF Probed(q_) = "fits"
       THEN Goto("patching", tool.n, tool.p) /\ file' = 1 /\ Continues
       ELSE Fail /\ UNCHANGED file
    /\ NoFault
    /\ UNCHANGED <<args, archive, part, source, patched, spoilt, torn, patchStamps, builds>>

\* patch(1) turns one file after the other into its other form.  From a file
\* that it reverses it makes a backup, over the next file if that has the name.
PatchFile ==
    /\ At("patching") /\ file <= FilesOf[q_]
    /\ patched' = [patched EXCEPT ![q_] = IF file \in @ THEN @ \ {file} ELSE @ \cup {file}]
    /\ spoilt' = IF file \in patched[q_] /\ file + 1 \in Backups[q_]
                 THEN spoilt \cup {q_} ELSE spoilt
    /\ file' = file + 1
    /\ NoFault
    /\ UNCHANGED <<tool, args, outcome, archive, part, source, torn, patchStamps, builds>>

\* Mutant: what patch returns is not looked at.
EndPatchUnchecked ==
    /\ At("patching") /\ file > FilesOf[q_]
    /\ Goto("patchStamp", tool.n, tool.p) /\ Continues
    /\ NoFault
    /\ UNCHANGED <<args, sources, builds>>

EndPatch ==
    /\ At("patching") /\ file > FilesOf[q_]
    /\ IF q_ \in spoilt THEN Fail ELSE Goto("patchStamp", tool.n, tool.p) /\ Continues
    /\ NoFault
    /\ UNCHANGED <<args, sources, builds>>

StampPatch ==
    /\ At("patchStamp")
    /\ patchStamps' = patchStamps \cup {q_}
    /\ Goto("patch", tool.n, tool.p + 1)
    /\ Continues /\ NoFault
    /\ UNCHANGED <<args, archive, part, source, patched, spoilt, torn, file, builds>>

-----------------------------------------------------------------------------
(* build_stage_one                                                         *)

Dir(k) == IF k <= 3 THEN "binutils" ELSE "gcc"
Target(k) == IF k <= 3 THEN {"as"} ELSE args.languages

\* C++ is built with one job.
GccJobs == IF "c++" \in args.languages THEN 1 ELSE args.jobs

Signature(k) ==
    [languages |-> IF k = 4 THEN args.languages ELSE {},
     jobs |-> CASE k = 2 -> args.jobs [] k = 5 -> GccJobs [] OTHER -> 0]

StampMatches(k) == stamps[k] = Signature(k)

\* Mutant: configure is not followed by require_output_option.
ProceedUnchecked(k) ==
    CASE k = 3 /\ prefix'["as"] = "none" -> Fail
      [] k = 3 /\ prefix'["as"] # "none" -> Goto("recover", 4, 0) /\ Continues
      [] k = 6 -> Goto("verify", 6, 0) /\ Continues
      [] OTHER -> Goto("step", k + 1, 0) /\ Continues

\* Where the tool goes after step k: some steps are followed by a check.
Proceed(k) ==
    CASE k = 3 /\ prefix'["as"] = "none" -> Fail
      [] k = 3 /\ prefix'["as"] # "none" -> Goto("recover", 4, 0) /\ Continues
      [] k = 4 /\ option' = "empty" -> Fail                  \* require_output_option
      [] k = 6 -> Goto("verify", 6, 0) /\ Continues
      [] OTHER -> Goto("step", k + 1, 0) /\ Continues

SkipStep ==
    /\ At("step")
    /\ StampMatches(tool.n)
    /\ UNCHANGED <<args, sources, builds>> /\ NoFault
    /\ Proceed(tool.n)

\* make builds S, make install installs it.
Made(b, S) == built' = [built EXCEPT ![b] = @ \cup S] /\ UNCHANGED <<conf, option>>
Installed(b, S) ==
    prefix' = [x \in Products |->
                 IF x \in S THEN IF b = "gcc" /\ option = "empty" THEN "bad" ELSE "good"
                 ELSE prefix[x]]

\* A command starts: configure writes the Makefile at its end, make builds and
\* installs one thing after another, and fails at once where no Makefile is.
RunPartly(k) ==
    \/ /\ k \in {1, 4}
       /\ Goto("running", k, 0) /\ Continues
       /\ UNCHANGED <<trees, prefix>>
    \/ /\ k \notin {1, 4} /\ conf[Dir(k)] = {}
       /\ Fail
       /\ UNCHANGED <<trees, prefix>>
    \/ /\ k \notin {1, 4} /\ conf[Dir(k)] # {}
       /\ \E S \in SUBSET conf[Dir(k)] :
            /\ Made(Dir(k), S)
            /\ IF k \in {3, 6} THEN Installed(Dir(k), S) ELSE UNCHANGED prefix
       /\ Goto("running", k, 0) /\ Continues

\* Mutant: the stamp is written when the command starts.
BeginStepStamped ==
    /\ At("step")
    /\ ~StampMatches(tool.n)
    /\ RunPartly(tool.n)
    /\ stamps' = [stamps EXCEPT ![tool.n] = Signature(tool.n)]
    /\ NoFault
    /\ UNCHANGED <<args, sources, manifest>>

BeginStep ==
    /\ At("step")
    /\ ~StampMatches(tool.n)
    /\ RunPartly(tool.n)
    /\ NoFault
    /\ UNCHANGED <<args, sources, stamps, manifest>>

\* The source of step k lacks a patch, or a part of one.
Unfit(k) == Dir(k) \in ArchiveNames /\ \E q \in Patches(Dir(k)) : ~Applied(q)

\* configure probes the host compiler, which may fail (poison), and does where
\* GCC's configure is not patched.
Configured(k, state) ==
    /\ conf' = [conf EXCEPT ![Dir(k)] = Target(k)]
    /\ option' = IF k = 4 THEN state ELSE option
    /\ UNCHANGED <<built, prefix>>

EndStep ==
    LET k == tool.n
        b == Dir(k)
    IN  /\ At("running")
        /\ \/ k \in {1, 4} /\ Configured(k, "set") /\ NoFault
           \/ k = 4 /\ Configured(k, "empty") /\ (Fault("poison") \/ (Unfit(k) /\ NoFault))
           \/ k \in {2, 5} /\ Made(b, conf[b]) /\ UNCHANGED prefix /\ NoFault
           \/ k \in {3, 6} /\ Made(b, conf[b]) /\ Installed(b, conf[b]) /\ NoFault
        /\ Goto("stamp", k, 0) /\ Continues
        /\ UNCHANGED <<args, sources, stamps, manifest>>

\* Without its patches a source may not configure, compile or install.
StepFails ==
    /\ At("running") /\ Unfit(tool.n)
    /\ Fail
    /\ NoFault
    /\ UNCHANGED <<args, sources, builds>>

WriteStamp ==
    /\ At("stamp")
    /\ stamps' = [stamps EXCEPT ![tool.n] = Signature(tool.n)]
    /\ UNCHANGED <<args, sources, trees, prefix, manifest>> /\ NoFault
    /\ Proceed(tool.n)

\* preserve_poisoned_gcc_build: the directory is moved, then the stamps are, one by one.
Recover ==
    /\ At("recover")
    /\ IF conf["gcc"] # {} /\ option = "empty"
       THEN /\ conf' = [conf EXCEPT !["gcc"] = {}]
            /\ option' = "set"
            /\ built' = [built EXCEPT !["gcc"] = {}]
            /\ Goto("unstamp", 4, 4)
       ELSE UNCHANGED trees /\ Goto("step", 4, 0)
    /\ Continues /\ NoFault
    /\ UNCHANGED <<args, sources, prefix, stamps, manifest>>

MoveStamp ==
    /\ At("unstamp")
    /\ stamps' = [stamps EXCEPT ![tool.p] = NoStamp]
    /\ IF tool.p < 6 THEN Goto("unstamp", 4, tool.p + 1) ELSE Goto("step", 4, 0)
    /\ Continues /\ NoFault
    /\ UNCHANGED <<args, sources, trees, prefix, manifest>>

\* verify_and_record; the probe of the C compiler succeeds.
VerifyAndRecord ==
    /\ At("verify")
    /\ IF \A x \in args.languages : prefix[x] # "none"
       THEN manifest' = args.languages /\ Ends("pass")
       ELSE UNCHANGED manifest /\ Fail
    /\ NoFault
    /\ UNCHANGED <<args, sources, trees, prefix, stamps>>

-----------------------------------------------------------------------------
ToolStep ==
    \/ ArchiveAtHand \/ ArchiveMissing \/ Received \/ NotReceived \/ CheckDownload \/ Extract
    \/ NextArchive \/ PatchStamped \/ BeginPatch \/ PatchFile \/ EndPatch \/ StampPatch
    \/ SkipStep \/ BeginStep \/ EndStep \/ StepFails \/ WriteStamp
    \/ Recover \/ MoveStamp \/ VerifyAndRecord

Next == Start \/ StartOtherwise \/ Crash \/ ToolStep

Spec == Init /\ [][Next]_vars

\* The tool runs, and its user starts it again until it passes.
FairSpec == Spec /\ WF_vars(Start) /\ WF_vars(ToolStep)

-----------------------------------------------------------------------------
(* Properties                                                              *)

\* "bootstrap: PASS" is true: every compiler asked for is installed, was
\* configured with a working -c -o, and is what the manifest says; and the
\* sources have each patch completely, except for patches that an invocation was
\* killed in, between their first file and their stamp: the next
\* invocation reverses what was applied of these, and stamps them.
PassIsTrue ==
    outcome = "pass" =>
        /\ \A x \in args.languages \cup {"as"} : prefix[x] = "good"
        /\ manifest = args.languages
        /\ source = ArchiveNames
        /\ \A q \in AllPatches : Applied(q) \/ q \in torn

\* What a stamp says was done is there, whenever an interrupted invocation
\* left it; but for stamps 04 and 05, which outlive a GCC directory that is
\* moved aside if the tool is interrupted before it has moved them too.
StampsTrue ==
    /\ stamps[1] # NoStamp => conf["binutils"] = {"as"}
    /\ stamps[2] # NoStamp => built["binutils"] = {"as"}
    /\ stamps[3] # NoStamp => prefix["as"] = "good"
    /\ stamps[6] # NoStamp => prefix["c"] = "good"

\* Five states of the disk that can stop every further invocation with these
\* arguments: a file of a patch that was overwritten by a backup, a stamped patch
\* that is not there, and three of downloads and steps.
SpoiltFile == spoilt # {}
Unpatched == \E q \in patchStamps : ~Applied(q)
WrongDownload == \E a \in ArchiveNames \ archive : part[a] \in {"bad", "allbad"}
OrphanStamp == conf["gcc"] = {} /\ StampMatches(4)
InstalledForOther == StampMatches(6) /\ \E x \in args.languages : prefix[x] = "none"
Trapped == SpoiltFile \/ Unpatched \/ WrongDownload \/ OrphanStamp \/ InstalledForOther

\* Started again and again, the bootstrap passes in the end, wherever it was
\* interrupted and whatever failed, but for these five traps.
OnlyTrapsStop == []<>(outcome = "pass" \/ (At("idle") /\ Trapped))
=============================================================================
