--------------------------- MODULE BundleRepository ---------------------------
(***************************************************************************)
(* The files of the OSP bundles and the bundles the loader knows:          *)
(* BundleRepository::loadBundles() at start-up, installBundle() and        *)
(* replaceBundle() of BundleInstallerService, and the uninstallation of a  *)
(* bundle, for any number of administrators, with crashes and restarts     *)
(* (platform/OSP/src/BundleRepository.cpp, and what it calls in            *)
(* BundleLoader.cpp, Bundle.cpp and Foundation's File.cpp).                *)
(*                                                                         *)
(* An administrator's request is a record with a program point; between    *)
(* two of its steps other requests, changes of a bundle's state and a      *)
(* crash may come.  A bundle file is abstracted to the symbolic name and   *)
(* the version in its manifest and to where it was cut, if it is not       *)
(* whole: a truncated archive whose manifest can still be read passes      *)
(* createBundle().  How a bundle changes its state is the subject of       *)
(* BundleLifecycle; here it changes at any time by the same chart.         *)
(***************************************************************************)
EXTENDS Naturals, Sequences, FiniteSets, SequencesExt

CONSTANTS
    Names,       \* the symbolic names
    NoName,      \* the empty replaceBundle argument
    Versions,    \* the versions of bundles
    Admins,      \* the threads that serve an administrator's requests
    Protected,   \* names whose manifest has preventUninstall
    Rejected,    \* <<name, version>> the repository's filter does not accept
    Busy,        \* names of the bundles that other threads start and stop
    Disjoint,    \* TRUE: no two requests in progress concern the same bundle
    Faults,      \* what may fail
    MaxInstalls, \* bound: installations begun between two starts
    MaxCrashes   \* bound: crashes

\* "cut": the upload ends early, or the disk is full; "stop": the activator
\* throws; "remove", "rename": the file operation fails; "load": the second
\* createBundle() of the same file fails.
FaultKinds == {"cut", "stop", "remove", "rename", "load"}

TempFiles == {"tmp"} \X (0 .. MaxInstalls - 1)
FileNames == TempFiles \cup (Names \X Versions)

Cuts == {"none", "body", "manifest"}
Content == [name: Names, version: Versions, cut: Cuts]

ASSUME RepositoryAssumption ==
    /\ IsFiniteSet(Names) /\ NoName \notin Names /\ "tmp" \notin Names
    /\ Versions \subseteq Nat
    /\ Protected \subseteq Names
    /\ Rejected \subseteq Names \X Versions
    /\ Busy \subseteq Names
    /\ Disjoint \in BOOLEAN
    /\ Faults \subseteq FaultKinds
    /\ MaxInstalls \in Nat /\ MaxCrashes \in Nat

Absent == [cut |-> "absent"]
NoFile == <<>>

VARIABLES
    files,      \* the repository's directory
    bundles,    \* the Bundle objects of this process, in the order of loading
    loaded,     \* BundleLoader::_bundles: an index of bundles, or 0
    serial,     \* the counter of tempBundleName()
    scan,       \* files loadBundles() has still to look at
    found,      \* its BundleMap: the file chosen for each name
    phase,      \* "scanning" until loadBundles() returns, then "running"
    request,    \* what each administrator's thread is doing
    crashes,
    \* Auxiliary, for the properties:
    inherited,  \* the temporary files found at the last start
    orphans,    \* names whose bundle a start found in one, until they are
                \* installed again
    given,      \* names no file needs to exist for: never installed, or a
                \* request was made to remove them
    dropped     \* names whose own installation failed after it had removed
                \* the old version or overwritten a file of the name, until
                \* they are installed again

startVars == <<scan, found, phase, crashes, inherited>>
ghostVars == <<orphans, given, dropped>>
vars == <<files, bundles, loaded, serial, request, startVars, ghostVars>>

BundleStates == {"INSTALLED", "RESOLVED", "STARTING", "ACTIVE", "STOPPING",
                 "UNINSTALLED"}
Bundle == [name: Names, version: Versions, file: FileNames, state: BundleStates]

Pcs == {"idle", "create", "copy", "parse", "check", "find", "active",
        "stop", "stopping",
        "uninstall", "unload", "mark", "rename", "load", "cleanup"}

\* replace: the bundle to be replaced or uninstalled; file: the path of File f;
\* victim: the Bundle object removeBundle() found, or 0.
Request == [op: {"none", "install", "uninstall"}, upload: Content \cup {Absent},
            replace: Names \cup {NoName}, pc: Pcs, file: FileNames \cup {NoFile},
            victim: Nat]

NoRequest == [op |-> "none", upload |-> Absent, replace |-> NoName, pc |-> "idle",
              file |-> NoFile, victim |-> 0]

Readable(c) == c # Absent /\ c.cut # "manifest"
OnDisk(n) == \E f \in FileNames: Readable(files[f]) /\ files[f].name = n

Existing(disk) == {f \in FileNames: disk[f] # Absent}

Whole(f) == [name |-> f[1], version |-> f[2], cut |-> "none"]

Init ==
    /\ \E installed \in SUBSET (Names \X Versions):
         files = [f \in FileNames |-> IF f \in installed THEN Whole(f) ELSE Absent]
    /\ bundles = <<>>
    /\ loaded = [n \in Names |-> 0]
    /\ serial = 0
    /\ scan = Existing(files)
    /\ found = [n \in Names |-> NoFile]
    /\ phase = "scanning"
    /\ request = [t \in Admins |-> NoRequest]
    /\ crashes = 0
    /\ inherited = {}
    /\ orphans = {}
    /\ given = {n \in Names: ~OnDisk(n)}
    /\ dropped = {}

-----------------------------------------------------------------------------
(* loadBundles() *)

\* Mutant of Supersedes: the comparison is the wrong way round.
SupersedesLower(f, g) == g = NoFile \/ files[f].version <= files[g].version
\* The later of two files of the same version is taken.
Supersedes(f, g) == g = NoFile \/ files[g].version <= files[f].version

\* A file that is no bundle is logged and skipped.
ScanFile(f) ==
    /\ phase = "scanning"
    /\ f \in scan
    /\ scan' = scan \ {f}
    /\ LET c == files[f] IN
         IF /\ Readable(c)
            /\ <<c.name, c.version>> \notin Rejected
            /\ Supersedes(f, found[c.name])
           THEN found' = [found EXCEPT ![c.name] = f]
           ELSE UNCHANGED found
    /\ UNCHANGED <<files, bundles, loaded, serial, request, phase, crashes, inherited,
                   ghostVars>>

NewBundle(f) == [name |-> files[f].name, version |-> files[f].version, file |-> f,
                 state |-> "INSTALLED"]

LoadBundles ==
    /\ phase = "scanning"
    /\ scan = {}
    /\ LET chosen == SetToSeq({found[n]: n \in {m \in Names: found[m] # NoFile}})
       IN
         /\ bundles' = [k \in DOMAIN chosen |-> NewBundle(chosen[k])]
         /\ loaded' = [n \in Names |->
                         IF found[n] = NoFile
                           THEN 0 ELSE CHOOSE k \in DOMAIN chosen: chosen[k] = found[n]]
    /\ phase' = "running"
    /\ UNCHANGED <<files, serial, request, scan, found, crashes, inherited, ghostVars>>

-----------------------------------------------------------------------------
(* Requests *)

At(t, pc) == request[t].pc = pc

Goto(t, pc) == request' = [request EXCEPT ![t].pc = pc]
End(t) == request' = [request EXCEPT ![t] = NoRequest]

\* installBundleImpl() removes its file on the way out.
Throw(t) == IF request[t].op = "install" THEN Goto(t, "cleanup") ELSE End(t)

\* The bundles a request may change.
Concerned(r) ==
    (IF r.op = "install" THEN {r.upload.name, r.replace} ELSE {r.replace}) \ {NoName}

\* Administrators agree not to work on the same bundle.
MayBegin(t, r) ==
    Disjoint => \A u \in Admins \ {t}: Concerned(r) \cap Concerned(request[u]) = {}

\* Mutant of NextSerial: two threads get the same temporary name.
SameSerial == serial
NextSerial == serial + 1

\* installBundle() and replaceBundle() of the installer service: the upload is
\* to be copied to a temporary file.
BeginInstall(t) ==
    /\ phase = "running"
    /\ At(t, "idle")
    /\ serial < MaxInstalls
    /\ \E n \in Names, v \in Versions, old \in Names \cup {NoName}:
         LET r == [op |-> "install", upload |-> [name |-> n, version |-> v, cut |-> "none"],
                   replace |-> old, pc |-> "create", file |-> <<"tmp", serial>>, victim |-> 0]
         IN
           /\ MayBegin(t, r)
           /\ request' = [request EXCEPT ![t] = r]
           /\ given' = given \cup ({old} \ {n, NoName})
    /\ serial' = NextSerial
    /\ UNCHANGED <<files, bundles, loaded, startVars, orphans, dropped>>

\* The administration page's uninstall of a bundle it found by name.
BeginUninstall(t) ==
    /\ phase = "running"
    /\ At(t, "idle")
    /\ \E n \in Names:
         LET r == [NoRequest EXCEPT !.op = "uninstall", !.replace = n, !.pc = "uninstall",
                                    !.victim = loaded[n]]
         IN
           /\ loaded[n] # 0
           /\ MayBegin(t, r)
           /\ request' = [request EXCEPT ![t] = r]
           /\ given' = given \cup {n}
    /\ UNCHANGED <<files, bundles, loaded, serial, startVars, orphans, dropped>>

\* FileOutputStream creates or truncates the file.
CreateFile(t) ==
    /\ At(t, "create")
    /\ files' = [files EXCEPT ![request[t].file] = [request[t].upload EXCEPT !.cut = "manifest"]]
    /\ Goto(t, "copy")
    /\ UNCHANGED <<bundles, loaded, serial, startVars, ghostVars>>

\* What is written to a file that was removed meanwhile is lost.
Write(t, cut) ==
    LET f == request[t].file IN
      files' = IF files[f] = Absent
                 THEN files ELSE [files EXCEPT ![f] = [request[t].upload EXCEPT !.cut = cut]]

CopyPart(t) ==
    /\ At(t, "copy")
    /\ Write(t, "body")
    /\ UNCHANGED <<bundles, loaded, serial, request, startVars, ghostVars>>

\* copyStream() does not tell the end of the upload from its loss, nor a full disk.
CopyEnd(t) ==
    /\ At(t, "copy")
    /\ \E cut \in Cuts:
         /\ cut # "none" => "cut" \in Faults
         /\ Write(t, cut)
    /\ Goto(t, "parse")
    /\ UNCHANGED <<bundles, loaded, serial, startVars, ghostVars>>

\* Mutant of Parse: a file without a manifest is taken for a bundle.
ParseAnything(t) ==
    /\ At(t, "parse")
    /\ IF files[request[t].file] # Absent THEN Goto(t, "check") ELSE Throw(t)
    /\ UNCHANGED <<files, bundles, loaded, serial, startVars, ghostVars>>

\* createBundle() of the temporary file.
Parse(t) ==
    /\ At(t, "parse")
    /\ IF Readable(files[request[t].file]) THEN Goto(t, "check") ELSE Throw(t)
    /\ UNCHANGED <<files, bundles, loaded, serial, startVars, ghostVars>>

\* Mutant of CheckExisting: the test is left to the loader.
CheckNothing(t) ==
    /\ At(t, "check")
    /\ Goto(t, IF request[t].replace = NoName THEN "rename" ELSE "find")
    /\ UNCHANGED <<files, bundles, loaded, serial, startVars, ghostVars>>

CheckExisting(t) ==
    /\ At(t, "check")
    /\ LET r == request[t] IN
         IF r.replace # r.upload.name /\ loaded[r.upload.name] # 0
           THEN Throw(t)
           ELSE Goto(t, IF r.replace = NoName THEN "rename" ELSE "find")
    /\ UNCHANGED <<files, bundles, loaded, serial, startVars, ghostVars>>

-----------------------------------------------------------------------------
(* removeBundle() and Bundle::uninstall() *)

Victim(t) == bundles[request[t].victim]
SetVictim(t, state) == bundles' = [bundles EXCEPT ![request[t].victim].state = state]

FindVictim(t) ==
    /\ At(t, "find")
    /\ LET i == loaded[request[t].replace] IN
         request' = [request EXCEPT ![t].victim = i,
                                    ![t].pc = IF i = 0 THEN "rename" ELSE "active"]
    /\ UNCHANGED <<files, bundles, loaded, serial, startVars, ghostVars>>

\* Its first look at the state; stop() looks again.
LookIfActive(t) ==
    /\ At(t, "active")
    /\ Goto(t, IF Victim(t).state = "ACTIVE" THEN "stop" ELSE "uninstall")
    /\ UNCHANGED <<files, bundles, loaded, serial, startVars, ghostVars>>

StopVictim(t) ==
    /\ At(t, "stop")
    /\ IF Victim(t).state = "ACTIVE"
         THEN SetVictim(t, "STOPPING") /\ Goto(t, "stopping")
         ELSE Throw(t) /\ UNCHANGED bundles
    /\ UNCHANGED <<files, loaded, serial, startVars, ghostVars>>

VictimStopped(t) ==
    /\ At(t, "stopping")
    /\ \/ SetVictim(t, "RESOLVED") /\ Goto(t, "uninstall")
       \/ "stop" \in Faults /\ SetVictim(t, "ACTIVE") /\ Throw(t)
    /\ UNCHANGED <<files, loaded, serial, startVars, ghostVars>>

CheckUninstall(t) ==
    /\ At(t, "uninstall")
    /\ IF Victim(t).state \in {"INSTALLED", "RESOLVED"} /\ Victim(t).name \notin Protected
         THEN Goto(t, "unload")
         ELSE Throw(t)
    /\ UNCHANGED <<files, bundles, loaded, serial, startVars, ghostVars>>

\* BundleLoader::uninstallBundle(), in its mutex: the file, then whatever bundle
\* has the name in the map.
Unload(t) ==
    /\ At(t, "unload")
    /\ \/ /\ files[Victim(t).file] # Absent
          /\ files' = [files EXCEPT ![Victim(t).file] = Absent]
          /\ loaded' = [loaded EXCEPT ![Victim(t).name] = 0]
          /\ Goto(t, "mark")
       \/ /\ "remove" \in Faults \/ files[Victim(t).file] = Absent
          /\ Throw(t)
          /\ UNCHANGED <<files, loaded>>
    /\ UNCHANGED <<bundles, serial, startVars, ghostVars>>

MarkUninstalled(t) ==
    /\ At(t, "mark")
    /\ SetVictim(t, "UNINSTALLED")
    /\ IF request[t].op = "install" THEN Goto(t, "rename") ELSE End(t)
    /\ UNCHANGED <<files, loaded, serial, startVars, ghostVars>>

-----------------------------------------------------------------------------
(* The end of installBundleImpl() *)

\* Mutant of FinalName: the version is left out.
FinalNameOnly(c) == <<c.name>>
FinalName(c) == <<c.name, c.version>>

\* The bundle removeBundle() removed, if it is a version of the uploaded one.
Replaced(r) == {n \in {r.upload.name}: r.victim # 0 /\ r.replace = n}

\* renameTo() replaces a file of that name, and File f then has the new path.
Rename(t) ==
    /\ At(t, "rename")
    /\ LET f == request[t].file
           g == FinalName(request[t].upload)
       IN
         \/ /\ files[f] # Absent
            /\ files' = [files EXCEPT ![g] = files[f], ![f] = Absent]
            /\ request' = [request EXCEPT ![t].pc = "load", ![t].file = g]
            /\ UNCHANGED dropped
         \/ /\ "rename" \in Faults \/ files[f] = Absent
            /\ Throw(t)
            /\ dropped' = dropped \cup Replaced(request[t])
            /\ UNCHANGED files
    /\ UNCHANGED <<bundles, loaded, serial, startVars, orphans, given>>

\* loadBundle(): a name that is in the map is a version conflict.
Load(t) ==
    /\ At(t, "load")
    /\ LET f == request[t].file
           loads == Readable(files[f]) /\ loaded[request[t].upload.name] = 0
       IN
         \/ /\ loads
            /\ bundles' = Append(bundles, NewBundle(f))
            /\ loaded' = [loaded EXCEPT ![files[f].name] = Len(bundles) + 1]
            /\ given' = given \ {files[f].name}
            /\ orphans' = orphans \ {files[f].name}
            /\ dropped' = dropped \ {files[f].name}
            /\ End(t)
         \/ /\ "load" \in Faults \/ ~loads
            /\ Throw(t)
            /\ dropped' = dropped \cup {request[t].upload.name}
            /\ UNCHANGED <<bundles, loaded, orphans, given>>
    /\ UNCHANGED <<files, serial, startVars>>

\* File::remove() of whatever File f names now.
Cleanup(t) ==
    /\ At(t, "cleanup")
    /\ files' = [files EXCEPT ![request[t].file] = Absent]
    /\ End(t)
    /\ UNCHANGED <<bundles, loaded, serial, startVars, ghostVars>>

-----------------------------------------------------------------------------
(* What else happens *)

\* The state chart of BundleLifecycle, driven by other threads.
Moves == {<<"INSTALLED", "RESOLVED">>, <<"RESOLVED", "STARTING">>, <<"STARTING", "RESOLVED">>,
          <<"STARTING", "ACTIVE">>, <<"ACTIVE", "STOPPING">>, <<"STOPPING", "ACTIVE">>,
          <<"STOPPING", "RESOLVED">>}

ChangeState(i) ==
    /\ bundles[i].name \in Busy
    /\ \A t \in Admins: ~(At(t, "stopping") /\ request[t].victim = i)
    /\ \E m \in Moves:
         /\ bundles[i].state = m[1]
         /\ bundles' = [bundles EXCEPT ![i].state = m[2]]
    /\ UNCHANGED <<files, loaded, serial, request, startVars, ghostVars>>

\* The process ends, at any time, and starts again: only the files remain.
Crash ==
    /\ phase = "running"
    /\ crashes < MaxCrashes
    /\ crashes' = crashes + 1
    /\ bundles' = <<>>
    /\ loaded' = [n \in Names |-> 0]
    /\ serial' = 0
    /\ scan' = Existing(files)
    /\ found' = [n \in Names |-> NoFile]
    /\ phase' = "scanning"
    /\ request' = [t \in Admins |-> NoRequest]
    /\ inherited' = Existing(files) \cap TempFiles
    /\ orphans' = orphans \cup {files[f].name: f \in {g \in inherited': Readable(files[g])}}
    /\ UNCHANGED <<files, given, dropped>>

Serve(t) ==
    \/ BeginInstall(t) \/ BeginUninstall(t)
    \/ CreateFile(t) \/ CopyPart(t) \/ CopyEnd(t) \/ Parse(t) \/ CheckExisting(t)
    \/ FindVictim(t) \/ LookIfActive(t) \/ StopVictim(t) \/ VictimStopped(t)
    \/ CheckUninstall(t) \/ Unload(t) \/ MarkUninstalled(t)
    \/ Rename(t) \/ Load(t) \/ Cleanup(t)

Next ==
    \/ \E f \in FileNames: ScanFile(f)
    \/ LoadBundles
    \/ \E t \in Admins: Serve(t)
    \/ \E i \in DOMAIN bundles: ChangeState(i)
    \/ Crash

Spec == Init /\ [][Next]_vars

-----------------------------------------------------------------------------
(* Properties *)

\* Type correctness of the state.
RepositoryTypeOK ==
    /\ files \in [FileNames -> Content \cup {Absent}]
    /\ bundles \in Seq(Bundle)
    /\ loaded \in [Names -> 0 .. Len(bundles)]
    /\ serial \in 0 .. MaxInstalls
    /\ scan \subseteq FileNames
    /\ found \in [Names -> FileNames \cup {NoFile}]
    /\ phase \in {"scanning", "running"}
    /\ request \in [Admins -> Request]
    /\ crashes \in 0 .. MaxCrashes
    /\ inherited \subseteq TempFiles
    /\ orphans \subseteq Names
    /\ given \subseteq Names
    /\ dropped \subseteq Names

\* After a start the version of each bundle that is loaded is the highest of all
\* the files on disk the filter accepts, in whatever order the directory lists them.
HighestLoaded ==
    \A n \in Names:
      LET versions == {files[f].version: f \in {g \in FileNames:
                         /\ Readable(files[g])
                         /\ files[g].name = n
                         /\ <<n, files[g].version>> \notin Rejected}}
      IN
        IF versions = {}
          THEN loaded'[n] = 0
          ELSE /\ loaded'[n] # 0
               /\ bundles'[loaded'[n]].version \in versions
               /\ \A v \in versions: v <= bundles'[loaded'[n]].version

LatestIsLoaded == [][phase' = "running" /\ phase = "scanning" => HighestLoaded]_vars

\* Nobody but the installation that owns it writes to a temporary file: what is
\* parsed and renamed is what this thread copied, or the file is gone.
UploadIsolated ==
    \A t \in Admins:
      LET r == request[t] IN
        (r.op = "install" /\ r.pc \notin {"create", "load", "cleanup"}) =>
          \/ files[r.file] = Absent
          \/ [files[r.file] EXCEPT !.cut = "none"] = r.upload

\* An installation that fails takes its temporary file with it: when no request
\* is in progress, only files left by a crash before this start remain.
NoLeftovers ==
    (\A t \in Admins: At(t, "idle")) => Existing(files) \cap TempFiles \subseteq inherited

\* The loader's map and the directory agree: a loaded bundle's file is there, and
\* holds that bundle.  Temporary files that a crash left and the start loaded are
\* excepted: the next installation may overwrite them.
LoadedHasFile ==
    \A n \in Names:
      loaded[n] # 0 =>
        LET bundle == bundles[loaded[n]] IN
          \/ bundle.file \in TempFiles
          \/ /\ files[bundle.file] # Absent
             /\ files[bundle.file].name = n
             /\ files[bundle.file].version = bundle.version

\* The directory is what the loader's map and the requests in progress say.
DirectoryAgrees == NoLeftovers /\ LoadedHasFile

\* A bundle whose removal nobody asked for is on disk at every moment, also while
\* it is replaced by another version of itself and whatever step of an administrator's
\* request fails, so a crash at any moment loses none.  Excepted are the bundle whose
\* own installation failed after it had removed the old version or overwritten its
\* file, which the clean-up then loses, and bundles of temporary files a crash left.
NamesSurvive == \A n \in Names \ given: OnDisk(n) \/ n \in orphans \/ n \in dropped

\* The same without these exceptions: what was installed stays installed.
InstalledStaysInstalled == \A n \in Names \ given: OnDisk(n)
=============================================================================
