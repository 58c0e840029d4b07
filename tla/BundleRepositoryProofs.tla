------------------------ MODULE BundleRepositoryProofs ------------------------
(***************************************************************************)
(* What is true of the bundle files and the requests for any bundles,      *)
(* versions and administrators, whatever fails, and through crashes.       *)
(*                                                                         *)
(* An upload stays its thread's own because no two threads have the same   *)
(* temporary file (OwnInv), which needs that the counter of                *)
(* tempBundleName() is ahead of every file in use (KnownInv): a crash sets *)
(* it back, but leaves no request.                                         *)
(*                                                                         *)
(* What a start loads is the latest because loadBundles() keeps, of the    *)
(* files it has looked at, the highest version of each name (FoundInv).    *)
(*                                                                         *)
(* The map and the directory agree (AgreeInv) because a file under its     *)
(* final name is the bundle the name says, so that removing a bundle's     *)
(* file frees its name and no other; and because nothing of the name that  *)
(* an installation is about to load is in the map (OrderOK), which the     *)
(* work of another administrator on the same bundle would break.           *)
(*                                                                         *)
(* A name survives its replacement (SurviveInv) because the upload is      *)
(* parsed before the old version is removed, and stays readable: what a    *)
(* crash leaves of a replacement is a temporary file that the next start   *)
(* loads.  A replacement that fails thereafter loses the bundle, and is    *)
(* remembered in dropped.                                                  *)
(***************************************************************************)
EXTENDS BundleRepository, FiniteSetTheorems, TLAPS

FilesOK == files \in [FileNames -> Content \cup {Absent}]
LoaderOK == bundles \in Seq(Bundle) /\ loaded \in [Names -> 0 .. Len(bundles)]
RequestOK == request \in [Admins -> Request]
StartOK ==
    /\ serial \in 0 .. MaxInstalls
    /\ scan \subseteq FileNames
    /\ found \in [Names -> FileNames \cup {NoFile}]
    /\ phase \in {"scanning", "running"}
    /\ crashes \in 0 .. MaxCrashes
    /\ inherited \subseteq TempFiles
    /\ orphans \subseteq Names
    /\ given \subseteq Names
    /\ dropped \subseteq Names

\* Where a request is, and what it has.
Known(r) ==
    /\ r.op = "none" <=> r.pc = "idle"
    /\ r.pc \in {"create", "copy", "parse", "check", "find", "rename", "load", "cleanup"}
         => r.op = "install"
    /\ r.pc = "find" => r.replace \in Names
    /\ r.op = "install" =>
         /\ r.upload \in Content /\ r.upload.cut = "none"
         /\ r.file \in FileNames
         /\ r.pc \notin {"load", "cleanup"} => r.file \in TempFiles
         /\ r.file \in TempFiles => r.file[2] < serial

KnownInv == \A t \in Admins: Known(request[t])

OwnInv ==
    \A t, u \in Admins:
      /\ t # u /\ request[t].op = "install" /\ request[u].op = "install"
      /\ request[t].file \in TempFiles
      => request[t].file # request[u].file

\* loadBundles() runs before any request, and chooses files that are bundles.
ScanInv ==
    phase = "scanning" =>
      /\ \A t \in Admins: request[t].op = "none"
      /\ \A n \in Names: found[n] # NoFile => Readable(files[found[n]])

IInv == RepositoryTypeOK /\ KnownInv /\ OwnInv /\ UploadIsolated /\ ScanInv

IInvParts ==
    /\ FilesOK /\ LoaderOK /\ RequestOK /\ StartOK
    /\ KnownInv /\ OwnInv /\ UploadIsolated /\ ScanInv

LEMMA Parts == IInv <=> IInvParts
  BY DEF IInv, IInvParts, RepositoryTypeOK, FilesOK, LoaderOK, RequestOK, StartOK

LEMMA TempIsNoName == \A n \in Names, v \in Versions: <<n, v>> \notin TempFiles
  BY RepositoryAssumption DEF TempFiles

-----------------------------------------------------------------------------
(* Every step keeps the invariant *)

LEMMA Stage ==
    ASSUME NEW r \in Request, NEW p \in Pcs
    PROVE  LET q == [r EXCEPT !.pc = p] IN
             /\ q \in Request /\ q.pc = p
             /\ q.op = r.op /\ q.upload = r.upload /\ q.file = r.file /\ q.replace = r.replace
  BY DEF Request

LEMMA NoRequestFacts == NoRequest \in Request /\ NoRequest.op = "none" /\ NoRequest.pc = "idle"
  BY DEF NoRequest, Request, Pcs

\* What a request may become while its thread has one upload and one file.
Continues(r, q) ==
    /\ q \in Request
    /\ q.op = "none" <=> q.pc = "idle"
    /\ q.pc \in {"create", "copy", "parse", "check", "find", "rename", "load", "cleanup"}
         => q.op = "install"
    /\ q.pc = "find" => q.replace \in Names
    /\ q.op = "install" => r.op = "install" /\ q.upload = r.upload /\ q.file = r.file
    /\ q.op = "install" /\ q.pc \notin {"load", "cleanup"} => r.pc \notin {"load", "cleanup"}

Shrinks == \A f \in FileNames: files'[f] = files[f] \/ files'[f] = Absent

\* A step that creates no file.
LEMMA MoveKeeps ==
    ASSUME NEW t \in Admins, NEW q, RequestOK, KnownInv, OwnInv, UploadIsolated, ScanInv,
           request' = [request EXCEPT ![t] = q], Continues(request[t], q), request[t].op # "none",
           q.op = "install" /\ q.pc \notin {"load", "cleanup"} => request[t].pc # "create",
           Shrinks, serial' = serial, phase' = phase
    PROVE  RequestOK' /\ KnownInv' /\ OwnInv' /\ UploadIsolated' /\ ScanInv'
<1>1. /\ request' = [u \in Admins |-> IF u = t THEN q ELSE request[u]]
      /\ request'[t] = q
      /\ \A u \in Admins: u # t => request'[u] = request[u]
  BY DEF RequestOK
<1>2. RequestOK'
  BY <1>1 DEF RequestOK, Continues
<1>3. KnownInv'
  <2>1. Known(q)'
    BY DEF KnownInv, Known, Continues
  <2>2. \A u \in Admins: u # t => Known(request[u])'
    BY <1>1 DEF KnownInv, Known
  <2> QED
    BY <1>1, <2>1, <2>2 DEF KnownInv
<1>4. OwnInv'
  BY <1>1 DEF OwnInv, Continues
<1>5. UploadIsolated'
  <2> SUFFICES ASSUME NEW u \in Admins, request'[u].op = "install",
                      request'[u].pc \notin {"create", "load", "cleanup"}
               PROVE  \/ files'[request'[u].file] = Absent
                      \/ [files'[request'[u].file] EXCEPT !.cut = "none"] = request'[u].upload
    BY DEF UploadIsolated
  <2>1. /\ request[u].op = "install" /\ request[u].pc \notin {"create", "load", "cleanup"}
        /\ request'[u].file = request[u].file /\ request'[u].upload = request[u].upload
    BY <1>1 DEF Continues
  <2>2. request[u].file \in FileNames
    BY <2>1 DEF KnownInv, Known
  <2> QED
    BY <2>1, <2>2 DEF UploadIsolated, Shrinks
<1>6. ScanInv'
  BY DEF ScanInv
<1> QED
  BY <1>2, <1>3, <1>4, <1>5, <1>6

\* A step that writes the thread's own temporary file.
LEMMA WriteKeeps ==
    ASSUME NEW t \in Admins, NEW q, NEW cut \in Cuts,
           FilesOK, RequestOK, KnownInv, OwnInv, UploadIsolated, ScanInv,
           request' = [request EXCEPT ![t] = q], Continues(request[t], q),
           request[t].op = "install", request[t].pc \notin {"load", "cleanup"},
           files' = [files EXCEPT ![request[t].file] = [request[t].upload EXCEPT !.cut = cut]],
           serial' = serial, phase' = phase
    PROVE  FilesOK' /\ RequestOK' /\ KnownInv' /\ OwnInv' /\ UploadIsolated' /\ ScanInv'
<1> DEFINE f == request[t].file
           c == [request[t].upload EXCEPT !.cut = cut]
<1>1. /\ request' = [u \in Admins |-> IF u = t THEN q ELSE request[u]]
      /\ request'[t] = q
      /\ \A u \in Admins: u # t => request'[u] = request[u]
  BY DEF RequestOK
<1>2. /\ f \in TempFiles /\ f \in FileNames /\ request[t].upload \in Content
      /\ request[t].upload.cut = "none"
  BY DEF KnownInv, Known
<1>3. c \in Content /\ [c EXCEPT !.cut = "none"] = request[t].upload
  BY <1>2 DEF Content
<1>4. files' = [g \in FileNames |-> IF g = f THEN c ELSE files[g]]
  BY DEF FilesOK
<1> HIDE DEF c
<1>5. FilesOK'
  BY <1>2, <1>3, <1>4 DEF FilesOK
<1>6. RequestOK'
  BY <1>1 DEF RequestOK, Continues
<1>7. KnownInv'
  <2>1. Known(q)'
    BY DEF KnownInv, Known, Continues
  <2>2. \A u \in Admins: u # t => Known(request[u])'
    BY <1>1 DEF KnownInv, Known
  <2> QED
    BY <1>1, <2>1, <2>2 DEF KnownInv
<1>8. OwnInv'
  BY <1>1 DEF OwnInv, Continues
<1>9. UploadIsolated'
  <2> SUFFICES ASSUME NEW u \in Admins, request'[u].op = "install",
                      request'[u].pc \notin {"create", "load", "cleanup"}
               PROVE  \/ files'[request'[u].file] = Absent
                      \/ [files'[request'[u].file] EXCEPT !.cut = "none"] = request'[u].upload
    BY DEF UploadIsolated
  <2>1. CASE u = t
    <3>1. q.file = f /\ q.upload = request[t].upload
      BY <1>1, <2>1 DEF Continues
    <3>2. files'[f] = c
      BY <1>2, <1>4
    <3> QED
      BY <1>1, <1>3, <2>1, <3>1, <3>2
  <2>2. CASE u # t
    <3>1. request[u].file \in TempFiles /\ request[u].file \in FileNames /\ request'[u] = request[u]
      BY <1>1, <2>2 DEF KnownInv, Known
    <3>2. request[u].file # f
      BY <1>1, <2>2, <3>1 DEF OwnInv
    <3>3. files'[request[u].file] = files[request[u].file]
      BY <1>4, <3>1, <3>2
    <3> QED
      BY <1>1, <2>2, <3>1, <3>3 DEF UploadIsolated
  <2> QED
    BY <2>1, <2>2
<1>10. ScanInv'
  BY DEF ScanInv
<1> QED
  BY <1>5, <1>6, <1>7, <1>8, <1>9, <1>10

\* Another state of the bundle to be removed.
LEMMA VictimTypes ==
    ASSUME NEW i, NEW state \in BundleStates, LoaderOK, loaded' = loaded,
           bundles' = [bundles EXCEPT ![i].state = state]
    PROVE  LoaderOK'
<1>1. \A b \in Bundle: [b EXCEPT !.state = state] \in Bundle
  BY DEF Bundle
<1>2. bundles \in Seq(Bundle) /\ DOMAIN bundles = 1 .. Len(bundles) /\ Len(bundles) \in Nat
  BY DEF LoaderOK
<1>3. bundles \in [1 .. Len(bundles) -> Bundle]
  BY <1>2
<1>4. bundles' = [k \in 1 .. Len(bundles) |-> IF k = i THEN [bundles[k] EXCEPT !.state = state] ELSE bundles[k]]
  BY <1>3
<1>5. \A k \in 1 .. Len(bundles): bundles'[k] \in Bundle
  BY <1>1, <1>3, <1>4
<1>6. bundles' \in [1 .. Len(bundles) -> Bundle]
  BY <1>4, <1>5
<1>7. bundles' \in Seq(Bundle) /\ Len(bundles') = Len(bundles)
  BY <1>2, <1>6
<1> QED
  BY <1>7 DEF LoaderOK

\* The thread goes on to p.
LEMMA GoneKeeps ==
    ASSUME NEW t \in Admins, NEW p \in Pcs \ {"idle", "create"},
           RequestOK, KnownInv, OwnInv, UploadIsolated, ScanInv, Goto(t, p), request[t].op # "none",
           request[t].op = "install" \/ p \notin {"copy", "parse", "check", "find", "rename", "load", "cleanup"},
           p = "find" => request[t].replace \in Names,
           p \in {"load", "cleanup"} \/ request[t].pc \notin {"create", "load", "cleanup"},
           Shrinks, serial' = serial, phase' = phase
    PROVE  RequestOK' /\ KnownInv' /\ OwnInv' /\ UploadIsolated' /\ ScanInv'
<1> DEFINE q == [request[t] EXCEPT !.pc = p]
<1>1. request' = [request EXCEPT ![t] = q]
  BY DEF Goto
<1>2. request[t] \in Request
  BY DEF RequestOK
<1>3. /\ q \in Request /\ q.pc = p
      /\ q.op = request[t].op /\ q.upload = request[t].upload /\ q.file = request[t].file
      /\ q.replace = request[t].replace
  BY <1>2, Stage
<1> HIDE DEF q
<1>4. Continues(request[t], q)
  BY <1>3 DEF Continues
<1> QED
  BY <1>1, <1>3, <1>4, MoveKeeps

LEMMA EndedKeeps ==
    ASSUME NEW t \in Admins,
           RequestOK, KnownInv, OwnInv, UploadIsolated, ScanInv, End(t), request[t].op # "none",
           Shrinks, serial' = serial, phase' = phase
    PROVE  RequestOK' /\ KnownInv' /\ OwnInv' /\ UploadIsolated' /\ ScanInv'
<1>1. request' = [request EXCEPT ![t] = NoRequest]
  BY DEF End
<1>2. Continues(request[t], NoRequest)
  BY NoRequestFacts DEF Continues
<1> QED
  BY <1>1, <1>2, NoRequestFacts, MoveKeeps

LEMMA ThrownKeeps ==
    ASSUME NEW t \in Admins,
           RequestOK, KnownInv, OwnInv, UploadIsolated, ScanInv, Throw(t), request[t].op # "none",
           Shrinks, serial' = serial, phase' = phase
    PROVE  RequestOK' /\ KnownInv' /\ OwnInv' /\ UploadIsolated' /\ ScanInv'
<1>1. CASE request[t].op = "install"
  BY <1>1, GoneKeeps DEF Throw, Pcs
<1>2. CASE request[t].op # "install"
  BY <1>2, EndedKeeps DEF Throw
<1> QED
  BY <1>1, <1>2

LEMMA ParseKeeps == ASSUME NEW t \in Admins, IInv, Parse(t) PROVE IInv'
<1>a. FilesOK /\ LoaderOK /\ RequestOK /\ StartOK /\ KnownInv /\ OwnInv /\ UploadIsolated /\ ScanInv
  BY Parts DEF IInvParts
<1>b. request[t].op # "none" /\ request[t].op = "install"
  BY <1>a DEF Parse, At, KnownInv, Known
<1>c. Shrinks /\ serial' = serial /\ phase' = phase
  BY <1>a DEF Parse, Shrinks, FilesOK, startVars
<1>1. RequestOK' /\ KnownInv' /\ OwnInv' /\ UploadIsolated' /\ ScanInv'
  BY <1>a, <1>b, <1>c, GoneKeeps, ThrownKeeps, EndedKeeps DEF Parse, At, Pcs
<1>2. FilesOK'
  BY <1>a DEF Parse, FilesOK
<1>3. LoaderOK'
  BY <1>a DEF Parse, LoaderOK
<1>4. StartOK'
  BY <1>a DEF Parse, StartOK, startVars, ghostVars
<1> QED
  BY <1>1, <1>2, <1>3, <1>4
     DEF IInv, RepositoryTypeOK, FilesOK, LoaderOK, RequestOK, StartOK

LEMMA CheckExistingKeeps == ASSUME NEW t \in Admins, IInv, CheckExisting(t) PROVE IInv'
<1>a. FilesOK /\ LoaderOK /\ RequestOK /\ StartOK /\ KnownInv /\ OwnInv /\ UploadIsolated /\ ScanInv
  BY Parts DEF IInvParts
<1>b. request[t].op # "none" /\ request[t].op = "install"
  BY <1>a DEF CheckExisting, At, KnownInv, Known
<1>c. Shrinks /\ serial' = serial /\ phase' = phase
  BY <1>a DEF CheckExisting, Shrinks, FilesOK, startVars
<1>1. RequestOK' /\ KnownInv' /\ OwnInv' /\ UploadIsolated' /\ ScanInv'
  BY <1>a, <1>b, <1>c, GoneKeeps, ThrownKeeps, EndedKeeps
     DEF CheckExisting, At, Pcs, RequestOK, Request
<1>2. FilesOK'
  BY <1>a DEF CheckExisting, FilesOK
<1>3. LoaderOK'
  BY <1>a DEF CheckExisting, LoaderOK
<1>4. StartOK'
  BY <1>a DEF CheckExisting, StartOK, startVars, ghostVars
<1> QED
  BY <1>1, <1>2, <1>3, <1>4
     DEF IInv, RepositoryTypeOK, FilesOK, LoaderOK, RequestOK, StartOK

LEMMA LookIfActiveKeeps == ASSUME NEW t \in Admins, IInv, LookIfActive(t) PROVE IInv'
<1>a. FilesOK /\ LoaderOK /\ RequestOK /\ StartOK /\ KnownInv /\ OwnInv /\ UploadIsolated /\ ScanInv
  BY Parts DEF IInvParts
<1>b. request[t].op # "none"
  BY <1>a DEF LookIfActive, At, KnownInv, Known
<1>c. Shrinks /\ serial' = serial /\ phase' = phase
  BY <1>a DEF LookIfActive, Shrinks, FilesOK, startVars
<1>1. RequestOK' /\ KnownInv' /\ OwnInv' /\ UploadIsolated' /\ ScanInv'
  BY <1>a, <1>b, <1>c, GoneKeeps, ThrownKeeps, EndedKeeps DEF LookIfActive, At, Pcs
<1>2. FilesOK'
  BY <1>a DEF LookIfActive, FilesOK
<1>3. LoaderOK'
  BY <1>a DEF LookIfActive, LoaderOK
<1>4. StartOK'
  BY <1>a DEF LookIfActive, StartOK, startVars, ghostVars
<1> QED
  BY <1>1, <1>2, <1>3, <1>4
     DEF IInv, RepositoryTypeOK, FilesOK, LoaderOK, RequestOK, StartOK

LEMMA StopVictimKeeps == ASSUME NEW t \in Admins, IInv, StopVictim(t) PROVE IInv'
<1>a. FilesOK /\ LoaderOK /\ RequestOK /\ StartOK /\ KnownInv /\ OwnInv /\ UploadIsolated /\ ScanInv
  BY Parts DEF IInvParts
<1>b. request[t].op # "none"
  BY <1>a DEF StopVictim, At, KnownInv, Known
<1>c. Shrinks /\ serial' = serial /\ phase' = phase
  BY <1>a DEF StopVictim, Shrinks, FilesOK, startVars
<1>1. RequestOK' /\ KnownInv' /\ OwnInv' /\ UploadIsolated' /\ ScanInv'
  BY <1>a, <1>b, <1>c, GoneKeeps, ThrownKeeps, EndedKeeps DEF StopVictim, At, Pcs
<1>2. FilesOK'
  BY <1>a DEF StopVictim, FilesOK
<1>3. LoaderOK'
  BY <1>a, VictimTypes DEF StopVictim, SetVictim, BundleStates, LoaderOK
<1>4. StartOK'
  BY <1>a DEF StopVictim, StartOK, startVars, ghostVars
<1> QED
  BY <1>1, <1>2, <1>3, <1>4
     DEF IInv, RepositoryTypeOK, FilesOK, LoaderOK, RequestOK, StartOK

LEMMA VictimStoppedKeeps == ASSUME NEW t \in Admins, IInv, VictimStopped(t) PROVE IInv'
<1>a. FilesOK /\ LoaderOK /\ RequestOK /\ StartOK /\ KnownInv /\ OwnInv /\ UploadIsolated /\ ScanInv
  BY Parts DEF IInvParts
<1>b. request[t].op # "none"
  BY <1>a DEF VictimStopped, At, KnownInv, Known
<1>c. Shrinks /\ serial' = serial /\ phase' = phase
  BY <1>a DEF VictimStopped, Shrinks, FilesOK, startVars
<1>1. RequestOK' /\ KnownInv' /\ OwnInv' /\ UploadIsolated' /\ ScanInv'
  BY <1>a, <1>b, <1>c, GoneKeeps, ThrownKeeps, EndedKeeps DEF VictimStopped, At, Pcs
<1>2. FilesOK'
  BY <1>a DEF VictimStopped, FilesOK
<1>3. LoaderOK'
  BY <1>a, VictimTypes DEF VictimStopped, SetVictim, BundleStates, LoaderOK
<1>4. StartOK'
  BY <1>a DEF VictimStopped, StartOK, startVars, ghostVars
<1> QED
  BY <1>1, <1>2, <1>3, <1>4
     DEF IInv, RepositoryTypeOK, FilesOK, LoaderOK, RequestOK, StartOK

LEMMA CheckUninstallKeeps == ASSUME NEW t \in Admins, IInv, CheckUninstall(t) PROVE IInv'
<1>a. FilesOK /\ LoaderOK /\ RequestOK /\ StartOK /\ KnownInv /\ OwnInv /\ UploadIsolated /\ ScanInv
  BY Parts DEF IInvParts
<1>b. request[t].op # "none"
  BY <1>a DEF CheckUninstall, At, KnownInv, Known
<1>c. Shrinks /\ serial' = serial /\ phase' = phase
  BY <1>a DEF CheckUninstall, Shrinks, FilesOK, startVars
<1>1. RequestOK' /\ KnownInv' /\ OwnInv' /\ UploadIsolated' /\ ScanInv'
  BY <1>a, <1>b, <1>c, GoneKeeps, ThrownKeeps, EndedKeeps DEF CheckUninstall, At, Pcs
<1>2. FilesOK'
  BY <1>a DEF CheckUninstall, FilesOK
<1>3. LoaderOK'
  BY <1>a DEF CheckUninstall, LoaderOK
<1>4. StartOK'
  BY <1>a DEF CheckUninstall, StartOK, startVars, ghostVars
<1> QED
  BY <1>1, <1>2, <1>3, <1>4
     DEF IInv, RepositoryTypeOK, FilesOK, LoaderOK, RequestOK, StartOK

LEMMA UnloadKeeps == ASSUME NEW t \in Admins, IInv, Unload(t) PROVE IInv'
<1>a. FilesOK /\ LoaderOK /\ RequestOK /\ StartOK /\ KnownInv /\ OwnInv /\ UploadIsolated /\ ScanInv
  BY Parts DEF IInvParts
<1>b. request[t].op # "none"
  BY <1>a DEF Unload, At, KnownInv, Known
<1>c. Shrinks /\ serial' = serial /\ phase' = phase
  BY <1>a DEF Unload, Shrinks, FilesOK, startVars
<1>1. RequestOK' /\ KnownInv' /\ OwnInv' /\ UploadIsolated' /\ ScanInv'
  BY <1>a, <1>b, <1>c, GoneKeeps, ThrownKeeps, EndedKeeps DEF Unload, At, Pcs
<1>2. FilesOK'
  BY <1>a DEF Unload, FilesOK
<1>3. LoaderOK'
  BY <1>a DEF Unload, LoaderOK
<1>4. StartOK'
  BY <1>a DEF Unload, StartOK, startVars, ghostVars
<1> QED
  BY <1>1, <1>2, <1>3, <1>4
     DEF IInv, RepositoryTypeOK, FilesOK, LoaderOK, RequestOK, StartOK

LEMMA MarkUninstalledKeeps == ASSUME NEW t \in Admins, IInv, MarkUninstalled(t) PROVE IInv'
<1>a. FilesOK /\ LoaderOK /\ RequestOK /\ StartOK /\ KnownInv /\ OwnInv /\ UploadIsolated /\ ScanInv
  BY Parts DEF IInvParts
<1>b. request[t].op # "none"
  BY <1>a DEF MarkUninstalled, At, KnownInv, Known
<1>c. Shrinks /\ serial' = serial /\ phase' = phase
  BY <1>a DEF MarkUninstalled, Shrinks, FilesOK, startVars
<1>1. RequestOK' /\ KnownInv' /\ OwnInv' /\ UploadIsolated' /\ ScanInv'
  BY <1>a, <1>b, <1>c, GoneKeeps, ThrownKeeps, EndedKeeps DEF MarkUninstalled, At, Pcs
<1>2. FilesOK'
  BY <1>a DEF MarkUninstalled, FilesOK
<1>3. LoaderOK'
  BY <1>a, VictimTypes DEF MarkUninstalled, SetVictim, BundleStates, LoaderOK
<1>4. StartOK'
  BY <1>a DEF MarkUninstalled, StartOK, startVars, ghostVars
<1> QED
  BY <1>1, <1>2, <1>3, <1>4
     DEF IInv, RepositoryTypeOK, FilesOK, LoaderOK, RequestOK, StartOK

LEMMA CleanupKeeps == ASSUME NEW t \in Admins, IInv, Cleanup(t) PROVE IInv'
<1>a. FilesOK /\ LoaderOK /\ RequestOK /\ StartOK /\ KnownInv /\ OwnInv /\ UploadIsolated /\ ScanInv
  BY Parts DEF IInvParts
<1>b. request[t].op # "none" /\ request[t].op = "install"
  BY <1>a DEF Cleanup, At, KnownInv, Known
<1>c. Shrinks /\ serial' = serial /\ phase' = phase
  BY <1>a DEF Cleanup, Shrinks, FilesOK, startVars
<1>1. RequestOK' /\ KnownInv' /\ OwnInv' /\ UploadIsolated' /\ ScanInv'
  BY <1>a, <1>b, <1>c, GoneKeeps, ThrownKeeps, EndedKeeps DEF Cleanup, At, Pcs
<1>2. FilesOK'
  BY <1>a DEF Cleanup, FilesOK
<1>3. LoaderOK'
  BY <1>a DEF Cleanup, LoaderOK
<1>4. StartOK'
  BY <1>a DEF Cleanup, StartOK, startVars, ghostVars
<1> QED
  BY <1>1, <1>2, <1>3, <1>4
     DEF IInv, RepositoryTypeOK, FilesOK, LoaderOK, RequestOK, StartOK

LEMMA CreateFileKeeps == ASSUME NEW t \in Admins, IInv, CreateFile(t) PROVE IInv'
<1>a. FilesOK /\ LoaderOK /\ RequestOK /\ StartOK /\ KnownInv /\ OwnInv /\ UploadIsolated /\ ScanInv
  BY Parts DEF IInvParts
<1>b. request[t].op = "install" /\ request[t].pc = "create" /\ request[t] \in Request
  BY <1>a DEF CreateFile, At, KnownInv, Known, RequestOK
<1> DEFINE q == [request[t] EXCEPT !.pc = "copy"]
<1>c. /\ q \in Request /\ q.pc = "copy"
      /\ q.op = request[t].op /\ q.upload = request[t].upload /\ q.file = request[t].file
  <2>1. "copy" \in Pcs
    BY DEF Pcs
  <2> QED
    BY <1>b, <2>1, Stage
<1>d. request' = [request EXCEPT ![t] = q]
  BY DEF CreateFile, Goto
<1> HIDE DEF q
<1>e. Continues(request[t], q)
  BY <1>b, <1>c DEF Continues
<1>f. FilesOK' /\ RequestOK' /\ KnownInv' /\ OwnInv' /\ UploadIsolated' /\ ScanInv'
  BY <1>a, <1>b, <1>d, <1>e, WriteKeeps DEF CreateFile, Cuts, startVars
<1>3. LoaderOK'
  BY <1>a DEF CreateFile, LoaderOK
<1>4. StartOK'
  BY <1>a DEF CreateFile, StartOK, startVars, ghostVars
<1> QED
  BY <1>f, <1>3, <1>4 DEF IInv, RepositoryTypeOK, FilesOK, LoaderOK, RequestOK, StartOK

LEMMA CopyPartKeeps == ASSUME NEW t \in Admins, IInv, CopyPart(t) PROVE IInv'
<1>a. FilesOK /\ LoaderOK /\ RequestOK /\ StartOK /\ KnownInv /\ OwnInv /\ UploadIsolated /\ ScanInv
  BY Parts DEF IInvParts
<1>b. request[t].op = "install" /\ request[t].pc = "copy" /\ request[t] \in Request
  BY <1>a DEF CopyPart, At, KnownInv, Known, RequestOK
<1> DEFINE q == request[t]
<1>c. /\ q \in Request /\ q.pc = "copy"
      /\ q.op = request[t].op /\ q.upload = request[t].upload /\ q.file = request[t].file
  BY <1>b
<1>d. request' = [request EXCEPT ![t] = q]
  BY <1>a DEF CopyPart, Goto, RequestOK
<1> HIDE DEF q
<1>e. Continues(request[t], q)
  BY <1>b, <1>c DEF Continues
<1>f. serial' = serial /\ phase' = phase
  BY DEF CopyPart, startVars
<1>g. PICK cut \in Cuts: Write(t, cut)
  BY DEF CopyPart, Cuts
<1>h. FilesOK' /\ RequestOK' /\ KnownInv' /\ OwnInv' /\ UploadIsolated' /\ ScanInv'
  <2>1. CASE files[request[t].file] = Absent
    <3>1. files' = files
      BY <1>g, <2>1 DEF Write
    <3> QED
      BY <1>a, <1>b, <1>c, <1>d, <1>e, <1>f, <3>1, MoveKeeps DEF FilesOK, Shrinks
  <2>2. CASE files[request[t].file] # Absent
    <3>1. files' = [files EXCEPT ![request[t].file] = [request[t].upload EXCEPT !.cut = cut]]
      BY <1>g, <2>2 DEF Write
    <3> QED
      BY <1>a, <1>b, <1>d, <1>e, <1>f, <3>1, WriteKeeps
  <2> QED
    BY <2>1, <2>2
<1>3. LoaderOK'
  BY <1>a DEF CopyPart, LoaderOK
<1>4. StartOK'
  BY <1>a DEF CopyPart, StartOK, startVars, ghostVars
<1> QED
  BY <1>h, <1>3, <1>4 DEF IInv, RepositoryTypeOK, FilesOK, LoaderOK, RequestOK, StartOK

LEMMA CopyEndKeeps == ASSUME NEW t \in Admins, IInv, CopyEnd(t) PROVE IInv'
<1>a. FilesOK /\ LoaderOK /\ RequestOK /\ StartOK /\ KnownInv /\ OwnInv /\ UploadIsolated /\ ScanInv
  BY Parts DEF IInvParts
<1>b. request[t].op = "install" /\ request[t].pc = "copy" /\ request[t] \in Request
  BY <1>a DEF CopyEnd, At, KnownInv, Known, RequestOK
<1> DEFINE q == [request[t] EXCEPT !.pc = "parse"]
<1>c. /\ q \in Request /\ q.pc = "parse"
      /\ q.op = request[t].op /\ q.upload = request[t].upload /\ q.file = request[t].file
  <2>1. "parse" \in Pcs
    BY DEF Pcs
  <2> QED
    BY <1>b, <2>1, Stage
<1>d. request' = [request EXCEPT ![t] = q]
  BY <1>a DEF CopyEnd, Goto, RequestOK
<1> HIDE DEF q
<1>e. Continues(request[t], q)
  BY <1>b, <1>c DEF Continues
<1>f. serial' = serial /\ phase' = phase
  BY DEF CopyEnd, startVars
<1>g. PICK cut \in Cuts: Write(t, cut)
  BY DEF CopyEnd, Cuts
<1>h. FilesOK' /\ RequestOK' /\ KnownInv' /\ OwnInv' /\ UploadIsolated' /\ ScanInv'
  <2>1. CASE files[request[t].file] = Absent
    <3>1. files' = files
      BY <1>g, <2>1 DEF Write
    <3> QED
      BY <1>a, <1>b, <1>c, <1>d, <1>e, <1>f, <3>1, MoveKeeps DEF FilesOK, Shrinks
  <2>2. CASE files[request[t].file] # Absent
    <3>1. files' = [files EXCEPT ![request[t].file] = [request[t].upload EXCEPT !.cut = cut]]
      BY <1>g, <2>2 DEF Write
    <3> QED
      BY <1>a, <1>b, <1>d, <1>e, <1>f, <3>1, WriteKeeps
  <2> QED
    BY <2>1, <2>2
<1>3. LoaderOK'
  BY <1>a DEF CopyEnd, LoaderOK
<1>4. StartOK'
  BY <1>a DEF CopyEnd, StartOK, startVars, ghostVars
<1> QED
  BY <1>h, <1>3, <1>4 DEF IInv, RepositoryTypeOK, FilesOK, LoaderOK, RequestOK, StartOK

LEMMA FindVictimKeeps == ASSUME NEW t \in Admins, IInv, FindVictim(t) PROVE IInv'
<1>a. FilesOK /\ LoaderOK /\ RequestOK /\ StartOK /\ KnownInv /\ OwnInv /\ UploadIsolated /\ ScanInv
  BY Parts DEF IInvParts
<1>b. request[t].op = "install" /\ request[t].pc = "find" /\ request[t] \in Request
  BY <1>a DEF FindVictim, At, KnownInv, Known, RequestOK
<1>c. PICK i \in Nat, p \in {"rename", "active"}:
        request' = [request EXCEPT ![t] = [request[t] EXCEPT !.victim = i, !.pc = p]]
  <2>1. request[t].replace \in Names
    BY <1>a, <1>b DEF KnownInv, Known
  <2>2. loaded[request[t].replace] \in Nat
    BY <1>a, <2>1 DEF LoaderOK
  <2> QED
    BY <1>b, <2>2 DEF FindVictim
<1> DEFINE q == [request[t] EXCEPT !.victim = i, !.pc = p]
<1>d. /\ q \in Request /\ q.pc = p
      /\ q.op = request[t].op /\ q.upload = request[t].upload /\ q.file = request[t].file
  BY <1>b DEF Request, Pcs
<1>e. request' = [request EXCEPT ![t] = q]
  BY <1>c
<1> HIDE DEF q
<1>f. Continues(request[t], q)
  BY <1>b, <1>d DEF Continues
<1>g. Shrinks /\ serial' = serial /\ phase' = phase
  BY DEF FindVictim, Shrinks, startVars
<1>1. RequestOK' /\ KnownInv' /\ OwnInv' /\ UploadIsolated' /\ ScanInv'
  BY <1>a, <1>b, <1>e, <1>f, <1>g, MoveKeeps
<1>2. FilesOK'
  BY <1>a DEF FindVictim, FilesOK
<1>3. LoaderOK'
  BY <1>a DEF FindVictim, LoaderOK
<1>4. StartOK'
  BY <1>a DEF FindVictim, StartOK, startVars, ghostVars
<1> QED
  BY <1>1, <1>2, <1>3, <1>4
     DEF IInv, RepositoryTypeOK, FilesOK, LoaderOK, RequestOK, StartOK

LEMMA RenameKeeps == ASSUME NEW t \in Admins, IInv, Rename(t) PROVE IInv'
<1>a. FilesOK /\ LoaderOK /\ RequestOK /\ StartOK /\ KnownInv /\ OwnInv /\ UploadIsolated /\ ScanInv
  BY Parts DEF IInvParts
<1>b. request[t].op = "install" /\ request[t].pc = "rename" /\ request[t] \in Request
  BY <1>a DEF Rename, At, KnownInv, Known, RequestOK
<1>3. LoaderOK'
  BY <1>a DEF Rename, LoaderOK
<1>4. StartOK'
  <2>1. request[t].upload.name \in Names
    BY <1>a, <1>b DEF KnownInv, Known, Content
  <2>2. dropped' \subseteq dropped \cup {request[t].upload.name}
    BY DEF Rename, Replaced
  <2> QED
    BY <1>a, <2>1, <2>2 DEF Rename, StartOK, startVars
<1> DEFINE f == request[t].file
           g == FinalName(request[t].upload)
           q == [request[t] EXCEPT !.pc = "load", !.file = g]
<1>c. CASE /\ files' = [files EXCEPT ![g] = files[f], ![f] = Absent]
           /\ request' = [request EXCEPT ![t] = q]
  <2>1. request[t].upload \in Content
    BY <1>a, <1>b DEF KnownInv, Known
  <2>2. f \in FileNames /\ g \in FileNames /\ g \notin TempFiles
    BY <1>a, <1>b, <2>1, TempIsNoName DEF KnownInv, Known, FinalName, Content, FileNames
  <2>3. /\ q \in Request /\ q.pc = "load" /\ q.file = g
        /\ q.op = request[t].op /\ q.upload = request[t].upload
    BY <1>b, <2>2 DEF Request, Pcs
  <2>4. files' = [h \in FileNames |-> IF h = f THEN Absent ELSE IF h = g THEN files[f] ELSE files[h]]
    BY <1>a, <1>c, <2>2 DEF FilesOK
  <2> HIDE DEF q, g, f
  <2>5. FilesOK'
    BY <1>a, <2>2, <2>4 DEF FilesOK
  <2>6. /\ RequestOK'
        /\ request'[t] = q
        /\ \A u \in Admins: u # t => request'[u] = request[u]
    BY <1>a, <1>c, <2>3 DEF RequestOK
  <2>7. serial' = serial /\ phase' = phase
    BY DEF Rename, startVars
  <2>8. KnownInv'
    <3>1. Known(request[t])'
      BY <1>a, <1>b, <2>2, <2>3, <2>6, <2>7 DEF KnownInv, Known
    <3>2. \A u \in Admins: u # t => Known(request[u])'
      BY <1>a, <2>6, <2>7 DEF KnownInv, Known
    <3> QED
      BY <2>6, <3>1, <3>2 DEF KnownInv
  <2>9. OwnInv'
    BY <1>a, <2>2, <2>3, <2>6 DEF OwnInv
  <2>10. UploadIsolated'
    <3> SUFFICES ASSUME NEW u \in Admins, request'[u].op = "install",
                        request'[u].pc \notin {"create", "load", "cleanup"}
                 PROVE  \/ files'[request'[u].file] = Absent
                        \/ [files'[request'[u].file] EXCEPT !.cut = "none"] = request'[u].upload
      BY DEF UploadIsolated
    <3>1. u # t /\ request'[u] = request[u]
      BY <2>3, <2>6
    <3>2. request[u].file \in TempFiles /\ request[u].file \in FileNames
      BY <1>a, <3>1 DEF KnownInv, Known
    <3>3. files'[request[u].file] = files[request[u].file] \/ files'[request[u].file] = Absent
      BY <2>2, <2>4, <3>2
    <3> QED
      BY <1>a, <3>1, <3>3 DEF UploadIsolated
  <2>11. ScanInv'
    BY <1>a, <1>b, <2>7 DEF ScanInv
  <2> QED
    BY <2>5, <1>3, <2>6, <1>4, <2>8, <2>9, <2>10, <2>11
       DEF IInv, RepositoryTypeOK, FilesOK, LoaderOK, RequestOK, StartOK
<1>d. CASE Throw(t) /\ UNCHANGED files
  <2>1. Shrinks /\ serial' = serial /\ phase' = phase
    BY <1>d DEF Rename, Shrinks, startVars
  <2>2. RequestOK' /\ KnownInv' /\ OwnInv' /\ UploadIsolated' /\ ScanInv'
    BY <1>a, <1>b, <1>d, <2>1, ThrownKeeps
  <2>3. FilesOK'
    BY <1>a, <1>d DEF FilesOK
  <2> QED
    BY <2>2, <2>3, <1>3, <1>4 DEF IInv, RepositoryTypeOK, FilesOK, LoaderOK, RequestOK, StartOK
<1> QED
  BY <1>c, <1>d DEF Rename

LEMMA NewBundleType ==
    ASSUME FilesOK, NEW f \in FileNames, Readable(files[f])
    PROVE  NewBundle(f) \in Bundle /\ files[f].name \in Names
<1>1. files[f] \in Content
  BY DEF FilesOK, Readable
<1> QED
  BY <1>1 DEF NewBundle, Bundle, BundleStates, Content

LEMMA LoadedTypes ==
    ASSUME NEW k \in Nat, NEW f \in [Names -> 0 .. k], NEW n
    PROVE  [f EXCEPT ![n] = k + 1] \in [Names -> 0 .. k + 1]
<1>1. k + 1 \in 0 .. k + 1
  OBVIOUS
<1>2. \A m \in Names: f[m] \in 0 .. k + 1
  OBVIOUS
<1> DEFINE S == 0 .. k + 1
           x == k + 1
<1>3. x \in S /\ f = [m \in Names |-> f[m]] /\ \A m \in Names: f[m] \in S
  BY <1>1, <1>2
<1> HIDE DEF S, x
<1>4. [f EXCEPT ![n] = x] \in [Names -> S]
  BY <1>3
<1> QED
  BY <1>4 DEF S, x

LEMMA LoadKeeps == ASSUME NEW t \in Admins, IInv, Load(t) PROVE IInv'
<1>a. FilesOK /\ LoaderOK /\ RequestOK /\ StartOK /\ KnownInv /\ OwnInv /\ UploadIsolated /\ ScanInv
  BY Parts DEF IInvParts
<1>b. request[t].op = "install" /\ request[t].file \in FileNames
  BY <1>a DEF Load, At, KnownInv, Known
<1>c. Shrinks /\ serial' = serial /\ phase' = phase
  BY DEF Load, Shrinks, startVars
<1>1. RequestOK' /\ KnownInv' /\ OwnInv' /\ UploadIsolated' /\ ScanInv'
  BY <1>a, <1>b, <1>c, ThrownKeeps, EndedKeeps DEF Load
<1>2. FilesOK'
  BY <1>a DEF Load, FilesOK
<1> DEFINE f == request[t].file
<1>3. LoaderOK'
  <2>1. CASE UNCHANGED <<bundles, loaded>>
    BY <1>a, <2>1 DEF LoaderOK
  <2>2. CASE /\ Readable(files[f])
             /\ bundles' = Append(bundles, NewBundle(f))
             /\ loaded' = [loaded EXCEPT ![files[f].name] = Len(bundles) + 1]
    <3>1. NewBundle(f) \in Bundle /\ files[f].name \in Names
      BY <1>a, <1>b, <2>2, NewBundleType
    <3>2. bundles \in Seq(Bundle) /\ Len(bundles) \in Nat /\ loaded \in [Names -> 0 .. Len(bundles)]
      BY <1>a DEF LoaderOK
    <3>3. bundles' \in Seq(Bundle) /\ Len(bundles') = Len(bundles) + 1
      BY <2>2, <3>1, <3>2
    <3>4. loaded' \in [Names -> 0 .. Len(bundles) + 1]
      BY <2>2, <3>2, LoadedTypes
    <3> QED
      BY <3>3, <3>4 DEF LoaderOK
  <2> QED
    BY <2>1, <2>2 DEF Load
<1>4. StartOK'
  <2>1. request[t].upload.name \in Names
    BY <1>a, <1>b DEF KnownInv, Known, Content
  <2>2. /\ given' \subseteq given /\ orphans' \subseteq orphans
        /\ dropped' \subseteq dropped \cup {request[t].upload.name}
    BY DEF Load
  <2> QED
    BY <1>a, <2>1, <2>2 DEF Load, StartOK, startVars
<1> QED
  BY <1>1, <1>2, <1>3, <1>4 DEF IInv, RepositoryTypeOK, FilesOK, LoaderOK, RequestOK, StartOK

LEMMA BeginUninstallKeeps == ASSUME NEW t \in Admins, IInv, BeginUninstall(t) PROVE IInv'
<1>a. FilesOK /\ LoaderOK /\ RequestOK /\ StartOK /\ KnownInv /\ OwnInv /\ UploadIsolated /\ ScanInv
  BY Parts DEF IInvParts
<1>b. PICK n \in Names:
        /\ request' = [request EXCEPT ![t] = [NoRequest EXCEPT !.op = "uninstall", !.replace = n,
                                                              !.pc = "uninstall", !.victim = loaded[n]]]
        /\ given' = given \cup {n}
  BY DEF BeginUninstall
<1> DEFINE q == [NoRequest EXCEPT !.op = "uninstall", !.replace = n, !.pc = "uninstall", !.victim = loaded[n]]
<1>c. q \in Request /\ q.op = "uninstall" /\ q.pc = "uninstall"
  <2>1. loaded[n] \in Nat
    BY <1>a DEF LoaderOK
  <2>2. /\ NoRequest \in Request /\ "uninstall" \in Pcs
    BY NoRequestFacts DEF Pcs
  <2> QED
    BY <2>1, <2>2 DEF Request
<1>d. request' = [request EXCEPT ![t] = q]
  BY <1>b
<1> HIDE DEF q
<1>e. request' \in [Admins -> Request] /\ request'[t] = q /\ \A u \in Admins: u # t => request'[u] = request[u]
  BY <1>a, <1>c, <1>d DEF RequestOK
<1>f. /\ UNCHANGED <<files, bundles, loaded, serial, scan, found, phase, crashes, inherited, orphans, dropped>>
      /\ phase = "running"
  BY DEF BeginUninstall, startVars
<1>1. RequestOK' /\ KnownInv' /\ OwnInv' /\ UploadIsolated' /\ ScanInv'
  BY <1>a, <1>c, <1>e, <1>f DEF RequestOK, KnownInv, Known, OwnInv, UploadIsolated, ScanInv
<1>2. FilesOK' /\ LoaderOK'
  BY <1>a, <1>f DEF FilesOK, LoaderOK
<1>3. StartOK'
  BY <1>a, <1>b, <1>f DEF StartOK
<1> QED
  BY <1>1, <1>2, <1>3 DEF IInv, RepositoryTypeOK, FilesOK, LoaderOK, RequestOK, StartOK

\* The new request has a temporary file nobody has.
LEMMA BeginInstallKeeps == ASSUME NEW t \in Admins, IInv, BeginInstall(t) PROVE IInv'
<1>a. FilesOK /\ LoaderOK /\ RequestOK /\ StartOK /\ KnownInv /\ OwnInv /\ UploadIsolated /\ ScanInv
  BY Parts DEF IInvParts
<1>b. PICK n \in Names, v \in Versions, old \in Names \cup {NoName}:
        /\ request' = [request EXCEPT ![t] =
              [op |-> "install", upload |-> [name |-> n, version |-> v, cut |-> "none"],
               replace |-> old, pc |-> "create", file |-> <<"tmp", serial>>, victim |-> 0]]
        /\ given' = given \cup ({old} \ {n, NoName})
  BY DEF BeginInstall
<1> DEFINE f == <<"tmp", serial>>
           q == [op |-> "install", upload |-> [name |-> n, version |-> v, cut |-> "none"],
                 replace |-> old, pc |-> "create", file |-> f, victim |-> 0]
<1>c. /\ serial \in Nat /\ serial \in 0 .. MaxInstalls - 1 /\ serial' = serial + 1
      /\ serial' \in 0 .. MaxInstalls
  BY <1>a, RepositoryAssumption DEF BeginInstall, NextSerial, StartOK
<1>d. f \in TempFiles /\ f \in FileNames /\ f[2] = serial
  BY <1>c DEF TempFiles, FileNames
<1> HIDE DEF f
<1>e. /\ q \in Request /\ q.op = "install" /\ q.pc = "create" /\ q.file = f
      /\ q.upload \in Content /\ q.upload.cut = "none"
  BY <1>d DEF Request, Content, Cuts, Pcs
<1>g. request' = [request EXCEPT ![t] = q]
  BY <1>b DEF f
<1> HIDE DEF q
<1>h. request' \in [Admins -> Request] /\ request'[t] = q /\ \A u \in Admins: u # t => request'[u] = request[u]
  BY <1>a, <1>e, <1>g DEF RequestOK
<1>i. /\ UNCHANGED <<files, bundles, loaded, scan, found, phase, crashes, inherited, orphans, dropped>>
      /\ phase = "running"
  BY DEF BeginInstall, startVars
<1>j. \A g \in TempFiles: g[2] \in Nat
  BY RepositoryAssumption DEF TempFiles
<1>k. \A u \in Admins: request[u].op = "install" /\ request[u].file \in TempFiles => request[u].file[2] < serial
  BY <1>a DEF KnownInv, Known
<1>1. KnownInv'
  <2>1. Known(request[t])'
    BY <1>c, <1>d, <1>e, <1>h DEF Known
  <2>2. ASSUME NEW u \in Admins, u # t PROVE Known(request[u])'
    <3>1. request[u].op = "install" /\ request[u].file \in TempFiles => request[u].file[2] < serial'
      BY <1>c, <1>j, <1>k
    <3> QED
      BY <1>a, <1>h, <2>2, <3>1 DEF KnownInv, Known
  <2> QED
    BY <1>h, <2>1, <2>2 DEF KnownInv
<1>2. OwnInv'
  <2>1. \A u \in Admins: request[u].op = "install" /\ request[u].file \in TempFiles => request[u].file # f
    BY <1>c, <1>d, <1>k
  <2> QED
    BY <1>a, <1>d, <1>e, <1>h, <2>1 DEF OwnInv
<1>3. UploadIsolated'
  BY <1>a, <1>e, <1>h, <1>i DEF UploadIsolated
<1>4. RequestOK' /\ ScanInv' /\ FilesOK' /\ LoaderOK'
  BY <1>a, <1>h, <1>i DEF RequestOK, ScanInv, FilesOK, LoaderOK
<1>5. StartOK'
  BY <1>a, <1>b, <1>c, <1>i DEF StartOK
<1> QED
  BY <1>1, <1>2, <1>3, <1>4, <1>5
     DEF IInv, RepositoryTypeOK, FilesOK, LoaderOK, RequestOK, StartOK

LEMMA ScanFileKeeps == ASSUME NEW f \in FileNames, IInv, ScanFile(f) PROVE IInv'
<1>a. FilesOK /\ LoaderOK /\ RequestOK /\ StartOK /\ KnownInv /\ OwnInv /\ UploadIsolated /\ ScanInv
  BY Parts DEF IInvParts
<1>b. UNCHANGED <<files, bundles, loaded, serial, request, phase, crashes, inherited, orphans, given, dropped>>
  BY DEF ScanFile, ghostVars
<1>c. scan' \subseteq FileNames
  BY <1>a DEF ScanFile, StartOK
<1>d. found' = found \/ (Readable(files[f]) /\ found' = [found EXCEPT ![files[f].name] = f])
  BY DEF ScanFile
<1>e. /\ found' \in [Names -> FileNames \cup {NoFile}]
      /\ \A n \in Names: found'[n] # found[n] => found'[n] = f /\ Readable(files[f])
  BY <1>a, <1>d DEF StartOK
<1>1. ScanInv'
  BY <1>a, <1>b, <1>e DEF ScanInv
<1>2. StartOK'
  BY <1>a, <1>b, <1>c, <1>e DEF StartOK
<1>3. FilesOK' /\ LoaderOK' /\ RequestOK' /\ KnownInv' /\ OwnInv' /\ UploadIsolated'
  BY <1>a, <1>b DEF FilesOK, LoaderOK, RequestOK, KnownInv, Known, OwnInv, UploadIsolated
<1> QED
  BY <1>1, <1>2, <1>3 DEF IInv, RepositoryTypeOK, FilesOK, LoaderOK, RequestOK, StartOK

\* The chosen files, in some order.
LEMMA SequenceOfSet ==
    ASSUME NEW S, IsFiniteSet(S)
    PROVE  /\ SetToSeq(S) \in Seq(S)
           /\ \A x \in S: \E k \in DOMAIN SetToSeq(S): SetToSeq(S)[k] = x
<1> DEFINE n == Cardinality(S)
<1>1. n \in Nat /\ ExistsBijection(1 .. n, S)
  BY FS_CardinalityType
<1>2. PICK b: b \in Bijection(1 .. n, S)
  BY <1>1 DEF ExistsBijection
<1>3. b \in [1 .. n -> S] /\ IsInjective(b)
  BY <1>2 DEF Bijection, Injection, IsInjective
<1>4. SetToSeq(S) \in [1 .. n -> S] /\ IsInjective(SetToSeq(S))
  BY <1>3 DEF SetToSeq
<1> DEFINE s == SetToSeq(S)
<1> HIDE DEF s
<1>5. s \in [1 .. n -> S] /\ IsInjective(s)
  BY <1>4 DEF s
<1>6. s \in Injection(1 .. n, S)
  BY <1>5 DEF Injection, IsInjective
<1>7. IsFiniteSet(1 .. n) /\ Cardinality(1 .. n) = n
  BY <1>1, FS_Interval
<1>8. s \in Surjection(1 .. n, S)
  BY <1>6, <1>7, FS_Injection
<1>9. s \in Seq(S) /\ DOMAIN s = 1 .. n
  BY <1>1, <1>5
<1>10. \A x \in S: \E k \in 1 .. n: s[k] = x
  BY <1>8 DEF Surjection
<1> QED
  BY <1>9, <1>10 DEF s

LEMMA LoadBundlesKeeps == ASSUME IInv, LoadBundles PROVE IInv'
<1>a. FilesOK /\ LoaderOK /\ RequestOK /\ StartOK /\ KnownInv /\ OwnInv /\ UploadIsolated /\ ScanInv
  BY Parts DEF IInvParts
<1>b. UNCHANGED <<files, serial, request, scan, found, crashes, inherited, orphans, given, dropped>>
  BY DEF LoadBundles, ghostVars
<1> DEFINE chosen == {found[n]: n \in {m \in Names: found[m] # NoFile}}
           s == SetToSeq(chosen)
<1>c. IsFiniteSet(chosen)
  <2> DEFINE D == {m \in Names: found[m] # NoFile}
             h == [n \in D |-> found[n]]
  <2>1. IsFiniteSet(D)
    BY RepositoryAssumption, FS_Subset
  <2>2. h \in Surjection(D, chosen)
    BY DEF Surjection
  <2> QED
    BY <2>1, <2>2, FS_Surjection
<1>d. \A f \in chosen: f \in FileNames /\ Readable(files[f])
  BY <1>a DEF LoadBundles, StartOK, ScanInv
<1>e. s \in Seq(chosen) /\ \A x \in chosen: \E k \in DOMAIN s: s[k] = x
  BY <1>c, SequenceOfSet
<1>f. \A n \in Names: found[n] # NoFile => found[n] \in chosen
  OBVIOUS
<1>g. /\ bundles' = [k \in DOMAIN s |-> NewBundle(s[k])]
      /\ loaded' = [n \in Names |-> IF found[n] = NoFile THEN 0 ELSE CHOOSE k \in DOMAIN s: s[k] = found[n]]
      /\ phase' = "running"
  BY DEF LoadBundles
<1> HIDE DEF s, chosen
<1>1. LoaderOK'
  <2>1. DOMAIN s = 1 .. Len(s) /\ Len(s) \in Nat /\ \A k \in DOMAIN s: s[k] \in chosen
    BY <1>e
  <2>2. \A k \in DOMAIN s: NewBundle(s[k]) \in Bundle
    BY <1>a, <1>d, <2>1, NewBundleType
  <2>3. bundles' \in Seq(Bundle) /\ Len(bundles') = Len(s)
    BY <1>g, <2>1, <2>2
  <2>4. \A n \in Names: found[n] # NoFile => (CHOOSE k \in DOMAIN s: s[k] = found[n]) \in DOMAIN s
    BY <1>e, <1>f
  <2>5. loaded' \in [Names -> 0 .. Len(s)]
    BY <1>g, <2>1, <2>4
  <2> QED
    BY <2>3, <2>5 DEF LoaderOK
<1>2. ScanInv' /\ StartOK'
  BY <1>a, <1>b, <1>g DEF ScanInv, StartOK
<1>3. FilesOK' /\ RequestOK' /\ KnownInv' /\ OwnInv' /\ UploadIsolated'
  BY <1>a, <1>b DEF FilesOK, RequestOK, KnownInv, Known, OwnInv, UploadIsolated
<1> QED
  BY <1>1, <1>2, <1>3 DEF IInv, RepositoryTypeOK, FilesOK, LoaderOK, RequestOK, StartOK

LEMMA ChangeStateKeeps == ASSUME NEW i \in DOMAIN bundles, IInv, ChangeState(i) PROVE IInv'
<1>a. FilesOK /\ LoaderOK /\ RequestOK /\ StartOK /\ KnownInv /\ OwnInv /\ UploadIsolated /\ ScanInv
  BY Parts DEF IInvParts
<1>b. UNCHANGED <<files, loaded, serial, request, scan, found, phase, crashes, inherited, orphans, given, dropped>>
  BY DEF ChangeState, startVars, ghostVars
<1>c. PICK m \in Moves: bundles' = [bundles EXCEPT ![i].state = m[2]]
  BY DEF ChangeState
<1>d. m[2] \in BundleStates
  BY DEF Moves, BundleStates
<1>1. LoaderOK'
  BY <1>a, <1>b, <1>c, <1>d, VictimTypes
<1>2. FilesOK' /\ RequestOK' /\ StartOK' /\ KnownInv' /\ OwnInv' /\ UploadIsolated' /\ ScanInv'
  BY <1>a, <1>b
     DEF FilesOK, RequestOK, StartOK, KnownInv, Known, OwnInv, UploadIsolated, ScanInv
<1> QED
  BY <1>1, <1>2 DEF IInv, RepositoryTypeOK, FilesOK, LoaderOK, RequestOK, StartOK

LEMMA NoRequests ==
    ASSUME request = [t \in Admins |-> NoRequest]
    PROVE  RequestOK /\ KnownInv /\ OwnInv /\ UploadIsolated
<1>1. \A t \in Admins: request[t] = NoRequest
  OBVIOUS
<1> QED
  BY <1>1, NoRequestFacts DEF RequestOK, KnownInv, Known, OwnInv, UploadIsolated

LEMMA CrashKeeps == ASSUME IInv, Crash PROVE IInv'
<1>a. FilesOK /\ LoaderOK /\ RequestOK /\ StartOK
  BY Parts DEF IInvParts
<1>b. /\ bundles' = <<>> /\ loaded' = [n \in Names |-> 0]
      /\ request' = [t \in Admins |-> NoRequest]
      /\ found' = [n \in Names |-> NoFile]
      /\ UNCHANGED files
  BY DEF Crash
<1>1. LoaderOK'
  BY <1>b DEF LoaderOK
<1>2. RequestOK' /\ KnownInv' /\ OwnInv' /\ UploadIsolated'
  <2>1. \A t \in Admins: request'[t] = NoRequest
    BY <1>b
  <2> QED
    BY <1>b, <2>1, NoRequestFacts DEF RequestOK, KnownInv, Known, OwnInv, UploadIsolated
<1>3. StartOK'
  <2>1. inherited' = Existing(files) \cap TempFiles /\ scan' = Existing(files)
    BY DEF Crash
  <2>2. \A g \in inherited': g \in FileNames /\ (Readable(files[g]) => files[g].name \in Names)
    BY <1>a, <2>1, NewBundleType DEF Existing
  <2>3. orphans' = orphans \cup {files[f].name: f \in {g \in inherited': Readable(files[g])}}
    BY DEF Crash
  <2>4. orphans' \subseteq Names
    BY <1>a, <2>2, <2>3 DEF StartOK
  <2>5. serial' \in 0 .. MaxInstalls /\ crashes' \in 0 .. MaxCrashes
    BY <1>a, RepositoryAssumption DEF Crash, StartOK
  <2>6. phase' = "scanning" /\ UNCHANGED <<given, dropped>>
    BY DEF Crash
  <2>7. inherited' \subseteq TempFiles /\ scan' \subseteq FileNames
    BY <2>1 DEF Existing
  <2> QED
    BY <1>a, <1>b, <2>4, <2>5, <2>6, <2>7 DEF StartOK
<1>4. ScanInv'
  BY <1>b, NoRequestFacts DEF ScanInv
<1>5. FilesOK'
  BY <1>a, <1>b DEF FilesOK
<1> QED
  BY <1>1, <1>2, <1>3, <1>4, <1>5
     DEF IInv, RepositoryTypeOK, FilesOK, LoaderOK, RequestOK, StartOK

LEMMA Initially == Init => IInv
<1> SUFFICES ASSUME Init PROVE IInv
  OBVIOUS
<1>1. FilesOK
  BY DEF Init, FilesOK, Whole, Content, Cuts
<1>2. LoaderOK
  BY DEF Init, LoaderOK
<1>3. RequestOK /\ KnownInv /\ OwnInv /\ UploadIsolated
  BY NoRequests DEF Init
<1>4. StartOK
  BY RepositoryAssumption DEF Init, StartOK, Existing
<1>5. ScanInv
  BY NoRequestFacts DEF Init, ScanInv
<1> QED
  BY <1>1, <1>2, <1>3, <1>4, <1>5
     DEF IInv, RepositoryTypeOK, FilesOK, LoaderOK, RequestOK, StartOK

LEMMA ServeKeeps == ASSUME NEW t \in Admins, IInv, Serve(t) PROVE IInv'
  BY BeginInstallKeeps, BeginUninstallKeeps, CreateFileKeeps, CopyPartKeeps, CopyEndKeeps,
     ParseKeeps,
     CheckExistingKeeps, FindVictimKeeps, LookIfActiveKeeps, StopVictimKeeps, VictimStoppedKeeps,
     CheckUninstallKeeps, UnloadKeeps, MarkUninstalledKeeps, RenameKeeps, LoadKeeps, CleanupKeeps
     DEF Serve

LEMMA Inductive == IInv /\ [Next]_vars => IInv'
<1> SUFFICES ASSUME IInv, [Next]_vars PROVE IInv'
  OBVIOUS
<1>1. CASE \E f \in FileNames: ScanFile(f)
  BY <1>1, ScanFileKeeps
<1>2. CASE LoadBundles
  BY <1>2, LoadBundlesKeeps
<1>3. CASE \E t \in Admins: Serve(t)
  BY <1>3, ServeKeeps
<1>4. CASE \E i \in DOMAIN bundles: ChangeState(i)
  BY <1>4, ChangeStateKeeps
<1>5. CASE Crash
  BY <1>5, CrashKeeps
<1>6. CASE UNCHANGED vars
  BY <1>6 DEF vars, startVars, ghostVars, IInv, RepositoryTypeOK, KnownInv, Known, OwnInv,
         UploadIsolated, ScanInv
<1> QED
  BY <1>1, <1>2, <1>3, <1>4, <1>5, <1>6 DEF Next

LEMMA Always == Spec => []IInv
  BY Initially, Inductive, PTL DEF Spec

-----------------------------------------------------------------------------
(* Types and uploads *)

\* Every variable of the repository keeps its type, also through crashes.
THEOREM TypesKept == Spec => []RepositoryTypeOK
<1>1. IInv => RepositoryTypeOK
  BY DEF IInv
<1> QED
  BY <1>1, Always, PTL

\* However many administrators install whatever they like at once, nobody writes
\* to the temporary file of another: what a thread parses, renames and loads is
\* its own upload, also after a crash that set the counter of names back.
THEOREM UploadsStayIsolated == Spec => []UploadIsolated
<1>1. IInv => UploadIsolated
  BY DEF IInv
<1> QED
  BY <1>1, Always, PTL

-----------------------------------------------------------------------------
(* What loadBundles() has found so far *)

Accepted(f) == Readable(files[f]) /\ <<files[f].name, files[f].version>> \notin Rejected

\* Of the files it has looked at, the highest version for each name.
FoundInv ==
    phase = "scanning" =>
      \A n \in Names:
        /\ found[n] # NoFile => Accepted(found[n]) /\ files[found[n]].name = n
        /\ \A f \in FileNames \ scan:
             Accepted(f) /\ files[f].name = n
               => found[n] # NoFile /\ files[f].version <= files[found[n]].version

LEMMA Contents ==
    ASSUME FilesOK, NEW f \in FileNames, files[f] # Absent
    PROVE  /\ files[f] \in Content
           /\ files[f].name \in Names /\ files[f].version \in Versions /\ files[f].version \in Nat
<1>1. files[f] \in Content
  BY DEF FilesOK
<1> QED
  BY <1>1, RepositoryAssumption DEF Content

\* No request is served before loadBundles() has returned.
LEMMA ServeRuns ==
    ASSUME NEW t \in Admins, IInv, Serve(t)
    PROVE  phase = "running" /\ UNCHANGED startVars
<1>1. CASE BeginInstall(t) \/ BeginUninstall(t)
  BY <1>1 DEF BeginInstall, BeginUninstall
<1>2. CASE ~(BeginInstall(t) \/ BeginUninstall(t))
  <2>1. request[t].pc # "idle" /\ UNCHANGED startVars
    BY <1>2 DEF Serve, At, CreateFile, CopyPart, CopyEnd, Parse, CheckExisting, FindVictim,
       LookIfActive, StopVictim, VictimStopped, CheckUninstall, Unload, MarkUninstalled, Rename,
       Load, Cleanup
  <2>2. KnownInv /\ ScanInv /\ StartOK
    BY Parts DEF IInvParts
  <2> QED
    BY <2>1, <2>2 DEF KnownInv, Known, ScanInv, StartOK
<1> QED
  BY <1>1, <1>2

LEMMA ScanFileFinds ==
    ASSUME NEW g \in FileNames, IInv, FoundInv, ScanFile(g)
    PROVE  FoundInv'
<1>1. FilesOK /\ StartOK
  BY Parts DEF IInvParts
<1>2. /\ phase = "scanning" /\ scan' = scan \ {g}
      /\ IF Accepted(g) /\ Supersedes(g, found[files[g].name])
           THEN found' = [found EXCEPT ![files[g].name] = g]
           ELSE UNCHANGED found
      /\ UNCHANGED <<files, phase>>
  BY DEF ScanFile, Accepted
<1>3. \A f: Accepted(f)' <=> Accepted(f)
  BY <1>2 DEF Accepted, Readable
<1>4. \A f \in FileNames: Accepted(f) => files[f].name \in Names /\ files[f].version \in Nat
  BY <1>1, Contents DEF Accepted, Readable
<1>5. found \in [Names -> FileNames \cup {NoFile}] /\ NoFile \notin FileNames
  <2>1. \A f \in FileNames: f # <<>>
    BY DEF FileNames, TempFiles
  <2> QED
    BY <1>1, <2>1 DEF StartOK, NoFile
<1> SUFFICES ASSUME NEW n \in Names
             PROVE  /\ found'[n] # NoFile => Accepted(found'[n]) /\ files[found'[n]].name = n
                    /\ \A f \in FileNames \ scan':
                         Accepted(f) /\ files[f].name = n
                           => found'[n] # NoFile /\ files[f].version <= files[found'[n]].version
  BY <1>2, <1>3 DEF FoundInv
<1>6. /\ found[n] # NoFile => Accepted(found[n]) /\ files[found[n]].name = n
      /\ \A f \in FileNames \ scan:
           Accepted(f) /\ files[f].name = n
             => found[n] # NoFile /\ files[f].version <= files[found[n]].version
  BY <1>2 DEF FoundInv
<1>7. CASE Accepted(g) /\ files[g].name = n
  <2>1. CASE Supersedes(g, found[n])
    <3>1. found'[n] = g
      BY <1>2, <1>5, <1>7, <2>1
    <3>2. found[n] = NoFile \/ files[found[n]].version <= files[g].version
      BY <2>1 DEF Supersedes
    <3>3. ASSUME NEW f \in FileNames \ scan', Accepted(f), files[f].name = n
          PROVE  files[f].version <= files[g].version
      <4>1. f = g \/ (found[n] # NoFile /\ files[f].version <= files[found[n]].version)
        BY <1>2, <1>6, <3>3
      <4>2. found[n] # NoFile => files[found[n]].version \in Nat
        BY <1>4, <1>5, <1>6
      <4> QED
        BY <1>4, <1>7, <3>2, <3>3, <4>1, <4>2
    <3> QED
      BY <1>5, <1>7, <3>1, <3>3
  <2>2. CASE ~Supersedes(g, found[n])
    <3>1. found' = found /\ found[n] # NoFile /\ ~(files[found[n]].version <= files[g].version)
      BY <1>2, <1>7, <2>2 DEF Supersedes
    <3>2. files[found[n]].version \in Nat /\ files[g].version \in Nat
      BY <1>4, <1>5, <1>6, <1>7, <3>1
    <3>3. files[g].version <= files[found[n]].version
      BY <3>1, <3>2
    <3> QED
      BY <1>2, <1>6, <3>1, <3>3
  <2> QED
    BY <2>1, <2>2
<1>8. CASE ~(Accepted(g) /\ files[g].name = n)
  <2>1. found'[n] = found[n]
    BY <1>2, <1>4, <1>5, <1>8
  <2> QED
    BY <1>2, <1>6, <1>8, <2>1
<1> QED
  BY <1>7, <1>8

FoundAll == IInv /\ FoundInv

LEMMA FoundInductive == FoundAll /\ [Next]_vars => FoundAll'
<1> SUFFICES ASSUME IInv, FoundInv, [Next]_vars PROVE FoundInv'
  BY Inductive DEF FoundAll
<1>1. CASE \E f \in FileNames: ScanFile(f)
  BY <1>1, ScanFileFinds
<1>2. CASE LoadBundles
  BY <1>2 DEF LoadBundles, FoundInv
<1>3. CASE \E t \in Admins: Serve(t)
  BY <1>3, ServeRuns DEF startVars, FoundInv
<1>4. CASE \E i \in DOMAIN bundles: ChangeState(i)
  BY <1>4 DEF ChangeState, startVars, FoundInv, Accepted, Readable
<1>5. CASE Crash
  BY <1>5 DEF Crash, FoundInv, Accepted, Readable, Existing
<1>6. CASE UNCHANGED vars
  BY <1>6 DEF vars, startVars, FoundInv, Accepted, Readable
<1> QED
  BY <1>1, <1>2, <1>3, <1>4, <1>5, <1>6 DEF Next

LEMMA FoundInitially == Init => FoundInv
BY DEF Init, FoundInv, Accepted, Readable, Existing

\* The bundles loadBundles() makes are those it has found.
LEMMA LoadsFound ==
    ASSUME IInv, FoundInv, LoadBundles
    PROVE  /\ \A n \in Names: IF found[n] = NoFile THEN loaded'[n] = 0
                              ELSE loaded'[n] # 0 /\ bundles'[loaded'[n]] = NewBundle(found[n])
           /\ \A k \in DOMAIN bundles': \E n \in Names: found[n] # NoFile /\ bundles'[k] = NewBundle(found[n])
<1> DEFINE chosen == {found[n]: n \in {m \in Names: found[m] # NoFile}}
           s == SetToSeq(chosen)
<1>1. IsFiniteSet(chosen)
  <2> DEFINE D == {m \in Names: found[m] # NoFile}
             h == [n \in D |-> found[n]]
  <2>1. IsFiniteSet(D)
    BY RepositoryAssumption, FS_Subset
  <2>2. h \in Surjection(D, chosen)
    BY DEF Surjection
  <2> QED
    BY <2>1, <2>2, FS_Surjection
<1>2. s \in Seq(chosen) /\ \A x \in chosen: \E k \in DOMAIN s: s[k] = x
  BY <1>1, SequenceOfSet
<1>3. /\ bundles' = [k \in DOMAIN s |-> NewBundle(s[k])]
      /\ loaded' = [n \in Names |-> IF found[n] = NoFile THEN 0 ELSE CHOOSE k \in DOMAIN s: s[k] = found[n]]
  BY DEF LoadBundles
<1>4. \A n \in Names: found[n] # NoFile => found[n] \in chosen
  OBVIOUS
<1>5. \A f \in chosen: \E n \in Names: found[n] # NoFile /\ f = found[n]
  OBVIOUS
<1> HIDE DEF s, chosen
<1>6. DOMAIN s = 1 .. Len(s) /\ Len(s) \in Nat /\ \A k \in DOMAIN s: s[k] \in chosen
  BY <1>2
<1>7. ASSUME NEW n \in Names, found[n] # NoFile
      PROVE  loaded'[n] # 0 /\ bundles'[loaded'[n]] = NewBundle(found[n])
  <2>1. loaded'[n] \in DOMAIN s /\ s[loaded'[n]] = found[n]
    BY <1>2, <1>3, <1>4, <1>7
  <2> QED
    BY <1>3, <1>6, <2>1
<1>8. \A n \in Names: found[n] = NoFile => loaded'[n] = 0
  BY <1>3
<1>9. \A k \in DOMAIN bundles': \E n \in Names: found[n] # NoFile /\ bundles'[k] = NewBundle(found[n])
  BY <1>3, <1>5, <1>6
<1> QED
  BY <1>7, <1>8, <1>9

\* Whatever files there are and in whatever order the directory lists them, a start
\* loads the highest version the filter accepts of each bundle (loadBundles()).
THEOREM StartsLoadTheLatest == Spec => LatestIsLoaded
<1>1. FoundAll /\ [Next]_vars => [phase' = "running" /\ phase = "scanning" => HighestLoaded]_vars
  <2> SUFFICES ASSUME IInv, FoundInv, Next, phase' = "running", phase = "scanning"
               PROVE  HighestLoaded
    BY DEF FoundAll
  <2>1. LoadBundles
    <3>1. ~ \E t \in Admins: Serve(t)
      BY ServeRuns
    <3> QED
      BY <3>1 DEF Next, ScanFile, ChangeState, startVars, Crash
  <2>2. FilesOK /\ StartOK
    BY Parts DEF IInvParts
  <2>3. scan = {}
    BY <2>1 DEF LoadBundles
  <2> SUFFICES ASSUME NEW n \in Names
               PROVE  LET versions == {files[f].version: f \in {g \in FileNames:
                                         /\ Readable(files[g])
                                         /\ files[g].name = n
                                         /\ <<n, files[g].version>> \notin Rejected}}
                      IN  IF versions = {}
                            THEN loaded'[n] = 0
                            ELSE /\ loaded'[n] # 0
                                 /\ bundles'[loaded'[n]].version \in versions
                                 /\ \A v \in versions: v <= bundles'[loaded'[n]].version
    BY DEF HighestLoaded
  <2> DEFINE G == {g \in FileNames: Accepted(g) /\ files[g].name = n}
             versions == {files[f].version: f \in G}
  <2>4. G = {g \in FileNames: /\ Readable(files[g])
                              /\ files[g].name = n
                              /\ <<n, files[g].version>> \notin Rejected}
    BY DEF Accepted
  <2>5. /\ found[n] # NoFile => Accepted(found[n]) /\ files[found[n]].name = n
        /\ \A f \in G: found[n] # NoFile /\ files[f].version <= files[found[n]].version
    BY <2>3 DEF FoundInv
  <2>6. found[n] # NoFile => found[n] \in G
    BY <2>2, <2>5 DEF StartOK
  <2>7. IF found[n] = NoFile THEN loaded'[n] = 0
        ELSE loaded'[n] # 0 /\ bundles'[loaded'[n]].version = files[found[n]].version
    <3>1. IF found[n] = NoFile THEN loaded'[n] = 0
          ELSE loaded'[n] # 0 /\ bundles'[loaded'[n]] = NewBundle(found[n])
      BY <2>1, LoadsFound
    <3>2. \A f: NewBundle(f).version = files[f].version
      BY DEF NewBundle
    <3> QED
      BY <3>1, <3>2
  <2>8. IF versions = {} THEN loaded'[n] = 0
        ELSE /\ loaded'[n] # 0
             /\ bundles'[loaded'[n]].version \in versions
             /\ \A v \in versions: v <= bundles'[loaded'[n]].version
    BY <2>5, <2>6, <2>7
  <2> QED
    BY <2>4, <2>8
<1>2. Init => FoundAll
  BY Initially, FoundInitially DEF FoundAll
<1> QED
  BY <1>1, <1>2, FoundInductive, PTL DEF Spec, LatestIsLoaded

-----------------------------------------------------------------------------
(* The directory, the loader's map and the requests *)

Removing == {"active", "stop", "stopping", "uninstall", "unload"}

\* A file under its final name is the bundle the name says.
NamedInv ==
    /\ \A n \in Names, v \in Versions:
         LET c == files[<<n, v>>] IN c # Absent => c.name = n /\ c.version = v
    /\ \A k \in DOMAIN bundles:
         LET e == bundles[k] IN e.file \in TempFiles \/ e.file = <<e.name, e.version>>

\* The map says where a bundle is, and its file is there.
LoadedInv ==
    \A n \in Names: loaded[n] # 0 =>
      LET e == bundles[loaded[n]] IN
        e.name = n /\ (e.file \in TempFiles \/ files[e.file] # Absent)

\* A temporary file was left by a crash, or an installation has it.
TempInv ==
    \A f \in TempFiles: files[f] # Absent =>
      f \in inherited \/ \E t \in Admins: request[t].op = "install" /\ request[t].file = f

\* Administrators work on different bundles.
ApartInv ==
    \A t, u \in Admins: t # u => Concerned(request[t]) \cap Concerned(request[u]) = {}

\* What a request is about to remove, and that nothing of the name it installs is
\* loaded once it is past its check and has removed the old version.
OrderAt(r, pc) ==
    /\ pc \in Removing \cup {"mark"} =>
         r.victim \in DOMAIN bundles /\ bundles[r.victim].name = r.replace
    /\ r.op = "install" =>
         /\ pc = "load" \/ (pc = "cleanup" /\ r.file \notin TempFiles)
              => r.file = FinalName(r.upload) /\ loaded[r.upload.name] = 0
         /\ pc \in {"mark", "rename"} => loaded[r.upload.name] = 0
         /\ pc \in Removing \cup {"find"} /\ r.replace # r.upload.name
              => loaded[r.upload.name] = 0

OrderOK(r) == OrderAt(r, r.pc)

OrderInv == \A t \in Admins: OrderOK(request[t])

AgreeInv == NamedInv /\ LoadedInv /\ TempInv /\ ApartInv /\ OrderInv

\* Bundle objects stay what they are, but for their states.
BundlesStay ==
    \A k \in DOMAIN bundles:
      /\ k \in DOMAIN bundles'
      /\ bundles'[k].name = bundles[k].name
      /\ bundles'[k].version = bundles[k].version
      /\ bundles'[k].file = bundles[k].file

LEMMA Indices ==
    ASSUME LoaderOK
    PROVE  /\ DOMAIN bundles = 1 .. Len(bundles) /\ Len(bundles) \in Nat
           /\ \A k \in DOMAIN bundles: bundles[k] \in Bundle
           /\ \A n \in Names: loaded[n] # 0 => loaded[n] \in DOMAIN bundles
<1>1. /\ DOMAIN bundles = 1 .. Len(bundles) /\ Len(bundles) \in Nat
      /\ bundles \in [1 .. Len(bundles) -> Bundle]
  BY DEF LoaderOK
<1>2. \A n \in Names: loaded[n] \in 0 .. Len(bundles)
  BY DEF LoaderOK
<1> QED
  BY <1>1, <1>2

LEMMA StatesStay ==
    ASSUME NEW i, NEW state, LoaderOK, bundles' = [bundles EXCEPT ![i].state = state]
    PROVE  BundlesStay /\ DOMAIN bundles' = DOMAIN bundles
<1>1. \A k \in DOMAIN bundles: bundles[k] \in Bundle
  BY Indices
<1>2. \A k \in DOMAIN bundles: bundles'[k] = IF k = i THEN [bundles[k] EXCEPT !.state = state] ELSE bundles[k]
  <2>1. bundles \in [1 .. Len(bundles) -> Bundle] /\ DOMAIN bundles = 1 .. Len(bundles)
    BY DEF LoaderOK
  <2> QED
    BY <2>1
<1>3. DOMAIN bundles' = DOMAIN bundles
  OBVIOUS
<1>4. ASSUME NEW k \in DOMAIN bundles
      PROVE  /\ bundles'[k].name = bundles[k].name
             /\ bundles'[k].version = bundles[k].version
             /\ bundles'[k].file = bundles[k].file
  <2>1. PICK b \in Bundle: b = bundles[k]
    BY <1>1
  <2>2. [b EXCEPT !.state = state].name = b.name /\ [b EXCEPT !.state = state].version = b.version
        /\ [b EXCEPT !.state = state].file = b.file
    BY DEF Bundle
  <2> QED
    BY <1>2, <2>1, <2>2
<1> QED
  BY <1>3, <1>4 DEF BundlesStay

\* One administrator's request changes.
LEMMA ApartStep ==
    ASSUME NEW t \in Admins, NEW q, RequestOK, ApartInv, request' = [request EXCEPT ![t] = q],
           \A u \in Admins: u # t => Concerned(q) \cap Concerned(request[u]) = {}
    PROVE  ApartInv'
<1>1. request'[t] = q /\ \A u \in Admins: u # t => request'[u] = request[u]
  BY DEF RequestOK
<1> SUFFICES ASSUME NEW u \in Admins, NEW v \in Admins, u # v
             PROVE  Concerned(request'[u]) \cap Concerned(request'[v]) = {}
  BY DEF ApartInv, Concerned
<1>2. CASE u = t
  BY <1>1, <1>2
<1>3. CASE v = t
  BY <1>1, <1>3
<1>4. CASE u # t /\ v # t
  BY <1>1, <1>4 DEF ApartInv
<1> QED
  BY <1>2, <1>3, <1>4

\* It goes on with the same bundles, or ends.
Kin(r, q) == q.op = r.op /\ q.upload = r.upload /\ q.replace = r.replace

LEMMA KinApart ==
    ASSUME NEW t \in Admins, NEW q, ApartInv, q = NoRequest \/ Kin(request[t], q)
    PROVE  \A u \in Admins: u # t => Concerned(q) \cap Concerned(request[u]) = {}
<1>1. Concerned(NoRequest) = {}
  BY DEF Concerned, NoRequest
<1>2. Kin(request[t], q) => Concerned(q) = Concerned(request[t])
  BY DEF Kin, Concerned
<1> QED
  BY <1>1, <1>2 DEF ApartInv

\* It loads no bundle of another request.
LEMMA OrderStep ==
    ASSUME NEW t \in Admins, NEW q, RequestOK, KnownInv, ApartInv, OrderInv, BundlesStay,
           request' = [request EXCEPT ![t] = q], OrderOK(q)',
           \A n \in Names: n \notin Concerned(request[t]) /\ loaded[n] = 0 => loaded'[n] = 0
    PROVE  OrderInv'
<1>1. request'[t] = q /\ \A u \in Admins: u # t => request'[u] = request[u]
  BY DEF RequestOK
<1> SUFFICES ASSUME NEW u \in Admins PROVE OrderOK(request[u])'
  BY DEF OrderInv
<1>2. CASE u = t
  BY <1>1, <1>2 DEF OrderOK, OrderAt
<1>3. CASE u # t
  <2>0. PICK r: r = request[u]
    OBVIOUS
  <2>1. OrderOK(r) /\ request'[u] = r
    BY <1>1, <1>3, <2>0 DEF OrderInv
  <2>2. r.op = "install" => r.upload.name \in Names /\ (loaded[r.upload.name] = 0 => loaded'[r.upload.name] = 0)
    <3>1. ASSUME r.op = "install"
          PROVE  r.upload.name \in Names /\ r.upload.name \in Concerned(r)
      <4>1. r.upload \in Content
        BY <2>0, <3>1 DEF KnownInv, Known
      <4> QED
        BY <3>1, <4>1, RepositoryAssumption DEF Content, Concerned
    <3> QED
      BY <1>3, <2>0, <3>1 DEF ApartInv
  <2>3. OrderOK(r)'
    BY <2>1, <2>2 DEF OrderOK, OrderAt, BundlesStay
  <2> QED
    BY <2>1, <2>3 DEF OrderOK, OrderAt
<1> QED
  BY <1>2, <1>3

\* No temporary file appears but the request's own, and that one stays its own.
TempsOwned(t, q) ==
    \A f \in TempFiles: files'[f] # Absent =>
      /\ files[f] # Absent \/ (q.op = "install" /\ q.file = f)
      /\ request[t].op = "install" /\ request[t].file = f => q.op = "install" /\ q.file = f

\* What comes under a final name is the bundle the name says.
NamesHonest ==
    \A n \in Names, v \in Versions: LET c == files'[<<n, v>>] IN
      c \in {files[<<n, v>>], Absent} \/ (c.name = n /\ c.version = v)

\* No bundle loses its file and stays in the map.
LoadedKept ==
    /\ \A n \in Names: loaded'[n] \in {loaded[n], 0}
    /\ \A n \in Names, v \in Versions:
         files[<<n, v>>] # Absent /\ loaded'[n] # 0 => files'[<<n, v>>] # Absent

LEMMA TempStep ==
    ASSUME NEW t \in Admins, NEW q, RequestOK, TempInv, inherited' = inherited,
           request' = [request EXCEPT ![t] = q], TempsOwned(t, q)
    PROVE  TempInv'
<1>1. request'[t] = q /\ \A u \in Admins: u # t => request'[u] = request[u]
  BY DEF RequestOK
<1> SUFFICES ASSUME NEW f \in TempFiles, files'[f] # Absent, f \notin inherited
             PROVE  \E u \in Admins: request'[u].op = "install" /\ request'[u].file = f
  BY DEF TempInv
<1>2. CASE q.op = "install" /\ q.file = f
  BY <1>1, <1>2
<1>3. CASE ~(q.op = "install" /\ q.file = f)
  BY <1>1, <1>3 DEF TempInv, TempsOwned
<1> QED
  BY <1>2, <1>3

LEMMA NamedStep ==
    ASSUME NamedInv, BundlesStay, DOMAIN bundles' = DOMAIN bundles, NamesHonest
    PROVE  NamedInv'
BY DEF NamedInv, BundlesStay, NamesHonest

LEMMA LoadedStep ==
    ASSUME LoaderOK, NamedInv, LoadedInv, BundlesStay, LoadedKept
    PROVE  LoadedInv'
<1> SUFFICES ASSUME NEW n \in Names, loaded'[n] # 0
             PROVE  /\ bundles'[loaded'[n]].name = n
                    /\ \/ bundles'[loaded'[n]].file \in TempFiles
                       \/ files'[bundles'[loaded'[n]].file] # Absent
  BY DEF LoadedInv
<1>1. PICK k \in DOMAIN bundles: k = loaded'[n] /\ k = loaded[n] /\ bundles[k] \in Bundle
  BY Indices DEF LoadedKept
<1>2. bundles[k].name = n /\ (bundles[k].file \in TempFiles \/ files[bundles[k].file] # Absent)
  BY <1>1 DEF LoadedInv
<1>3. bundles[k].file \in TempFiles \/ bundles[k].file = <<n, bundles[k].version>>
  BY <1>2 DEF NamedInv
<1>4. bundles[k].version \in Versions
  BY <1>1 DEF Bundle
<1>5. bundles'[k].name = n /\ bundles'[k].file = bundles[k].file
  BY <1>2 DEF BundlesStay
<1> QED
  BY <1>1, <1>2, <1>3, <1>4, <1>5 DEF LoadedKept

LEMMA StepAgrees ==
    ASSUME NEW t \in Admins, NEW q, IInv, AgreeInv, BundlesStay, DOMAIN bundles' = DOMAIN bundles,
           inherited' = inherited, request' = [request EXCEPT ![t] = q], OrderOK(q)',
           \A u \in Admins: u # t => Concerned(q) \cap Concerned(request[u]) = {},
           LoadedKept, NamesHonest, TempsOwned(t, q)
    PROVE  AgreeInv'
<1>1. LoaderOK /\ RequestOK /\ KnownInv
  BY Parts DEF IInvParts
<1>2. NamedInv /\ LoadedInv /\ TempInv /\ ApartInv /\ OrderInv
  BY DEF AgreeInv
<1>3. NamedInv'
  BY <1>2, NamedStep
<1>4. LoadedInv'
  BY <1>1, <1>2, LoadedStep
<1>5. TempInv'
  BY <1>1, <1>2, TempStep
<1>6. ApartInv'
  BY <1>1, <1>2, ApartStep
<1>7. \A n \in Names: n \notin Concerned(request[t]) /\ loaded[n] = 0 => loaded'[n] = 0
  BY DEF LoadedKept
<1>8. OrderInv'
  BY <1>1, <1>2, <1>7, OrderStep
<1> QED
  BY <1>3, <1>4, <1>5, <1>6, <1>8 DEF AgreeInv

\* A step that changes neither the directory nor the map.
LEMMA QuietAgrees ==
    ASSUME NEW t \in Admins, NEW q, IInv, AgreeInv, BundlesStay, DOMAIN bundles' = DOMAIN bundles,
           UNCHANGED <<files, loaded, inherited>>, request' = [request EXCEPT ![t] = q], OrderOK(q),
           \/ q = NoRequest /\ request[t].op # "install"
           \/ Kin(request[t], q) /\ q.file = request[t].file
    PROVE  AgreeInv'
<1>1. OrderOK(q)'
  BY DEF OrderOK, OrderAt, BundlesStay
<1>2. \A u \in Admins: u # t => Concerned(q) \cap Concerned(request[u]) = {}
  BY KinApart DEF AgreeInv
<1>3. LoadedKept /\ NamesHonest
  BY DEF LoadedKept, NamesHonest
<1>4. TempsOwned(t, q)
  BY DEF TempsOwned, Kin
<1> QED
  BY <1>1, <1>2, <1>3, <1>4, StepAgrees

LEMMA NoRequestOrder == OrderOK(NoRequest)
  BY DEF OrderOK, OrderAt, NoRequest, Removing

LEMMA AtPc ==
    ASSUME NEW r \in Request, NEW p \in Pcs
    PROVE  LET q == [r EXCEPT !.pc = p] IN
             Kin(r, q) /\ q.file = r.file /\ q.pc = p /\ q.victim = r.victim /\ (OrderAt(r, p) => OrderOK(q))
<1> DEFINE q == [r EXCEPT !.pc = p]
<1>1. Kin(r, q) /\ q.file = r.file /\ q.pc = p /\ q.victim = r.victim
  BY DEF Request, Kin
<1> HIDE DEF q
<1>2. OrderAt(r, p) => OrderOK(q)
  BY <1>1 DEF OrderOK, OrderAt, Kin
<1> QED
  BY <1>1, <1>2 DEF q

LEMMA GoneAgrees ==
    ASSUME NEW t \in Admins, NEW p \in Pcs, IInv, AgreeInv, BundlesStay,
           DOMAIN bundles' = DOMAIN bundles,
           UNCHANGED <<files, loaded, inherited>>, Goto(t, p), OrderAt(request[t], p)
    PROVE  AgreeInv'
<1>1. request[t] \in Request
  BY Parts DEF IInvParts, RequestOK
<1>2. PICK q: q = [request[t] EXCEPT !.pc = p]
  OBVIOUS
<1>3. Kin(request[t], q) /\ q.file = request[t].file /\ OrderOK(q)
  BY <1>1, <1>2, AtPc
<1>4. request' = [request EXCEPT ![t] = q]
  BY <1>2 DEF Goto
<1> QED
  BY <1>3, <1>4, QuietAgrees

LEMMA EndedAgrees ==
    ASSUME NEW t \in Admins, IInv, AgreeInv, BundlesStay, DOMAIN bundles' = DOMAIN bundles,
           UNCHANGED <<files, loaded, inherited>>, End(t), request[t].op # "install"
    PROVE  AgreeInv'
<1>1. PICK q: q = NoRequest
  OBVIOUS
<1>2. request' = [request EXCEPT ![t] = q] /\ OrderOK(q)
  BY <1>1, NoRequestOrder DEF End
<1> QED
  BY <1>1, <1>2, QuietAgrees

LEMMA ThrownAgrees ==
    ASSUME NEW t \in Admins, IInv, AgreeInv, BundlesStay, DOMAIN bundles' = DOMAIN bundles,
           UNCHANGED <<files, loaded, inherited>>, Throw(t)
    PROVE  AgreeInv'
<1>1. CASE request[t].op = "install"
  <2>1. Known(request[t]) /\ OrderOK(request[t])
    BY Parts DEF IInvParts, KnownInv, AgreeInv, OrderInv
  <2>2. OrderAt(request[t], "cleanup")
    BY <1>1, <2>1 DEF OrderOK, OrderAt, Known, Removing
  <2> QED
    BY <1>1, <2>2, GoneAgrees DEF Throw, Pcs
<1>2. CASE request[t].op # "install"
  BY <1>2, EndedAgrees DEF Throw
<1> QED
  BY <1>1, <1>2

LEMMA SameBundles == bundles' = bundles => BundlesStay /\ DOMAIN bundles' = DOMAIN bundles
  BY DEF BundlesStay

LEMMA ParseAgrees == ASSUME NEW t \in Admins, IInv, AgreeInv, Parse(t) PROVE AgreeInv'
<1>1. BundlesStay /\ DOMAIN bundles' = DOMAIN bundles /\ UNCHANGED <<files, loaded, inherited>>
  BY SameBundles DEF Parse, startVars
<1>2. OrderAt(request[t], "check")
  BY DEF OrderAt, Removing
<1> QED
  BY <1>1, <1>2, GoneAgrees, ThrownAgrees DEF Parse, Pcs

LEMMA CheckExistingAgrees ==
    ASSUME NEW t \in Admins, IInv, AgreeInv, CheckExisting(t)
    PROVE  AgreeInv'
<1>1. BundlesStay /\ DOMAIN bundles' = DOMAIN bundles /\ UNCHANGED <<files, loaded, inherited>>
  BY SameBundles DEF CheckExisting, startVars
<1>2. Known(request[t]) /\ request[t].pc = "check"
  BY Parts DEF IInvParts, KnownInv, CheckExisting, At
<1>3. request[t].upload.name # NoName
  BY <1>2, RepositoryAssumption DEF Known, Content
<1>4. CASE request[t].replace # request[t].upload.name /\ loaded[request[t].upload.name] # 0
  BY <1>1, <1>4, ThrownAgrees DEF CheckExisting
<1>5. CASE ~(request[t].replace # request[t].upload.name /\ loaded[request[t].upload.name] # 0)
  <2>1. CASE request[t].replace = NoName
    <3>1. OrderAt(request[t], "rename")
      BY <1>3, <1>5, <2>1 DEF OrderAt, Removing
    <3> QED
      BY <1>1, <1>5, <2>1, <3>1, GoneAgrees DEF CheckExisting, Pcs
  <2>2. CASE request[t].replace # NoName
    <3>1. OrderAt(request[t], "find")
      BY <1>3, <1>5, <2>2 DEF OrderAt, Removing
    <3> QED
      BY <1>1, <1>5, <2>2, <3>1, GoneAgrees DEF CheckExisting, Pcs
  <2> QED
    BY <2>1, <2>2
<1> QED
  BY <1>4, <1>5

LEMMA FindVictimAgrees == ASSUME NEW t \in Admins, IInv, AgreeInv, FindVictim(t) PROVE AgreeInv'
<1>a. BundlesStay /\ DOMAIN bundles' = DOMAIN bundles /\ UNCHANGED <<files, loaded, inherited>>
  BY SameBundles DEF FindVictim, startVars
<1>b. LoaderOK /\ Known(request[t]) /\ request[t] \in Request /\ OrderOK(request[t]) /\ LoadedInv
  BY Parts DEF IInvParts, KnownInv, RequestOK, AgreeInv, OrderInv
<1>1. PICK r: r = request[t]
  OBVIOUS
<1>2. PICK i: i = loaded[r.replace]
  OBVIOUS
<1>3. PICK p \in Pcs: p = IF i = 0 THEN "rename" ELSE "active"
  BY DEF Pcs
<1>4. r.pc = "find" /\ r.op = "install" /\ r.replace \in Names
  BY <1>b, <1>1 DEF FindVictim, At, Known
<1>5. PICK q: q = [r EXCEPT !.victim = i, !.pc = p]
  OBVIOUS
<1>6. request' = [request EXCEPT ![t] = q]
  BY <1>1, <1>2, <1>3, <1>5 DEF FindVictim
<1>7. Kin(r, q) /\ q.file = r.file /\ q.pc = p /\ q.victim = i
  BY <1>b, <1>1, <1>5 DEF Request, Kin
<1>8. i # 0 => i \in DOMAIN bundles /\ bundles[i].name = r.replace
  BY <1>b, <1>2, <1>4, Indices DEF LoadedInv
<1>9. r.replace # r.upload.name => loaded[r.upload.name] = 0
  BY <1>b, <1>1, <1>4 DEF OrderOK, OrderAt
<1>10. OrderOK(q)
  BY <1>2, <1>3, <1>7, <1>8, <1>9 DEF OrderOK, OrderAt, Kin, Removing
<1> QED
  BY <1>a, <1>1, <1>6, <1>7, <1>10, QuietAgrees

\* From one step of a removal to the next.
LEMMA RemovalOrder ==
    ASSUME NEW t \in Admins, AgreeInv, request[t].pc \in Removing, NEW p \in Removing
    PROVE  OrderAt(request[t], p) /\ p \in Pcs
<1>1. OrderAt(request[t], request[t].pc)
  BY DEF AgreeInv, OrderInv, OrderOK
<1> QED
  BY <1>1 DEF OrderAt, Removing, Pcs

LEMMA LookIfActiveAgrees ==
    ASSUME NEW t \in Admins, IInv, AgreeInv, LookIfActive(t)
    PROVE  AgreeInv'
<1>1. BundlesStay /\ DOMAIN bundles' = DOMAIN bundles /\ UNCHANGED <<files, loaded, inherited>>
  BY SameBundles DEF LookIfActive, startVars
<1>2. request[t].pc \in Removing
  BY DEF LookIfActive, At, Removing
<1>3. \A p \in {"stop", "uninstall"}: p \in Pcs /\ OrderAt(request[t], p)
  BY <1>2, RemovalOrder DEF Removing
<1> QED
  BY <1>1, <1>3, GoneAgrees DEF LookIfActive

LEMMA StopVictimAgrees == ASSUME NEW t \in Admins, IInv, AgreeInv, StopVictim(t) PROVE AgreeInv'
<1>1. LoaderOK /\ request[t].pc \in Removing
  BY Parts DEF IInvParts, StopVictim, At, Removing
<1>2. BundlesStay /\ DOMAIN bundles' = DOMAIN bundles /\ UNCHANGED <<files, loaded, inherited>>
  BY <1>1, SameBundles, StatesStay DEF StopVictim, SetVictim, startVars
<1>3. OrderAt(request[t], "stopping") /\ "stopping" \in Pcs
  BY <1>1, RemovalOrder DEF Removing
<1> QED
  BY <1>2, <1>3, GoneAgrees, ThrownAgrees DEF StopVictim

LEMMA VictimStoppedAgrees ==
    ASSUME NEW t \in Admins, IInv, AgreeInv, VictimStopped(t)
    PROVE  AgreeInv'
<1>1. LoaderOK /\ request[t].pc \in Removing
  BY Parts DEF IInvParts, VictimStopped, At, Removing
<1>2. BundlesStay /\ DOMAIN bundles' = DOMAIN bundles /\ UNCHANGED <<files, loaded, inherited>>
  BY <1>1, StatesStay DEF VictimStopped, SetVictim, startVars
<1>3. OrderAt(request[t], "uninstall") /\ "uninstall" \in Pcs
  BY <1>1, RemovalOrder DEF Removing
<1> QED
  BY <1>2, <1>3, GoneAgrees, ThrownAgrees DEF VictimStopped

LEMMA CheckUninstallAgrees ==
    ASSUME NEW t \in Admins, IInv, AgreeInv, CheckUninstall(t)
    PROVE  AgreeInv'
<1>1. BundlesStay /\ DOMAIN bundles' = DOMAIN bundles /\ UNCHANGED <<files, loaded, inherited>>
  BY SameBundles DEF CheckUninstall, startVars
<1>2. request[t].pc \in Removing
  BY DEF CheckUninstall, At, Removing
<1>3. OrderAt(request[t], "unload") /\ "unload" \in Pcs
  BY <1>2, RemovalOrder DEF Removing
<1> QED
  BY <1>1, <1>3, GoneAgrees, ThrownAgrees DEF CheckUninstall

LEMMA MarkUninstalledAgrees ==
    ASSUME NEW t \in Admins, IInv, AgreeInv, MarkUninstalled(t)
    PROVE  AgreeInv'
<1>1. LoaderOK /\ request[t].pc = "mark" /\ OrderOK(request[t])
  BY Parts DEF IInvParts, MarkUninstalled, At, AgreeInv, OrderInv
<1>2. BundlesStay /\ DOMAIN bundles' = DOMAIN bundles /\ UNCHANGED <<files, loaded, inherited>>
  BY <1>1, StatesStay DEF MarkUninstalled, SetVictim, startVars
<1>3. request[t].op = "install" => OrderAt(request[t], "rename")
  BY <1>1 DEF OrderOK, OrderAt, Removing
<1> QED
  BY <1>2, <1>3, GoneAgrees, EndedAgrees DEF MarkUninstalled, Pcs

\* A step that changes the request's own temporary file.
LEMMA OwnFileAgrees ==
    ASSUME NEW t \in Admins, NEW q, IInv, AgreeInv, UNCHANGED <<bundles, loaded, inherited>>,
           request[t].op = "install", request[t].file \in TempFiles,
           request' = [request EXCEPT ![t] = q], OrderOK(q),
           Kin(request[t], q), q.file = request[t].file,
           \A f \in FileNames: f # request[t].file => files'[f] = files[f]
    PROVE  AgreeInv'
<1>1. OrderOK(q)' /\ BundlesStay /\ DOMAIN bundles' = DOMAIN bundles
  BY SameBundles DEF OrderOK, OrderAt
<1>2. \A u \in Admins: u # t => Concerned(q) \cap Concerned(request[u]) = {}
  BY KinApart DEF AgreeInv
<1>3. \A n \in Names, v \in Versions: files'[<<n, v>>] = files[<<n, v>>]
  BY TempIsNoName DEF FileNames
<1>4. LoadedKept /\ NamesHonest
  BY <1>3 DEF LoadedKept, NamesHonest
<1>5. TempsOwned(t, q)
  BY DEF TempsOwned, Kin, FileNames
<1> QED
  BY <1>1, <1>2, <1>4, <1>5, StepAgrees

LEMMA CreateFileAgrees == ASSUME NEW t \in Admins, IInv, AgreeInv, CreateFile(t) PROVE AgreeInv'
<1>1. FilesOK /\ request[t] \in Request /\ Known(request[t]) /\ request[t].pc = "create"
  BY Parts DEF IInvParts, RequestOK, KnownInv, CreateFile, At
<1>2. request[t].op = "install" /\ request[t].file \in TempFiles
  BY <1>1 DEF Known
<1>3. PICK q: q = [request[t] EXCEPT !.pc = "copy"]
  OBVIOUS
<1>4. OrderAt(request[t], "copy")
  BY DEF OrderAt, Removing
<1>5. Kin(request[t], q) /\ q.file = request[t].file /\ OrderOK(q)
  BY <1>1, <1>3, <1>4, AtPc DEF Pcs
<1>6. request' = [request EXCEPT ![t] = q] /\ UNCHANGED <<bundles, loaded, inherited>>
  BY <1>3 DEF CreateFile, Goto, startVars
<1>7. \A f \in FileNames: f # request[t].file => files'[f] = files[f]
  BY <1>1 DEF CreateFile, FilesOK
<1> QED
  BY <1>2, <1>5, <1>6, <1>7, OwnFileAgrees

LEMMA WrittenFile ==
    ASSUME NEW t \in Admins, NEW cut, FilesOK, Write(t, cut)
    PROVE  \A f \in FileNames: f # request[t].file => files'[f] = files[f]
BY DEF Write, FilesOK

LEMMA CopyPartAgrees == ASSUME NEW t \in Admins, IInv, AgreeInv, CopyPart(t) PROVE AgreeInv'
<1>1. FilesOK /\ RequestOK /\ Known(request[t]) /\ request[t].pc = "copy" /\ OrderOK(request[t])
  BY Parts DEF IInvParts, KnownInv, CopyPart, At, AgreeInv, OrderInv
<1>2. request[t].op = "install" /\ request[t].file \in TempFiles
  BY <1>1 DEF Known
<1>3. PICK q: q = request[t]
  OBVIOUS
<1>4. Kin(request[t], q) /\ q.file = request[t].file /\ OrderOK(q)
  BY <1>1, <1>3 DEF Kin
<1>5. request' = [request EXCEPT ![t] = q] /\ UNCHANGED <<bundles, loaded, inherited>>
  BY <1>1, <1>3 DEF CopyPart, RequestOK, startVars
<1>6. \A f \in FileNames: f # request[t].file => files'[f] = files[f]
  BY <1>1, WrittenFile DEF CopyPart
<1> QED
  BY <1>2, <1>4, <1>5, <1>6, OwnFileAgrees

LEMMA CopyEndAgrees == ASSUME NEW t \in Admins, IInv, AgreeInv, CopyEnd(t) PROVE AgreeInv'
<1>1. FilesOK /\ request[t] \in Request /\ Known(request[t]) /\ request[t].pc = "copy"
  BY Parts DEF IInvParts, RequestOK, KnownInv, CopyEnd, At
<1>2. request[t].op = "install" /\ request[t].file \in TempFiles
  BY <1>1 DEF Known
<1>3. PICK q: q = [request[t] EXCEPT !.pc = "parse"]
  OBVIOUS
<1>4. OrderAt(request[t], "parse")
  BY DEF OrderAt, Removing
<1>5. Kin(request[t], q) /\ q.file = request[t].file /\ OrderOK(q)
  BY <1>1, <1>3, <1>4, AtPc DEF Pcs
<1>6. request' = [request EXCEPT ![t] = q] /\ UNCHANGED <<bundles, loaded, inherited>>
  BY <1>3 DEF CopyEnd, Goto, startVars
<1>7. \A f \in FileNames: f # request[t].file => files'[f] = files[f]
  BY <1>1, WrittenFile DEF CopyEnd
<1> QED
  BY <1>2, <1>5, <1>6, <1>7, OwnFileAgrees

\* Bundle and file go together.
LEMMA UnloadAgrees == ASSUME NEW t \in Admins, IInv, AgreeInv, Unload(t) PROVE AgreeInv'
<1>a. /\ FilesOK /\ LoaderOK /\ request[t] \in Request /\ Known(request[t])
      /\ OrderOK(request[t]) /\ NamedInv
  BY Parts DEF IInvParts, RequestOK, KnownInv, AgreeInv, OrderInv
<1>b. BundlesStay /\ DOMAIN bundles' = DOMAIN bundles /\ UNCHANGED <<bundles, inherited>>
  BY SameBundles DEF Unload, startVars
<1>c. request[t].pc = "unload"
  BY DEF Unload, At
<1>1. CASE Throw(t) /\ UNCHANGED <<files, loaded>>
  BY <1>1, <1>b, ThrownAgrees
<1>2. CASE ~(Throw(t) /\ UNCHANGED <<files, loaded>>)
  <2>1. /\ files' = [files EXCEPT ![Victim(t).file] = Absent]
        /\ loaded' = [loaded EXCEPT ![Victim(t).name] = 0]
        /\ Goto(t, "mark")
    BY <1>2 DEF Unload
  <2>2. PICK q: q = [request[t] EXCEPT !.pc = "mark"]
    OBVIOUS
  <2>3. /\ Kin(request[t], q) /\ q.file = request[t].file /\ q.pc = "mark"
        /\ q.victim = request[t].victim
    BY <1>a, <2>2, AtPc DEF Pcs
  <2>4. request[t].victim \in DOMAIN bundles /\ bundles[request[t].victim].name = request[t].replace
    BY <1>a, <1>c DEF OrderOK, OrderAt, Removing
  <2>5. PICK e \in Bundle: e = Victim(t) /\ (e.file \in TempFiles \/ e.file = <<e.name, e.version>>)
    BY <1>a, <2>4, Indices DEF NamedInv, Victim
  <2>6. e.name \in Names /\ e.file \in FileNames /\ e.name = request[t].replace
    BY <2>4, <2>5 DEF Bundle, Victim
  <2>7. /\ \A f \in FileNames: files'[f] = IF f = e.file THEN Absent ELSE files[f]
        /\ \A n \in Names: loaded'[n] = IF n = e.name THEN 0 ELSE loaded[n]
    BY <1>a, <2>1, <2>5 DEF FilesOK, LoaderOK
  <2>8. OrderOK(q)'
    <3>1. q.op = "install" => loaded'[q.upload.name] = 0
      <4> SUFFICES ASSUME q.op = "install" PROVE loaded'[q.upload.name] = 0
        OBVIOUS
      <4>1. q.upload.name \in Names /\ q.upload = request[t].upload /\ request[t].op = "install"
        BY <1>a, <2>3 DEF Known, Content, Kin
      <4>2. q.upload.name # request[t].replace => loaded[q.upload.name] = 0
        BY <1>a, <1>c, <4>1 DEF OrderOK, OrderAt, Removing
      <4> QED
        BY <2>6, <2>7, <4>1, <4>2
    <3>2. q.replace = request[t].replace
      BY <2>3 DEF Kin
    <3> QED
      BY <1>b, <2>3, <2>4, <3>1, <3>2 DEF OrderOK, OrderAt, Removing
  <2>9. \A u \in Admins: u # t => Concerned(q) \cap Concerned(request[u]) = {}
    BY <2>3, KinApart DEF AgreeInv
  <2>10. LoadedKept
    <3> SUFFICES ASSUME NEW n \in Names, NEW v \in Versions, files[<<n, v>>] # Absent,
                        loaded'[n] # 0
                 PROVE  files'[<<n, v>>] # Absent
      BY <2>7 DEF LoadedKept
    <3>1. n # e.name /\ <<n, v>> \in FileNames /\ <<n, v>> \notin TempFiles
      BY <2>7, TempIsNoName DEF FileNames
    <3>2. <<n, v>> # e.file
      BY <2>5, <3>1
    <3> QED
      BY <2>7, <3>1, <3>2
  <2>11. NamesHonest
    BY <2>7 DEF NamesHonest, FileNames
  <2>12. TempsOwned(t, q)
    BY <2>3, <2>7 DEF TempsOwned, FileNames, Kin
  <2>13. request' = [request EXCEPT ![t] = q]
    BY <2>1, <2>2 DEF Goto
  <2> QED
    BY <1>b, <2>8, <2>9, <2>10, <2>11, <2>12, <2>13, StepAgrees
<1> QED
  BY <1>1, <1>2

LEMMA RenameAgrees == ASSUME NEW t \in Admins, IInv, AgreeInv, Rename(t) PROVE AgreeInv'
<1>a. /\ FilesOK /\ request[t] \in Request /\ Known(request[t]) /\ OrderOK(request[t])
      /\ UploadIsolated
  BY Parts DEF IInvParts, RequestOK, KnownInv, AgreeInv, OrderInv
<1>b. BundlesStay /\ DOMAIN bundles' = DOMAIN bundles /\ UNCHANGED <<bundles, loaded, inherited>>
  BY SameBundles DEF Rename, startVars
<1>c. request[t].pc = "rename" /\ request[t].op = "install" /\ request[t].file \in TempFiles
  BY <1>a DEF Rename, At, Known
<1>1. CASE Throw(t) /\ UNCHANGED files
  BY <1>1, <1>b, ThrownAgrees
<1>2. CASE ~(Throw(t) /\ UNCHANGED files)
  <2>1. PICK f: f = request[t].file
    OBVIOUS
  <2>2. PICK g: g = FinalName(request[t].upload)
    OBVIOUS
  <2>3. PICK q: q = [request[t] EXCEPT !.pc = "load", !.file = g]
    OBVIOUS
  <2>4. /\ files[f] # Absent
        /\ files' = [files EXCEPT ![g] = files[f], ![f] = Absent]
        /\ request' = [request EXCEPT ![t].pc = "load", ![t].file = g]
    BY <1>2, <2>1, <2>2 DEF Rename
  <2>5. request' = [request EXCEPT ![t] = q]
    BY <2>3, <2>4
  <2>6. Kin(request[t], q) /\ q.file = g /\ q.pc = "load"
    BY <1>a, <2>3 DEF Request, Kin
  <2>7. PICK c \in Content: c = request[t].upload /\ c.name \in Names /\ c.version \in Versions
    BY <1>a, <1>c DEF Known, Content
  <2>8. /\ g = <<c.name, c.version>> /\ g \in FileNames /\ g \notin TempFiles
        /\ f \in TempFiles /\ f \in FileNames
    BY <1>c, <2>1, <2>2, <2>7, TempIsNoName DEF FinalName, FileNames
  <2>9. files[f].name = c.name /\ files[f].version = c.version
    <3>1. [files[f] EXCEPT !.cut = "none"] = c
      BY <1>a, <1>c, <2>1, <2>4, <2>7 DEF UploadIsolated
    <3>2. files[f] \in Content
      BY <1>a, <2>4, <2>8 DEF FilesOK
    <3> QED
      BY <3>1, <3>2 DEF Content
  <2>10. \A h \in FileNames: files'[h] = IF h = f THEN Absent ELSE IF h = g THEN files[f] ELSE files[h]
    BY <1>a, <2>4 DEF FilesOK
  <2>11. OrderOK(q)'
    <3>1. loaded[request[t].upload.name] = 0
      BY <1>a, <1>c DEF OrderOK, OrderAt
    <3> QED
      BY <1>b, <2>2, <2>6, <3>1 DEF OrderOK, OrderAt, Kin, Removing
  <2>12. \A u \in Admins: u # t => Concerned(q) \cap Concerned(request[u]) = {}
    BY <2>6, KinApart DEF AgreeInv
  <2>13. \A n \in Names, v \in Versions: <<n, v>> \in FileNames /\ <<n, v>> # f
    BY <2>8, TempIsNoName DEF FileNames
  <2>14. LoadedKept
    <3>1. ASSUME NEW n \in Names, NEW v \in Versions, files[<<n, v>>] # Absent
          PROVE  files'[<<n, v>>] # Absent
      BY <2>4, <2>10, <2>13, <3>1
    <3> QED
      BY <1>b, <3>1 DEF LoadedKept
  <2>15. NamesHonest
    <3> SUFFICES ASSUME NEW n \in Names, NEW v \in Versions
                 PROVE  \/ files'[<<n, v>>] \in {files[<<n, v>>], Absent}
                        \/ files'[<<n, v>>].name = n /\ files'[<<n, v>>].version = v
      BY DEF NamesHonest
    <3>1. CASE <<n, v>> = g
      BY <2>8, <2>9, <2>10, <2>13, <3>1
    <3>2. CASE <<n, v>> # g
      BY <2>10, <2>13, <3>2
    <3> QED
      BY <3>1, <3>2
  <2>16. TempsOwned(t, q)
    BY <2>1, <2>8, <2>10 DEF TempsOwned, FileNames
  <2> QED
    BY <1>b, <2>5, <2>11, <2>12, <2>14, <2>15, <2>16, StepAgrees
<1> QED
  BY <1>1, <1>2

LEMMA CleanupAgrees == ASSUME NEW t \in Admins, IInv, AgreeInv, Cleanup(t) PROVE AgreeInv'
<1>a. FilesOK /\ Known(request[t]) /\ OrderOK(request[t])
  BY Parts DEF IInvParts, KnownInv, AgreeInv, OrderInv
<1>b. BundlesStay /\ DOMAIN bundles' = DOMAIN bundles /\ UNCHANGED <<bundles, loaded, inherited>>
  BY SameBundles DEF Cleanup, startVars
<1>c. request[t].pc = "cleanup" /\ request[t].op = "install"
  BY <1>a DEF Cleanup, At, Known
<1>1. PICK q: q = NoRequest
  OBVIOUS
<1>2. request' = [request EXCEPT ![t] = q]
  BY <1>1 DEF Cleanup, End
<1>3. OrderOK(q)'
  BY <1>1 DEF OrderOK, OrderAt, NoRequest, Removing
<1>4. \A u \in Admins: u # t => Concerned(q) \cap Concerned(request[u]) = {}
  BY <1>1, KinApart DEF AgreeInv
<1>5. \A h \in FileNames: files'[h] = IF h = request[t].file THEN Absent ELSE files[h]
  BY <1>a DEF Cleanup, FilesOK
<1>6. LoadedKept
  <2> SUFFICES ASSUME NEW n \in Names, NEW v \in Versions, files[<<n, v>>] # Absent, loaded[n] # 0
               PROVE  files'[<<n, v>>] # Absent
    BY <1>b DEF LoadedKept
  <2>1. <<n, v>> \in FileNames /\ <<n, v>> \notin TempFiles
    BY TempIsNoName DEF FileNames
  <2>2. <<n, v>> # request[t].file
    BY <1>a, <1>c, <2>1 DEF OrderOK, OrderAt, FinalName
  <2> QED
    BY <1>5, <2>1, <2>2
<1>7. NamesHonest
  BY <1>5 DEF NamesHonest, FileNames
<1>8. TempsOwned(t, q)
  BY <1>5 DEF TempsOwned, FileNames
<1> QED
  BY <1>b, <1>2, <1>3, <1>4, <1>6, <1>7, <1>8, StepAgrees

LEMMA LoadAgrees == ASSUME NEW t \in Admins, IInv, AgreeInv, Load(t) PROVE AgreeInv'
<1>a. FilesOK /\ LoaderOK /\ RequestOK /\ KnownInv /\ OrderOK(request[t])
  BY Parts DEF IInvParts, AgreeInv, OrderInv
<1>b. request[t].pc = "load" /\ request[t].op = "install" /\ UNCHANGED <<files, inherited>>
  BY <1>a DEF Load, At, KnownInv, Known, startVars
<1>1. CASE Throw(t) /\ UNCHANGED <<bundles, loaded>>
  BY <1>1, <1>b, SameBundles, ThrownAgrees
<1>2. CASE ~(Throw(t) /\ UNCHANGED <<bundles, loaded>>)
  <2>1. PICK f: f = request[t].file
    OBVIOUS
  <2>2. /\ Readable(files[f])
        /\ bundles' = Append(bundles, NewBundle(f))
        /\ loaded' = [loaded EXCEPT ![files[f].name] = Len(bundles) + 1]
        /\ End(t)
    BY <1>2, <2>1 DEF Load
  <2>3. PICK m: m = Len(bundles)
    OBVIOUS
  <2>4. PICK c \in Content: c = request[t].upload /\ c.name \in Names /\ c.version \in Versions
    BY <1>a, <1>b DEF KnownInv, Known, Content
  <2>5. f = <<c.name, c.version>> /\ f \notin TempFiles /\ f \in FileNames
    BY <1>a, <1>b, <2>1, <2>4, TempIsNoName DEF OrderOK, OrderAt, FinalName, FileNames
  <2>6. files[f] # Absent /\ files[f].name = c.name /\ files[f].version = c.version
    BY <2>2, <2>4, <2>5 DEF Readable, AgreeInv, NamedInv
  <2>7. m \in Nat /\ DOMAIN bundles = 1 .. m
    BY <1>a, <2>3, Indices
  <2>8. PICK e: e = NewBundle(f)
    OBVIOUS
  <2>9. e.name = c.name /\ e.version = c.version /\ e.file = f
    BY <2>6, <2>8 DEF NewBundle
  <2>10. /\ DOMAIN bundles' = 1 .. m + 1
         /\ bundles'[m + 1] = e
         /\ \A k \in DOMAIN bundles: bundles'[k] = bundles[k]
    <3>1. e \in Bundle
      BY <1>a, <2>2, <2>5, <2>8, NewBundleType
    <3>2. bundles \in Seq(Bundle) /\ bundles' = Append(bundles, e)
      BY <1>a, <2>2, <2>8 DEF LoaderOK
    <3>3. Len(bundles') = Len(bundles) + 1 /\ bundles' \in Seq(Bundle)
      BY <3>1, <3>2
    <3>4. bundles'[Len(bundles) + 1] = e /\ \A k \in 1 .. Len(bundles): bundles'[k] = bundles[k]
      BY <3>1, <3>2
    <3>5. DOMAIN bundles' = 1 .. Len(bundles')
      BY <3>3
    <3> QED
      BY <2>3, <2>7, <3>3, <3>4, <3>5
  <2>11. BundlesStay /\ DOMAIN bundles \subseteq DOMAIN bundles'
    BY <2>7, <2>10 DEF BundlesStay
  <2>12. \A n \in Names: loaded'[n] = IF n = c.name THEN m + 1 ELSE loaded[n]
    BY <1>a, <2>2, <2>3, <2>6 DEF LoaderOK
  <2>13. PICK q: q = NoRequest
    OBVIOUS
  <2>14. request' = [request EXCEPT ![t] = q]
    BY <2>2, <2>13 DEF End
  <2>15. NamedInv'
    <3>1. ASSUME NEW k \in DOMAIN bundles'
          PROVE  bundles'[k].file \in TempFiles \/ bundles'[k].file = <<bundles'[k].name, bundles'[k].version>>
      <4>1. CASE k = m + 1
        BY <2>5, <2>9, <2>10, <4>1
      <4>2. CASE k # m + 1
        <5>1. k \in DOMAIN bundles
          BY <2>7, <2>10, <4>2
        <5> QED
          BY <2>10, <5>1 DEF AgreeInv, NamedInv
      <4> QED
        BY <4>1, <4>2
    <3> QED
      BY <1>b, <3>1 DEF AgreeInv, NamedInv
  <2>16. LoadedInv'
    <3>1. ASSUME NEW n \in Names, loaded'[n] # 0
          PROVE  /\ bundles'[loaded'[n]].name = n
                 /\ \/ bundles'[loaded'[n]].file \in TempFiles
                    \/ files'[bundles'[loaded'[n]].file] # Absent
      <4>1. CASE n = c.name
        BY <1>b, <2>6, <2>9, <2>10, <2>12, <4>1
      <4>2. CASE n # c.name
        <5>1. loaded'[n] = loaded[n] /\ loaded[n] \in DOMAIN bundles
          BY <1>a, <2>12, <3>1, <4>2, Indices
        <5>2. bundles'[loaded'[n]] = bundles[loaded[n]]
          BY <2>10, <5>1
        <5> QED
          BY <1>b, <3>1, <5>1, <5>2 DEF AgreeInv, LoadedInv
      <4> QED
        BY <4>1, <4>2
    <3> QED
      BY <3>1 DEF LoadedInv
  <2>17. TempInv'
    <3>1. TempsOwned(t, q)
      BY <1>b, <2>1, <2>5 DEF TempsOwned
    <3> QED
      BY <1>a, <1>b, <2>14, <3>1, TempStep DEF AgreeInv
  <2>18. ApartInv'
    BY <1>a, <2>13, <2>14, KinApart, ApartStep DEF AgreeInv
  <2>19. OrderInv'
    <3>1. OrderOK(q)'
      BY <2>13 DEF OrderOK, OrderAt, NoRequest, Removing
    <3>2. c.name \in Concerned(request[t])
      BY <1>b, <2>4, RepositoryAssumption DEF Concerned
    <3>3. \A n \in Names: n \notin Concerned(request[t]) /\ loaded[n] = 0 => loaded'[n] = 0
      BY <2>12, <3>2
    <3> QED
      BY <1>a, <2>11, <2>14, <3>1, <3>3, OrderStep DEF AgreeInv
  <2> QED
    BY <2>15, <2>16, <2>17, <2>18, <2>19 DEF AgreeInv
<1> QED
  BY <1>1, <1>2

LEMMA BeginInstallAgrees ==
    ASSUME Disjoint, NEW t \in Admins, IInv, AgreeInv, BeginInstall(t)
    PROVE  AgreeInv'
<1>a. Known(request[t]) /\ request[t].pc = "idle"
  BY Parts DEF IInvParts, KnownInv, BeginInstall, At
<1>b. /\ BundlesStay /\ DOMAIN bundles' = DOMAIN bundles
      /\ UNCHANGED <<files, bundles, loaded, inherited>>
  BY SameBundles DEF BeginInstall, startVars
<1>1. PICK n \in Names, v \in Versions, old \in Names \cup {NoName}:
        LET r == [op |-> "install", upload |-> [name |-> n, version |-> v, cut |-> "none"],
                  replace |-> old, pc |-> "create", file |-> <<"tmp", serial>>, victim |-> 0]
        IN  MayBegin(t, r) /\ request' = [request EXCEPT ![t] = r]
  BY DEF BeginInstall
<1>2. PICK q: q = [op |-> "install", upload |-> [name |-> n, version |-> v, cut |-> "none"],
                   replace |-> old, pc |-> "create", file |-> <<"tmp", serial>>, victim |-> 0]
  OBVIOUS
<1>3. MayBegin(t, q) /\ request' = [request EXCEPT ![t] = q]
  BY <1>1, <1>2
<1>4. \A u \in Admins: u # t => Concerned(q) \cap Concerned(request[u]) = {}
  BY <1>3 DEF MayBegin
<1>5. OrderOK(q)'
  BY <1>2 DEF OrderOK, OrderAt, Removing
<1>6. LoadedKept /\ NamesHonest
  BY <1>b DEF LoadedKept, NamesHonest
<1>7. TempsOwned(t, q)
  BY <1>a, <1>b DEF TempsOwned, Known
<1> QED
  BY <1>b, <1>3, <1>4, <1>5, <1>6, <1>7, StepAgrees

LEMMA BeginUninstallAgrees ==
    ASSUME Disjoint, NEW t \in Admins, IInv, AgreeInv, BeginUninstall(t)
    PROVE  AgreeInv'
<1>a. LoaderOK /\ LoadedInv /\ Known(request[t]) /\ request[t].pc = "idle"
  BY Parts DEF IInvParts, KnownInv, BeginUninstall, At, AgreeInv
<1>b. /\ BundlesStay /\ DOMAIN bundles' = DOMAIN bundles
      /\ UNCHANGED <<files, bundles, loaded, inherited>>
  BY SameBundles DEF BeginUninstall, startVars
<1>1. PICK n \in Names:
        LET r == [NoRequest EXCEPT !.op = "uninstall", !.replace = n, !.pc = "uninstall", !.victim = loaded[n]]
        IN  loaded[n] # 0 /\ MayBegin(t, r) /\ request' = [request EXCEPT ![t] = r]
  BY DEF BeginUninstall
<1>2. PICK q: q = [NoRequest EXCEPT !.op = "uninstall", !.replace = n, !.pc = "uninstall", !.victim = loaded[n]]
  OBVIOUS
<1>3. loaded[n] # 0 /\ MayBegin(t, q) /\ request' = [request EXCEPT ![t] = q]
  BY <1>1, <1>2
<1>4. \A u \in Admins: u # t => Concerned(q) \cap Concerned(request[u]) = {}
  BY <1>3 DEF MayBegin
<1>5. q.op = "uninstall" /\ q.replace = n /\ q.pc = "uninstall" /\ q.victim = loaded[n]
  BY <1>2 DEF NoRequest
<1>6. loaded[n] \in DOMAIN bundles /\ bundles[loaded[n]].name = n
  BY <1>a, <1>3, Indices DEF LoadedInv
<1>7. OrderOK(q)'
  BY <1>b, <1>5, <1>6 DEF OrderOK, OrderAt
<1>8. LoadedKept /\ NamesHonest
  BY <1>b DEF LoadedKept, NamesHonest
<1>9. TempsOwned(t, q)
  BY <1>a, <1>b DEF TempsOwned, Known
<1> QED
  BY <1>b, <1>3, <1>4, <1>7, <1>8, <1>9, StepAgrees

LEMMA ServeAgrees == ASSUME Disjoint, NEW t \in Admins, IInv, AgreeInv, Serve(t) PROVE AgreeInv'
  BY BeginInstallAgrees, BeginUninstallAgrees, CreateFileAgrees, CopyPartAgrees, CopyEndAgrees,
     ParseAgrees, CheckExistingAgrees, FindVictimAgrees, LookIfActiveAgrees, StopVictimAgrees,
     VictimStoppedAgrees, CheckUninstallAgrees, UnloadAgrees, MarkUninstalledAgrees, RenameAgrees,
     LoadAgrees, CleanupAgrees
     DEF Serve

LEMMA LoadBundlesAgrees == ASSUME IInv, FoundInv, AgreeInv, LoadBundles PROVE AgreeInv'
<1>a. StartOK /\ UNCHANGED <<files, request, inherited>>
  BY Parts DEF IInvParts, LoadBundles
<1>b. \A t \in Admins: request[t].op = "none" /\ request[t].pc = "idle"
  BY Parts DEF IInvParts, ScanInv, KnownInv, Known, LoadBundles
<1>1. \A n \in Names: found[n] # NoFile =>
        /\ found[n] \in FileNames
        /\ files[found[n]] # Absent
        /\ files[found[n]].name = n
  BY <1>a DEF FoundInv, LoadBundles, StartOK, Accepted, Readable
<1>2. /\ \A n \in Names: IF found[n] = NoFile THEN loaded'[n] = 0
                         ELSE loaded'[n] # 0 /\ bundles'[loaded'[n]] = NewBundle(found[n])
      /\ \A k \in DOMAIN bundles': \E n \in Names: found[n] # NoFile /\ bundles'[k] = NewBundle(found[n])
  BY LoadsFound
<1>3. \A f: /\ NewBundle(f).name = files[f].name
            /\ NewBundle(f).version = files[f].version
            /\ NewBundle(f).file = f
  BY DEF NewBundle
<1>4. \A f \in FileNames: files[f] # Absent => f \in TempFiles \/ f = <<files[f].name, files[f].version>>
  BY DEF AgreeInv, NamedInv, FileNames
<1>5. NamedInv'
  <2>1. ASSUME NEW k \in DOMAIN bundles'
        PROVE  bundles'[k].file \in TempFiles \/ bundles'[k].file = <<bundles'[k].name, bundles'[k].version>>
    <3>1. PICK n \in Names: found[n] # NoFile /\ bundles'[k] = NewBundle(found[n])
      BY <1>2
    <3> QED
      BY <1>1, <1>3, <1>4, <3>1
  <2> QED
    BY <1>a, <2>1 DEF AgreeInv, NamedInv
<1>6. LoadedInv'
  <2>1. ASSUME NEW n \in Names, loaded'[n] # 0
        PROVE  bundles'[loaded'[n]].name = n /\ files'[bundles'[loaded'[n]].file] # Absent
    BY <1>a, <1>1, <1>2, <1>3, <2>1
  <2> QED
    BY <2>1 DEF LoadedInv
<1>7. TempInv' /\ ApartInv'
  BY <1>a DEF AgreeInv, TempInv, ApartInv, Concerned
<1>8. OrderInv'
  BY <1>a, <1>b DEF OrderInv, OrderOK, OrderAt, Removing
<1> QED
  BY <1>5, <1>6, <1>7, <1>8 DEF AgreeInv

LEMMA ChangeStateAgrees ==
    ASSUME NEW i \in DOMAIN bundles, IInv, AgreeInv, ChangeState(i)
    PROVE  AgreeInv'
<1>1. LoaderOK
  BY Parts DEF IInvParts
<1>2. BundlesStay /\ DOMAIN bundles' = DOMAIN bundles
  BY <1>1, StatesStay DEF ChangeState
<1>3. UNCHANGED <<files, loaded, request, inherited>>
  BY DEF ChangeState, startVars
<1>4. NamedInv'
  BY <1>2, <1>3, NamedStep DEF NamesHonest, AgreeInv
<1>5. LoadedInv'
  BY <1>1, <1>2, <1>3, LoadedStep DEF LoadedKept, AgreeInv
<1>6. TempInv' /\ ApartInv'
  BY <1>3 DEF AgreeInv, TempInv, ApartInv, Concerned
<1>7. OrderInv'
  BY <1>2, <1>3 DEF AgreeInv, OrderInv, OrderOK, OrderAt, BundlesStay
<1> QED
  BY <1>4, <1>5, <1>6, <1>7 DEF AgreeInv

\* Without requests and bundles only the directory has to be right.
LEMMA FreshAgrees ==
    ASSUME request = [t \in Admins |-> NoRequest], bundles = <<>>, loaded = [n \in Names |-> 0],
           \A n \in Names, v \in Versions:
             LET c == files[<<n, v>>] IN c # Absent => c.name = n /\ c.version = v,
           \A f \in TempFiles: files[f] # Absent => f \in inherited
    PROVE  AgreeInv
<1>1. \A t \in Admins: request[t] = NoRequest
  OBVIOUS
<1>2. Concerned(NoRequest) = {} /\ OrderOK(NoRequest)
  BY NoRequestOrder DEF Concerned, NoRequest
<1>3. NamedInv /\ LoadedInv
  BY DEF NamedInv, LoadedInv
<1>4. TempInv
  BY DEF TempInv
<1>5. ApartInv /\ OrderInv
  BY <1>1, <1>2 DEF ApartInv, OrderInv
<1> QED
  BY <1>3, <1>4, <1>5 DEF AgreeInv

LEMMA CrashAgrees == ASSUME AgreeInv, Crash PROVE AgreeInv'
<1>1. /\ request' = [t \in Admins |-> NoRequest] /\ bundles' = <<>> /\ loaded' = [n \in Names |-> 0]
      /\ inherited' = Existing(files) \cap TempFiles /\ files' = files
  BY DEF Crash
<1>2. \A t \in Admins: request'[t] = NoRequest
  BY <1>1
<1>3. Concerned(NoRequest) = {}
  BY DEF Concerned, NoRequest
<1>4. NamedInv' /\ LoadedInv'
  BY <1>1 DEF AgreeInv, NamedInv, LoadedInv
<1>5. TempInv'
  BY <1>1 DEF TempInv, Existing, FileNames
<1>6. ApartInv'
  BY <1>2, <1>3 DEF ApartInv, Concerned
<1>7. OrderInv'
  BY <1>2 DEF OrderInv, OrderOK, OrderAt, NoRequest, Removing
<1> QED
  BY <1>4, <1>5, <1>6, <1>7 DEF AgreeInv

AgreeAll == FoundAll /\ AgreeInv

LEMMA AgreeInductive == ASSUME Disjoint PROVE AgreeAll /\ [Next]_vars => AgreeAll'
<1> SUFFICES ASSUME IInv, FoundInv, AgreeInv, [Next]_vars PROVE AgreeInv'
  BY FoundInductive DEF AgreeAll, FoundAll
<1>1. CASE \E f \in FileNames: ScanFile(f)
  <2>1. UNCHANGED <<files, bundles, loaded, request, inherited>>
    BY <1>1 DEF ScanFile
  <2> QED
    BY <2>1
       DEF AgreeInv, NamedInv, LoadedInv, TempInv, ApartInv, Concerned, OrderInv, OrderOK,
           OrderAt
<1>2. CASE LoadBundles
  BY <1>2, LoadBundlesAgrees
<1>3. CASE \E t \in Admins: Serve(t)
  BY <1>3, ServeAgrees
<1>4. CASE \E i \in DOMAIN bundles: ChangeState(i)
  BY <1>4, ChangeStateAgrees
<1>5. CASE Crash
  BY <1>5, CrashAgrees
<1>6. CASE UNCHANGED vars
  <2>1. UNCHANGED <<files, bundles, loaded, request, inherited>>
    BY <1>6 DEF vars, startVars
  <2> QED
    BY <2>1
       DEF AgreeInv, NamedInv, LoadedInv, TempInv, ApartInv, Concerned, OrderInv, OrderOK,
           OrderAt
<1> QED
  BY <1>1, <1>2, <1>3, <1>4, <1>5, <1>6 DEF Next

LEMMA AgreeInitially == Init => AgreeAll
<1> SUFFICES ASSUME Init PROVE AgreeInv
  BY Initially, FoundInitially DEF AgreeAll, FoundAll
<1>1. \A n \in Names, v \in Versions:
        LET c == files[<<n, v>>] IN c # Absent => c.name = n /\ c.version = v
  BY DEF Init, Whole, FileNames
<1>2. \A f \in TempFiles: files[f] # Absent => f \in inherited
  BY TempIsNoName DEF Init, FileNames
<1> QED
  BY <1>1, <1>2, FreshAgrees DEF Init

\* When administrators work on different bundles, the loader's map and the directory
\* agree at every moment, whatever fails and through crashes: a loaded bundle has its
\* file, and an installation that is over has left no temporary file
\* (installBundleImpl(), uninstallBundle()).
THEOREM DirectoryStaysAgreed == ASSUME Disjoint PROVE Spec => []DirectoryAgrees
<1>1. AgreeAll => DirectoryAgrees
  <2> SUFFICES ASSUME IInv, AgreeInv PROVE DirectoryAgrees
    BY DEF AgreeAll, FoundAll
  <2>1. LoaderOK /\ KnownInv
    BY Parts DEF IInvParts
  <2>2. NoLeftovers
    BY <2>1 DEF NoLeftovers, At, AgreeInv, TempInv, KnownInv, Known, Existing
  <2>3. LoadedHasFile
    <3> SUFFICES ASSUME NEW n \in Names, loaded[n] # 0, bundles[loaded[n]].file \notin TempFiles
                 PROVE  /\ files[bundles[loaded[n]].file] # Absent
                        /\ files[bundles[loaded[n]].file].name = n
                        /\ files[bundles[loaded[n]].file].version = bundles[loaded[n]].version
      BY DEF LoadedHasFile
    <3>1. PICK e \in Bundle: e = bundles[loaded[n]] /\ e.version \in Versions
      BY <2>1, Indices DEF Bundle
    <3>2. e.name = n /\ files[e.file] # Absent
      BY <3>1 DEF AgreeInv, LoadedInv
    <3>3. e.file = <<n, e.version>>
      BY <2>1, <3>1, <3>2, Indices DEF AgreeInv, NamedInv
    <3> QED
      BY <3>1, <3>2, <3>3 DEF AgreeInv, NamedInv
  <2> QED
    BY <2>2, <2>3 DEF DirectoryAgrees
<1> QED
  BY <1>1, AgreeInitially, AgreeInductive, PTL DEF Spec

-----------------------------------------------------------------------------
(* What survives a crash *)

\* A bundle that was loaded from a temporary file has been found there by a start.
VictimOK(r) ==
    r.pc \in Removing /\ bundles[r.victim].file \in TempFiles => r.replace \in orphans

OrphanInv ==
    /\ MaxCrashes = 0 => /\ phase = "scanning" => \A f \in TempFiles: files[f] = Absent
                         /\ \A k \in DOMAIN bundles: bundles[k].file \notin TempFiles
    /\ phase = "scanning" => \A f \in TempFiles: Readable(files[f]) => files[f].name \in orphans
    /\ \A n \in Names: loaded[n] # 0 /\ bundles[loaded[n]].file \in TempFiles => n \in orphans
    /\ \A t \in Admins: VictimOK(request[t])

\* What an administrator asked to be removed.
GivenOK(r) ==
    r.op = "uninstall" \/ (r.op = "install" /\ r.replace # r.upload.name)
      => r.replace \in given \cup {NoName}

\* An upload that was parsed can still be, unless it had the place of the bundle
\* that it replaces and went with it; and the clean-up removes a file under its final
\* name only where the second load failed.
ParsedOK(r) ==
    r.op = "install" =>
      /\ r.pc \in {"check", "find", "load"} \cup Removing => Readable(files[r.file])
      /\ r.pc \in {"mark", "rename"} =>
           Readable(files[r.file]) \/ (files[r.file] = Absent /\ r.replace \in orphans)
      /\ r.pc = "cleanup" => r.file \in TempFiles \/ r.upload.name \in dropped

RequestInv == \A t \in Admins: GivenOK(request[t]) /\ ParsedOK(request[t])

\* The old version of n is gone, and the new one is there to be renamed.
Replaces(r, n) ==
    /\ r.op = "install" /\ r.replace = n /\ r.upload.name = n /\ r.victim # 0
    /\ r.pc \in {"mark", "rename"} /\ Readable(files[r.file])

Kept(n) ==
    \/ \E f \in Names \X Versions: Readable(files[f]) /\ files[f].name = n
    \/ \E t \in Admins: Replaces(request[t], n)

KeptInv == \A n \in Names \ (given \cup orphans \cup dropped): Kept(n)

SurviveInv == OrphanInv /\ RequestInv /\ KeptInv

\* No crash has left a file with the name of another administrator's upload.
NoneLost == Disjoint /\ (MaxCrashes = 0 \/ \A t, u \in Admins: t = u)

\* No other request's file changes.
OthersFiles(t) ==
    \A u \in Admins: u # t /\ request[u].op = "install"
      => files'[request[u].file] = files[request[u].file]

LEMMA KeptStep ==
    ASSUME NEW t \in Admins, NEW q, RequestOK, KeptInv, OthersFiles(t),
           request' = [request EXCEPT ![t] = q],
           given \subseteq given', orphans' = orphans, dropped \subseteq dropped',
           \A f \in Names \X Versions:
             Readable(files[f]) => files'[f] = files[f] \/ files[f].name \in dropped',
           \A n \in Names: Replaces(request[t], n) => Replaces(q, n)' \/ n \in dropped'
    PROVE  KeptInv'
<1>1. request'[t] = q /\ \A u \in Admins: u # t => request'[u] = request[u]
  BY DEF RequestOK
<1> SUFFICES ASSUME NEW n \in Names, n \notin given, n \notin orphans, n \notin dropped' PROVE Kept(n)'
  BY DEF KeptInv
<1>2. Kept(n)
  BY DEF KeptInv
<1>3. CASE \E f \in Names \X Versions: Readable(files[f]) /\ files[f].name = n
  BY <1>3 DEF Kept, Readable
<1>4. CASE \E u \in Admins: Replaces(request[u], n)
  <2>1. PICK u \in Admins: Replaces(request[u], n)
    BY <1>4
  <2>2. CASE u = t
    BY <1>1, <2>1, <2>2 DEF Kept, Replaces
  <2>3. CASE u # t
    <3>1. request'[u] = request[u] /\ files'[request[u].file] = files[request[u].file]
      BY <1>1, <2>1, <2>3 DEF OthersFiles, Replaces
    <3>2. Replaces(request[u], n)'
      BY <2>1, <3>1 DEF Replaces, Readable
    <3> QED
      BY <3>2 DEF Kept
  <2> QED
    BY <2>2, <2>3
<1> QED
  BY <1>2, <1>3, <1>4 DEF Kept

LEMMA OrphanStep ==
    ASSUME NEW t \in Admins, NEW q, IInv, AgreeInv, OrphanInv, BundlesStay,
           DOMAIN bundles' = DOMAIN bundles,
           UNCHANGED <<startVars, orphans>>, phase = "running",
           \A n \in Names: loaded'[n] \in {loaded[n], 0},
           request' = [request EXCEPT ![t] = q], VictimOK(q), OrderOK(q)'
    PROVE  OrphanInv'
<1>1. LoaderOK /\ RequestOK
  BY Parts DEF IInvParts
<1>2. request'[t] = q /\ \A u \in Admins: u # t => request'[u] = request[u]
  BY <1>1 DEF RequestOK
<1>3. phase' = "running"
  BY DEF startVars
<1>4. MaxCrashes = 0 => \A k \in DOMAIN bundles': bundles'[k].file \notin TempFiles
  BY DEF OrphanInv, BundlesStay
<1>5. \A n \in Names: loaded'[n] # 0 /\ bundles'[loaded'[n]].file \in TempFiles => n \in orphans
  BY <1>1, Indices DEF OrphanInv, BundlesStay
<1>6. VictimOK(q)'
  BY DEF VictimOK, OrderOK, OrderAt, BundlesStay
<1>7. ASSUME NEW u \in Admins, u # t PROVE VictimOK(request[u])'
  <2>1. PICK r: r = request[u]
    OBVIOUS
  <2>2. VictimOK(r) /\ OrderOK(r) /\ request'[u] = r
    BY <1>2, <1>7, <2>1 DEF OrphanInv, AgreeInv, OrderInv
  <2> QED
    BY <2>2 DEF VictimOK, OrderOK, OrderAt, BundlesStay
<1>8. \A u \in Admins: VictimOK(request[u])'
  BY <1>2, <1>6, <1>7 DEF VictimOK
<1> QED
  BY <1>3, <1>4, <1>5, <1>8 DEF OrphanInv

LEMMA RequestStep ==
    ASSUME NEW t \in Admins, NEW q, RequestOK, RequestInv, OthersFiles(t),
           request' = [request EXCEPT ![t] = q], given \subseteq given', orphans' = orphans,
           dropped \subseteq dropped', GivenOK(q)', ParsedOK(q)'
    PROVE  RequestInv'
<1>1. request'[t] = q /\ \A u \in Admins: u # t => request'[u] = request[u]
  BY DEF RequestOK
<1> SUFFICES ASSUME NEW u \in Admins PROVE (GivenOK(request[u]) /\ ParsedOK(request[u]))'
  BY DEF RequestInv
<1>2. CASE u = t
  BY <1>1, <1>2 DEF GivenOK, ParsedOK
<1>3. CASE u # t
  <2>1. PICK r: r = request[u]
    OBVIOUS
  <2>2. GivenOK(r) /\ ParsedOK(r) /\ request'[u] = r /\ (r.op = "install" => files'[r.file] = files[r.file])
    BY <1>1, <1>3, <2>1 DEF RequestInv, OthersFiles
  <2>3. GivenOK(r)' /\ ParsedOK(r)'
    BY <2>2 DEF GivenOK, ParsedOK, Readable
  <2> QED
    BY <2>2, <2>3 DEF GivenOK, ParsedOK
<1> QED
  BY <1>2, <1>3

\* A step that leaves the directory alone.
LEMMA QuietSurvives ==
    ASSUME NEW t \in Admins, NEW q, IInv, AgreeInv, SurviveInv, BundlesStay,
           DOMAIN bundles' = DOMAIN bundles,
           UNCHANGED <<files, loaded, startVars, orphans>>, phase = "running",
           given \subseteq given', dropped \subseteq dropped',
           request' = [request EXCEPT ![t] = q], OrderOK(q)', VictimOK(q), GivenOK(q)', ParsedOK(q),
           \A n \in Names: Replaces(request[t], n) => Replaces(q, n) \/ n \in dropped'
    PROVE  SurviveInv'
<1>1. RequestOK /\ OrphanInv /\ RequestInv /\ KeptInv
  BY Parts DEF IInvParts, SurviveInv
<1>2. OthersFiles(t)
  BY DEF OthersFiles
<1>3. ParsedOK(q)'
  BY DEF ParsedOK, Readable
<1>4. \A n \in Names: Replaces(request[t], n) => Replaces(q, n)' \/ n \in dropped'
  BY DEF Replaces, Readable
<1>5. \A n \in Names: loaded'[n] \in {loaded[n], 0}
  OBVIOUS
<1>6. OrphanInv'
  BY <1>1, <1>5, OrphanStep
<1>7. RequestInv'
  BY <1>1, <1>2, <1>3, RequestStep
<1>8. KeptInv'
  BY <1>1, <1>2, <1>4, KeptStep
<1> QED
  BY <1>6, <1>7, <1>8 DEF SurviveInv

\* A request goes to p and leaves the directory alone.
LEMMA GoneSurvives ==
    ASSUME NEW t \in Admins, NEW p \in Pcs, IInv, AgreeInv, SurviveInv, BundlesStay,
           DOMAIN bundles' = DOMAIN bundles,
           UNCHANGED <<files, loaded, startVars, ghostVars>>, phase = "running", AgreeInv',
           Goto(t, p), request[t].pc \notin {"mark", "rename"},
           p \in Removing => request[t].pc \in Removing,
           request[t].op = "install" =>
             /\ p \in {"check", "find", "load", "mark", "rename"} \cup Removing => Readable(files[request[t].file])
             /\ p = "cleanup" => request[t].file \in TempFiles
    PROVE  SurviveInv'
<1>1. /\ request[t] \in Request /\ RequestOK /\ VictimOK(request[t]) /\ GivenOK(request[t])
      /\ ParsedOK(request[t])
  BY Parts DEF IInvParts, RequestOK, SurviveInv, OrphanInv, RequestInv
<1>2. PICK q: q = [request[t] EXCEPT !.pc = p]
  OBVIOUS
<1>3. Kin(request[t], q) /\ q.file = request[t].file /\ q.pc = p /\ q.victim = request[t].victim
  BY <1>1, <1>2, AtPc
<1>4. request' = [request EXCEPT ![t] = q]
  BY <1>2 DEF Goto
<1>5. request'[t] = q
  BY <1>1, <1>4 DEF RequestOK
<1>6. OrderOK(q)'
  BY <1>5 DEF AgreeInv, OrderInv, OrderOK, OrderAt
<1>7. VictimOK(q)
  BY <1>1, <1>3 DEF VictimOK, Kin
<1>8. GivenOK(q)'
  BY <1>1, <1>3 DEF GivenOK, Kin, ghostVars
<1>9. ParsedOK(q)
  BY <1>1, <1>3 DEF ParsedOK, Kin
<1>10. \A n \in Names: Replaces(request[t], n) => Replaces(q, n)
  BY DEF Replaces
<1>11. given' = given /\ orphans' = orphans /\ dropped' = dropped
  BY DEF ghostVars
<1> QED
  BY <1>4, <1>6, <1>7, <1>8, <1>9, <1>10, <1>11, QuietSurvives

LEMMA NoRequestSurvives == VictimOK(NoRequest) /\ GivenOK(NoRequest) /\ ParsedOK(NoRequest)
  BY DEF VictimOK, GivenOK, ParsedOK, NoRequest, Removing

LEMMA EndedSurvives ==
    ASSUME NEW t \in Admins, IInv, AgreeInv, SurviveInv, BundlesStay,
           DOMAIN bundles' = DOMAIN bundles,
           UNCHANGED <<files, loaded, startVars, ghostVars>>, phase = "running",
           End(t), request[t].op # "install"
    PROVE  SurviveInv'
<1>1. PICK q: q = NoRequest
  OBVIOUS
<1>2. request' = [request EXCEPT ![t] = q]
  BY <1>1 DEF End
<1>3. OrderOK(q)' /\ GivenOK(q)'
  BY <1>1 DEF OrderOK, OrderAt, GivenOK, NoRequest, Removing
<1>4. VictimOK(q) /\ ParsedOK(q)
  BY <1>1, NoRequestSurvives
<1>5. \A n \in Names: Replaces(request[t], n) => Replaces(q, n)
  BY DEF Replaces
<1>6. given' = given /\ orphans' = orphans /\ dropped' = dropped
  BY DEF ghostVars
<1> QED
  BY <1>2, <1>3, <1>4, <1>5, <1>6, QuietSurvives

LEMMA ThrownSurvives ==
    ASSUME NEW t \in Admins, IInv, AgreeInv, SurviveInv, BundlesStay,
           DOMAIN bundles' = DOMAIN bundles,
           UNCHANGED <<files, loaded, startVars, ghostVars>>, phase = "running", AgreeInv',
           Throw(t), request[t].pc \notin {"mark", "rename", "load", "cleanup"}
    PROVE  SurviveInv'
<1>1. CASE request[t].op = "install"
  <2>1. request[t].file \in TempFiles
    BY <1>1, Parts DEF IInvParts, KnownInv, Known
  <2>2. /\ Goto(t, "cleanup") /\ "cleanup" \in Pcs
        /\ "cleanup" \notin {"check", "find", "load", "mark", "rename"} \cup Removing
    BY <1>1 DEF Throw, Pcs, Removing
  <2> QED
    BY <2>1, <2>2, GoneSurvives
<1>2. CASE request[t].op # "install"
  BY <1>2, EndedSurvives DEF Throw
<1> QED
  BY <1>1, <1>2

\* What the lemmas about the actions below all use.
LEMMA ServedSurvives ==
    ASSUME NEW t \in Admins, NoneLost, IInv, AgreeInv, SurviveInv, Serve(t)
    PROVE  /\ FilesOK /\ LoaderOK /\ RequestOK /\ request[t] \in Request /\ Known(request[t])
           /\ OwnInv /\ UploadIsolated
           /\ OrderOK(request[t]) /\ VictimOK(request[t]) /\ GivenOK(request[t])
           /\ ParsedOK(request[t])
           /\ OrphanInv /\ RequestInv /\ KeptInv
           /\ AgreeInv' /\ phase = "running" /\ UNCHANGED startVars
<1>1. FilesOK /\ LoaderOK /\ RequestOK /\ KnownInv /\ OwnInv /\ UploadIsolated
  BY Parts DEF IInvParts
<1>2. OrphanInv /\ RequestInv /\ KeptInv /\ OrderInv
  BY DEF SurviveInv, AgreeInv
<1>3. AgreeInv' /\ phase = "running" /\ UNCHANGED startVars
  BY ServeAgrees, ServeRuns DEF NoneLost
<1> QED
  BY <1>1, <1>2, <1>3 DEF RequestOK, KnownInv, OrderInv, OrphanInv, RequestInv

LEMMA ParseSurvives ==
    ASSUME NEW t \in Admins, NoneLost, IInv, AgreeInv, SurviveInv, Parse(t)
    PROVE  SurviveInv'
<1>1. Known(request[t]) /\ AgreeInv' /\ phase = "running" /\ UNCHANGED startVars
  BY ServedSurvives DEF Serve
<1>2. /\ BundlesStay /\ DOMAIN bundles' = DOMAIN bundles
      /\ UNCHANGED <<files, loaded, startVars, ghostVars>> /\ request[t].pc = "parse"
  BY SameBundles DEF Parse, At
<1>3. CASE Readable(files[request[t].file])
  <2>1. Goto(t, "check") /\ "check" \in Pcs /\ "check" \notin Removing
    BY <1>3 DEF Parse, Pcs, Removing
  <2> QED
    BY <1>1, <1>2, <1>3, <2>1, GoneSurvives
<1>4. CASE ~Readable(files[request[t].file])
  BY <1>1, <1>2, <1>4, ThrownSurvives DEF Parse
<1> QED
  BY <1>3, <1>4

LEMMA CheckExistingSurvives ==
    ASSUME NEW t \in Admins, NoneLost, IInv, AgreeInv, SurviveInv, CheckExisting(t)
    PROVE  SurviveInv'
<1>1. ParsedOK(request[t]) /\ AgreeInv' /\ phase = "running" /\ UNCHANGED startVars
  BY ServedSurvives DEF Serve
<1>2. /\ BundlesStay /\ DOMAIN bundles' = DOMAIN bundles
      /\ UNCHANGED <<files, loaded, startVars, ghostVars>> /\ request[t].pc = "check"
  BY SameBundles DEF CheckExisting, At
<1>3. request[t].op = "install" => Readable(files[request[t].file])
  BY <1>1, <1>2 DEF ParsedOK
<1>4. CASE Throw(t)
  BY <1>1, <1>2, <1>4, ThrownSurvives
<1>5. CASE \E p \in {"rename", "find"}: Goto(t, p)
  <2>1. PICK p \in {"rename", "find"}: Goto(t, p)
    BY <1>5
  <2>2. p \in Pcs /\ p \notin Removing /\ p # "cleanup"
    BY DEF Pcs, Removing
  <2> QED
    BY <1>1, <1>2, <1>3, <2>1, <2>2, GoneSurvives
<1> QED
  BY <1>4, <1>5 DEF CheckExisting

LEMMA FindVictimSurvives ==
    ASSUME NEW t \in Admins, NoneLost, IInv, AgreeInv, SurviveInv, FindVictim(t)
    PROVE  SurviveInv'
<1>1. /\ LoaderOK /\ RequestOK /\ request[t] \in Request /\ Known(request[t])
      /\ GivenOK(request[t]) /\ ParsedOK(request[t])
      /\ OrphanInv /\ AgreeInv' /\ phase = "running" /\ UNCHANGED startVars
  BY ServedSurvives DEF Serve
<1>2. /\ BundlesStay /\ DOMAIN bundles' = DOMAIN bundles
      /\ UNCHANGED <<files, loaded, startVars, ghostVars>> /\ request[t].pc = "find"
  BY SameBundles DEF FindVictim, At
<1>3. PICK r: r = request[t]
  OBVIOUS
<1>4. r.op = "install" /\ r.replace \in Names /\ Readable(files[r.file])
  BY <1>1, <1>2, <1>3 DEF Known, ParsedOK
<1>5. PICK i: i = loaded[r.replace]
  OBVIOUS
<1>6. PICK p \in Pcs: p = IF i = 0 THEN "rename" ELSE "active"
  BY DEF Pcs
<1>7. PICK q: q = [r EXCEPT !.victim = i, !.pc = p]
  OBVIOUS
<1>8. request' = [request EXCEPT ![t] = q]
  BY <1>3, <1>5, <1>6, <1>7 DEF FindVictim
<1>9. request'[t] = q
  BY <1>1, <1>8 DEF RequestOK
<1>10. Kin(r, q) /\ q.file = r.file /\ q.pc = p /\ q.victim = i
  BY <1>1, <1>3, <1>7 DEF Request, Kin
<1>11. OrderOK(q)'
  BY <1>1, <1>9 DEF AgreeInv, OrderInv, OrderOK, OrderAt
<1>12. VictimOK(q)
  BY <1>1, <1>4, <1>5, <1>6, <1>10 DEF VictimOK, OrphanInv, Kin, Removing
<1>13. GivenOK(q)'
  BY <1>1, <1>2, <1>3, <1>10 DEF GivenOK, Kin, ghostVars
<1>14. ParsedOK(q)
  BY <1>4, <1>6, <1>10 DEF ParsedOK, Kin
<1>15. \A n \in Names: Replaces(request[t], n) => Replaces(q, n)
  BY <1>2 DEF Replaces
<1>16. given' = given /\ orphans' = orphans /\ dropped' = dropped
  BY <1>2 DEF ghostVars
<1> QED
  BY <1>1, <1>2, <1>8, <1>11, <1>12, <1>13, <1>14, <1>15, <1>16, QuietSurvives

\* From one step of a removal to the next, or out of it.
LEMMA RemovalSurvives ==
    ASSUME NEW t \in Admins, NoneLost, IInv, AgreeInv, SurviveInv, Serve(t),
           request[t].pc \in Removing,
           BundlesStay, DOMAIN bundles' = DOMAIN bundles,
           UNCHANGED <<files, loaded, startVars, ghostVars>>,
           Throw(t) \/ \E p \in Removing: Goto(t, p)
    PROVE  SurviveInv'
<1>1. ParsedOK(request[t]) /\ AgreeInv' /\ phase = "running"
  BY ServedSurvives
<1>2. request[t].pc \notin {"mark", "rename", "load", "cleanup"}
  BY DEF Removing
<1>3. CASE Throw(t)
  BY <1>1, <1>2, <1>3, ThrownSurvives
<1>4. ASSUME NEW p \in Removing, Goto(t, p) PROVE SurviveInv'
  <2>1. p \in Pcs /\ p # "cleanup"
    BY DEF Removing, Pcs
  <2>2. request[t].op = "install" => Readable(files[request[t].file])
    BY <1>1 DEF ParsedOK
  <2> QED
    BY <1>1, <1>2, <1>4, <2>1, <2>2, GoneSurvives
<1> QED
  BY <1>3, <1>4

LEMMA LookIfActiveSurvives ==
    ASSUME NEW t \in Admins, NoneLost, IInv, AgreeInv, SurviveInv, LookIfActive(t)
    PROVE  SurviveInv'
<1>1. /\ BundlesStay /\ DOMAIN bundles' = DOMAIN bundles
      /\ UNCHANGED <<files, loaded, startVars, ghostVars>>
  BY SameBundles DEF LookIfActive
<1>2. request[t].pc \in Removing /\ \E p \in Removing: Goto(t, p)
  BY DEF LookIfActive, At, Removing
<1> QED
  BY <1>1, <1>2, RemovalSurvives DEF Serve

LEMMA StopVictimSurvives ==
    ASSUME NEW t \in Admins, NoneLost, IInv, AgreeInv, SurviveInv, StopVictim(t)
    PROVE  SurviveInv'
<1>1. LoaderOK
  BY Parts DEF IInvParts
<1>2. /\ BundlesStay /\ DOMAIN bundles' = DOMAIN bundles
      /\ UNCHANGED <<files, loaded, startVars, ghostVars>>
  BY <1>1, SameBundles, StatesStay DEF StopVictim, SetVictim
<1>3. request[t].pc \in Removing /\ (Throw(t) \/ \E p \in Removing: Goto(t, p))
  BY DEF StopVictim, At, Removing
<1> QED
  BY <1>2, <1>3, RemovalSurvives DEF Serve

LEMMA VictimStoppedSurvives ==
    ASSUME NEW t \in Admins, NoneLost, IInv, AgreeInv, SurviveInv, VictimStopped(t)
    PROVE  SurviveInv'
<1>1. LoaderOK
  BY Parts DEF IInvParts
<1>2. /\ BundlesStay /\ DOMAIN bundles' = DOMAIN bundles
      /\ UNCHANGED <<files, loaded, startVars, ghostVars>>
  BY <1>1, StatesStay DEF VictimStopped, SetVictim
<1>3. request[t].pc \in Removing /\ (Throw(t) \/ \E p \in Removing: Goto(t, p))
  BY DEF VictimStopped, At, Removing
<1> QED
  BY <1>2, <1>3, RemovalSurvives DEF Serve

LEMMA CheckUninstallSurvives ==
    ASSUME NEW t \in Admins, NoneLost, IInv, AgreeInv, SurviveInv, CheckUninstall(t)
    PROVE  SurviveInv'
<1>1. /\ BundlesStay /\ DOMAIN bundles' = DOMAIN bundles
      /\ UNCHANGED <<files, loaded, startVars, ghostVars>>
  BY SameBundles DEF CheckUninstall
<1>2. request[t].pc \in Removing /\ (Throw(t) \/ \E p \in Removing: Goto(t, p))
  BY DEF CheckUninstall, At, Removing
<1> QED
  BY <1>1, <1>2, RemovalSurvives DEF Serve

LEMMA MarkUninstalledSurvives ==
    ASSUME NEW t \in Admins, NoneLost, IInv, AgreeInv, SurviveInv, MarkUninstalled(t)
    PROVE  SurviveInv'
<1>1. /\ LoaderOK /\ RequestOK /\ request[t] \in Request /\ Known(request[t])
      /\ GivenOK(request[t]) /\ ParsedOK(request[t])
      /\ AgreeInv' /\ phase = "running" /\ UNCHANGED startVars
  BY ServedSurvives DEF Serve
<1>2. /\ BundlesStay /\ DOMAIN bundles' = DOMAIN bundles
      /\ UNCHANGED <<files, loaded, startVars, ghostVars>>
      /\ request[t].pc = "mark"
  BY <1>1, StatesStay DEF MarkUninstalled, SetVictim, At
<1>3. CASE request[t].op # "install"
  BY <1>1, <1>2, <1>3, EndedSurvives DEF MarkUninstalled
<1>4. CASE request[t].op = "install"
  <2>1. PICK q: q = [request[t] EXCEPT !.pc = "rename"]
    OBVIOUS
  <2>2. /\ Kin(request[t], q) /\ q.file = request[t].file /\ q.pc = "rename"
        /\ q.victim = request[t].victim
    BY <1>1, <2>1, AtPc DEF Pcs
  <2>3. request' = [request EXCEPT ![t] = q]
    BY <1>4, <2>1 DEF MarkUninstalled, Goto
  <2>4. request'[t] = q
    BY <1>1, <2>3 DEF RequestOK
  <2>5. OrderOK(q)'
    BY <1>1, <2>4 DEF AgreeInv, OrderInv, OrderOK, OrderAt
  <2>6. VictimOK(q)
    BY <2>2 DEF VictimOK, Removing
  <2>7. GivenOK(q)'
    BY <1>1, <1>2, <2>2 DEF GivenOK, Kin, ghostVars
  <2>8. ParsedOK(q)
    BY <1>1, <1>2, <2>2 DEF ParsedOK, Kin, Removing
  <2>9. \A n \in Names: Replaces(request[t], n) => Replaces(q, n)
    BY <2>2 DEF Replaces, Kin
  <2>10. given' = given /\ orphans' = orphans /\ dropped' = dropped
    BY <1>2 DEF ghostVars
  <2> QED
    BY <1>1, <1>2, <2>3, <2>5, <2>6, <2>7, <2>8, <2>9, <2>10, QuietSurvives
<1> QED
  BY <1>3, <1>4

LEMMA BeginInstallSurvives ==
    ASSUME NEW t \in Admins, NoneLost, IInv, AgreeInv, SurviveInv, BeginInstall(t)
    PROVE  SurviveInv'
<1>1. RequestOK /\ Known(request[t]) /\ AgreeInv' /\ phase = "running" /\ UNCHANGED startVars
  BY ServedSurvives DEF Serve
<1>2. /\ BundlesStay /\ DOMAIN bundles' = DOMAIN bundles
      /\ UNCHANGED <<files, loaded, startVars, orphans, dropped>>
      /\ request[t].pc = "idle"
  BY SameBundles DEF BeginInstall, At
<1>3. PICK n \in Names, v \in Versions, old \in Names \cup {NoName}:
        LET r == [op |-> "install", upload |-> [name |-> n, version |-> v, cut |-> "none"],
                  replace |-> old, pc |-> "create", file |-> <<"tmp", serial>>, victim |-> 0]
        IN  request' = [request EXCEPT ![t] = r] /\ given' = given \cup ({old} \ {n, NoName})
  BY DEF BeginInstall
<1>4. PICK q: q = [op |-> "install", upload |-> [name |-> n, version |-> v, cut |-> "none"],
                   replace |-> old, pc |-> "create", file |-> <<"tmp", serial>>, victim |-> 0]
  OBVIOUS
<1>5. request' = [request EXCEPT ![t] = q] /\ given' = given \cup ({old} \ {n, NoName})
  BY <1>3, <1>4
<1>6. q.op = "install" /\ q.upload.name = n /\ q.replace = old /\ q.pc = "create"
  BY <1>4
<1>7. OrderOK(q)' /\ VictimOK(q) /\ ParsedOK(q)
  BY <1>6 DEF OrderOK, OrderAt, VictimOK, ParsedOK, Removing
<1>8. GivenOK(q)'
  BY <1>5, <1>6 DEF GivenOK
<1>9. \A m \in Names: Replaces(request[t], m) => Replaces(q, m)
  BY <1>2 DEF Replaces
<1> QED
  BY <1>1, <1>2, <1>5, <1>7, <1>8, <1>9, QuietSurvives

LEMMA BeginUninstallSurvives ==
    ASSUME NEW t \in Admins, NoneLost, IInv, AgreeInv, SurviveInv, BeginUninstall(t)
    PROVE  SurviveInv'
<1>1. /\ LoaderOK /\ RequestOK /\ Known(request[t]) /\ OrphanInv /\ AgreeInv'
      /\ phase = "running" /\ UNCHANGED startVars
  BY ServedSurvives DEF Serve
<1>2. /\ BundlesStay /\ DOMAIN bundles' = DOMAIN bundles
      /\ UNCHANGED <<files, loaded, startVars, orphans, dropped>>
      /\ request[t].pc = "idle"
  BY SameBundles DEF BeginUninstall, At
<1>3. PICK n \in Names:
        LET r == [NoRequest EXCEPT !.op = "uninstall", !.replace = n, !.pc = "uninstall", !.victim = loaded[n]]
        IN  loaded[n] # 0 /\ request' = [request EXCEPT ![t] = r] /\ given' = given \cup {n}
  BY DEF BeginUninstall
<1>4. PICK q: q = [NoRequest EXCEPT !.op = "uninstall", !.replace = n, !.pc = "uninstall", !.victim = loaded[n]]
  OBVIOUS
<1>5. loaded[n] # 0 /\ request' = [request EXCEPT ![t] = q] /\ given' = given \cup {n}
  BY <1>3, <1>4
<1>6. q.op = "uninstall" /\ q.replace = n /\ q.pc = "uninstall" /\ q.victim = loaded[n]
  BY <1>4 DEF NoRequest
<1>7. request'[t] = q
  BY <1>1, <1>5 DEF RequestOK
<1>8. OrderOK(q)'
  BY <1>1, <1>7 DEF AgreeInv, OrderInv, OrderOK, OrderAt
<1>9. VictimOK(q) /\ ParsedOK(q)
  BY <1>1, <1>5, <1>6 DEF VictimOK, ParsedOK, OrphanInv
<1>10. GivenOK(q)'
  BY <1>5, <1>6 DEF GivenOK
<1>11. \A m \in Names: Replaces(request[t], m) => Replaces(q, m)
  BY <1>2 DEF Replaces
<1> QED
  BY <1>1, <1>2, <1>5, <1>8, <1>9, <1>10, <1>11, QuietSurvives

\* A step that writes the request's own temporary file.
LEMMA OwnFileSurvives ==
    ASSUME NEW t \in Admins, NEW q, IInv, AgreeInv, SurviveInv, AgreeInv',
           UNCHANGED <<bundles, loaded, startVars, ghostVars>>, phase = "running",
           request[t].op = "install", request[t].file \in TempFiles,
           request[t].pc \notin {"mark", "rename"},
           \A f \in FileNames: f # request[t].file => files'[f] = files[f],
           request' = [request EXCEPT ![t] = q], Kin(request[t], q), q.pc \in {"copy", "parse"}
    PROVE  SurviveInv'
<1>1. RequestOK /\ OwnInv /\ KnownInv /\ OrphanInv /\ RequestInv /\ KeptInv
  BY Parts DEF IInvParts, SurviveInv
<1>2. OthersFiles(t)
  BY <1>1 DEF OthersFiles, OwnInv, KnownInv, Known
<1>3. request'[t] = q
  BY <1>1 DEF RequestOK
<1>4. OrderOK(q)'
  BY <1>3 DEF AgreeInv, OrderInv, OrderOK, OrderAt
<1>5. VictimOK(q) /\ ParsedOK(q)'
  BY DEF VictimOK, ParsedOK, Removing
<1>6. GivenOK(q)'
  BY <1>1 DEF RequestInv, GivenOK, Kin, ghostVars
<1>7. \A n \in Names: Replaces(request[t], n) => Replaces(q, n)'
  BY DEF Replaces
<1>8. \A f \in Names \X Versions: files'[f] = files[f]
  BY TempIsNoName DEF FileNames
<1>9. /\ BundlesStay /\ DOMAIN bundles' = DOMAIN bundles
      /\ given' = given /\ orphans' = orphans /\ dropped' = dropped
  BY SameBundles DEF ghostVars
<1>10. OrphanInv'
  BY <1>1, <1>4, <1>5, <1>9, OrphanStep
<1>11. RequestInv'
  BY <1>1, <1>2, <1>5, <1>6, <1>9, RequestStep
<1>12. KeptInv'
  BY <1>1, <1>2, <1>7, <1>8, <1>9, KeptStep
<1> QED
  BY <1>10, <1>11, <1>12 DEF SurviveInv

LEMMA CreateFileSurvives ==
    ASSUME NEW t \in Admins, NoneLost, IInv, AgreeInv, SurviveInv, CreateFile(t)
    PROVE  SurviveInv'
<1>1. /\ FilesOK /\ request[t] \in Request /\ Known(request[t])
      /\ AgreeInv' /\ phase = "running" /\ UNCHANGED startVars
  BY ServedSurvives DEF Serve
<1>2. request[t].pc = "create" /\ UNCHANGED <<bundles, loaded, startVars, ghostVars>>
  BY DEF CreateFile, At
<1>3. request[t].op = "install" /\ request[t].file \in TempFiles
  BY <1>1, <1>2 DEF Known
<1>4. PICK q: q = [request[t] EXCEPT !.pc = "copy"]
  OBVIOUS
<1>5. Kin(request[t], q) /\ q.pc = "copy"
  BY <1>1, <1>4, AtPc DEF Pcs
<1>6. request' = [request EXCEPT ![t] = q]
  BY <1>4 DEF CreateFile, Goto
<1>7. \A f \in FileNames: f # request[t].file => files'[f] = files[f]
  BY <1>1 DEF CreateFile, FilesOK
<1> QED
  BY <1>1, <1>2, <1>3, <1>5, <1>6, <1>7, OwnFileSurvives

LEMMA CopyPartSurvives ==
    ASSUME NEW t \in Admins, NoneLost, IInv, AgreeInv, SurviveInv, CopyPart(t)
    PROVE  SurviveInv'
<1>1. /\ FilesOK /\ RequestOK /\ Known(request[t])
      /\ AgreeInv' /\ phase = "running" /\ UNCHANGED startVars
  BY ServedSurvives DEF Serve
<1>2. request[t].pc = "copy" /\ UNCHANGED <<bundles, loaded, startVars, ghostVars>>
  BY DEF CopyPart, At
<1>3. request[t].op = "install" /\ request[t].file \in TempFiles
  BY <1>1, <1>2 DEF Known
<1>4. PICK q: q = request[t]
  OBVIOUS
<1>5. Kin(request[t], q) /\ q.pc = "copy"
  BY <1>2, <1>4 DEF Kin
<1>6. request' = [request EXCEPT ![t] = q]
  BY <1>1, <1>4 DEF CopyPart, RequestOK
<1>7. \A f \in FileNames: f # request[t].file => files'[f] = files[f]
  BY <1>1, WrittenFile DEF CopyPart
<1> QED
  BY <1>1, <1>2, <1>3, <1>5, <1>6, <1>7, OwnFileSurvives

LEMMA CopyEndSurvives ==
    ASSUME NEW t \in Admins, NoneLost, IInv, AgreeInv, SurviveInv, CopyEnd(t)
    PROVE  SurviveInv'
<1>1. /\ FilesOK /\ request[t] \in Request /\ Known(request[t])
      /\ AgreeInv' /\ phase = "running" /\ UNCHANGED startVars
  BY ServedSurvives DEF Serve
<1>2. request[t].pc = "copy" /\ UNCHANGED <<bundles, loaded, startVars, ghostVars>>
  BY DEF CopyEnd, At
<1>3. request[t].op = "install" /\ request[t].file \in TempFiles
  BY <1>1, <1>2 DEF Known
<1>4. PICK q: q = [request[t] EXCEPT !.pc = "parse"]
  OBVIOUS
<1>5. Kin(request[t], q) /\ q.pc = "parse"
  BY <1>1, <1>4, AtPc DEF Pcs
<1>6. request' = [request EXCEPT ![t] = q]
  BY <1>4 DEF CopyEnd, Goto
<1>7. \A f \in FileNames: f # request[t].file => files'[f] = files[f]
  BY <1>1, WrittenFile DEF CopyEnd
<1> QED
  BY <1>1, <1>2, <1>3, <1>5, <1>6, <1>7, OwnFileSurvives

\* The old version goes; the new one is in its temporary file.
LEMMA UnloadSurvives ==
    ASSUME NEW t \in Admins, NoneLost, IInv, AgreeInv, SurviveInv, Unload(t)
    PROVE  SurviveInv'
<1>1. /\ FilesOK /\ LoaderOK /\ RequestOK /\ request[t] \in Request /\ Known(request[t])
      /\ UploadIsolated
      /\ OrderOK(request[t]) /\ VictimOK(request[t]) /\ GivenOK(request[t]) /\ ParsedOK(request[t])
      /\ OrphanInv /\ RequestInv /\ KeptInv
      /\ AgreeInv' /\ phase = "running" /\ UNCHANGED startVars
  BY ServedSurvives DEF Serve
<1>2. /\ BundlesStay /\ DOMAIN bundles' = DOMAIN bundles
      /\ UNCHANGED <<bundles, startVars, ghostVars>>
      /\ request[t].pc = "unload" /\ orphans' = orphans /\ given' = given
      /\ dropped' = dropped
  BY SameBundles DEF Unload, At, ghostVars
<1>3. CASE Throw(t) /\ UNCHANGED <<files, loaded>>
  <2>1. request[t].pc \in Removing
    BY <1>2 DEF Removing
  <2> QED
    BY <1>2, <1>3, <2>1, RemovalSurvives DEF Serve
<1>4. CASE ~(Throw(t) /\ UNCHANGED <<files, loaded>>)
  <2>1. /\ files' = [files EXCEPT ![Victim(t).file] = Absent]
        /\ loaded' = [loaded EXCEPT ![Victim(t).name] = 0]
        /\ Goto(t, "mark")
    BY <1>4 DEF Unload
  <2>2. PICK q: q = [request[t] EXCEPT !.pc = "mark"]
    OBVIOUS
  <2>3. /\ Kin(request[t], q) /\ q.file = request[t].file /\ q.pc = "mark"
        /\ q.op = request[t].op /\ q.upload = request[t].upload /\ q.replace = request[t].replace
        /\ q.victim = request[t].victim
    BY <1>1, <2>2, AtPc DEF Pcs, Kin
  <2>4. request' = [request EXCEPT ![t] = q]
    BY <2>1, <2>2 DEF Goto
  <2>5. request'[t] = q
    BY <1>1, <2>4 DEF RequestOK
  <2>6. request[t].victim \in DOMAIN bundles /\ bundles[request[t].victim].name = request[t].replace
    BY <1>1, <1>2 DEF OrderOK, OrderAt, Removing
  <2>a. request[t].victim # 0
    BY <1>1, <2>6, Indices
  <2>7. PICK e \in Bundle: e = Victim(t) /\ (e.file \in TempFiles \/ e.file = <<e.name, e.version>>)
    BY <1>1, <2>6, Indices DEF AgreeInv, NamedInv, Victim
  <2>8. e.name \in Names /\ e.file \in FileNames /\ e.name = request[t].replace /\ e.name # NoName
    BY <2>6, <2>7, RepositoryAssumption DEF Bundle, Victim
  <2>9. /\ \A f \in FileNames: files'[f] = IF f = e.file THEN Absent ELSE files[f]
        /\ \A n \in Names: loaded'[n] = IF n = e.name THEN 0 ELSE loaded[n]
    BY <1>1, <2>1, <2>7 DEF FilesOK, LoaderOK
  <2>10. e.file \in TempFiles => request[t].replace \in orphans /\ \A u \in Admins: u = t
    BY <1>1, <1>2, <2>6, <2>7 DEF VictimOK, OrphanInv, Removing, Victim, NoneLost
  <2>11. OrderOK(q)'
    BY <1>1, <2>5 DEF AgreeInv, OrderInv, OrderOK, OrderAt
  <2>12. VictimOK(q)
    BY <2>3 DEF VictimOK, Removing
  <2>13. GivenOK(q)'
    BY <1>1, <1>2, <2>3 DEF GivenOK
  <2>14. ASSUME q.op = "install"
         PROVE  /\ q.file \in TempFiles /\ q.file \in FileNames /\ q.upload.name \in Names
                /\ IF q.file = e.file THEN files'[q.file] = Absent
                                      ELSE files'[q.file] = files[q.file] /\ Readable(files[q.file])
    <3>1. q.file \in TempFiles /\ q.file \in FileNames /\ q.upload.name \in Names
      BY <1>1, <1>2, <2>3, <2>14 DEF Known, Content
    <3>2. Readable(files[q.file])
      BY <1>1, <1>2, <2>3, <2>14 DEF ParsedOK, Removing
    <3> QED
      BY <2>9, <3>1, <3>2
  <2>15. ParsedOK(q)'
    <3>1. q.op = "install" => Readable(files'[q.file]) \/ (files'[q.file] = Absent /\ q.replace \in orphans)
      BY <2>3, <2>10, <2>14
    <3> QED
      BY <1>2, <2>3, <3>1 DEF ParsedOK, Readable, Removing
  <2>16. OthersFiles(t)
    <3> SUFFICES ASSUME NEW u \in Admins, u # t, request[u].op = "install"
                 PROVE  files'[request[u].file] = files[request[u].file]
      BY DEF OthersFiles
    <3>1. Known(request[u]) /\ OrderOK(request[u])
      BY Parts DEF IInvParts, KnownInv, AgreeInv, OrderInv
    <3>2. request[u].file \in FileNames /\ request[u].upload.name \in Names
      BY <3>1 DEF Known, Content
    <3>3. e.file \notin TempFiles
      BY <2>10
    <3>4. request[u].file # e.file
      <4>1. CASE request[u].file \in TempFiles
        BY <3>3, <4>1
      <4>2. CASE request[u].file \notin TempFiles
        <5>1. request[u].file = FinalName(request[u].upload)
          BY <3>1, <4>2 DEF Known, OrderOK, OrderAt
        <5>2. request[u].upload.name # e.name
          <6>1. Concerned(request[t]) \cap Concerned(request[u]) = {}
            BY DEF AgreeInv, ApartInv
          <6>2. request[u].upload.name \in Concerned(request[u])
            BY <3>2, RepositoryAssumption DEF Concerned
          <6>3. e.name \in Concerned(request[t])
            BY <2>8 DEF Concerned
          <6> QED
            BY <6>1, <6>2, <6>3
        <5> QED
          BY <2>7, <3>3, <5>1, <5>2 DEF FinalName
      <4> QED
        BY <4>1, <4>2
    <3> QED
      BY <2>9, <3>2, <3>4
  <2>17. OrphanInv'
    <3>1. \A n \in Names: loaded'[n] \in {loaded[n], 0}
      BY <2>9
    <3> QED
      BY <1>1, <1>2, <2>4, <2>11, <2>12, <3>1, OrphanStep
  <2>18. RequestInv'
    BY <1>1, <1>2, <2>4, <2>13, <2>15, <2>16, RequestStep
  <2>19. KeptInv'
    <3> SUFFICES ASSUME NEW n \in Names, n \notin given, n \notin orphans, n \notin dropped
                 PROVE  Kept(n)'
      BY <1>2 DEF KeptInv
    <3>1. Kept(n)
      BY <1>1 DEF KeptInv
    <3>2. CASE n = e.name
      <4>1. q.op = "install" /\ q.upload.name = n /\ q.replace = n
        <5>1. request[t].replace = n /\ n # NoName
          BY <2>8, <3>2
        <5>2. ~(request[t].op = "uninstall" \/ (request[t].op = "install" /\ request[t].replace # request[t].upload.name))
          BY <1>1, <5>1 DEF GivenOK
        <5>3. request[t].op \in {"install", "uninstall"}
          BY <1>1, <1>2 DEF Request, Known
        <5> QED
          BY <2>3, <5>1, <5>2, <5>3
      <4>2. e.file \notin TempFiles
        BY <2>3, <2>10, <4>1
      <4>3. Readable(files'[q.file])
        BY <2>14, <4>1, <4>2
      <4>4. Replaces(q, n)'
        BY <2>3, <2>a, <4>1, <4>3 DEF Replaces, Readable
      <4> QED
        BY <2>5, <4>4 DEF Kept, Replaces
    <3>3. CASE n # e.name
      <4>1. CASE \E f \in Names \X Versions: Readable(files[f]) /\ files[f].name = n
        <5>1. PICK f \in Names \X Versions: Readable(files[f]) /\ files[f].name = n
          BY <4>1
        <5>2. f \in FileNames /\ f \notin TempFiles /\ f[1] = n
          BY <5>1, TempIsNoName DEF FileNames, AgreeInv, NamedInv, Readable
        <5>3. f # e.file
          BY <2>7, <3>3, <5>2
        <5>4. files'[f] = files[f]
          BY <2>9, <5>2, <5>3
        <5> QED
          BY <5>1, <5>4 DEF Kept, Readable
      <4>2. CASE \E u \in Admins: Replaces(request[u], n)
        <5>1. PICK u \in Admins: Replaces(request[u], n)
          BY <4>2
        <5>2. u # t
          BY <1>2, <5>1 DEF Replaces
        <5>3. request'[u] = request[u] /\ files'[request[u].file] = files[request[u].file]
          BY <1>1, <2>4, <2>16, <5>1, <5>2 DEF OthersFiles, Replaces, RequestOK
        <5>4. Replaces(request[u], n)'
          BY <5>1, <5>3 DEF Replaces, Readable
        <5> QED
          BY <5>4 DEF Kept
      <4> QED
        BY <3>1, <4>1, <4>2 DEF Kept
    <3> QED
      BY <3>2, <3>3
  <2> QED
    BY <2>17, <2>18, <2>19 DEF SurviveInv
<1> QED
  BY <1>3, <1>4

\* The new version gets its name.
LEMMA RenameSurvives ==
    ASSUME NEW t \in Admins, NoneLost, IInv, AgreeInv, SurviveInv, Rename(t)
    PROVE  SurviveInv'
<1>1. /\ FilesOK /\ LoaderOK /\ RequestOK /\ request[t] \in Request /\ Known(request[t])
      /\ OwnInv /\ UploadIsolated
      /\ GivenOK(request[t]) /\ ParsedOK(request[t])
      /\ OrphanInv /\ RequestInv /\ KeptInv
      /\ AgreeInv' /\ phase = "running" /\ UNCHANGED startVars
  BY ServedSurvives DEF Serve
<1>2. /\ BundlesStay /\ DOMAIN bundles' = DOMAIN bundles
      /\ UNCHANGED <<bundles, loaded, startVars>>
      /\ request[t].pc = "rename" /\ orphans' = orphans /\ given' = given
      /\ dropped \subseteq dropped'
  BY SameBundles DEF Rename, At
<1>3. request[t].op = "install" /\ request[t].file \in TempFiles /\ request[t].file \in FileNames
  BY <1>1, <1>2 DEF Known
<1>a. \A n \in Names: loaded'[n] \in {loaded[n], 0}
  BY <1>2
<1>4. CASE Throw(t) /\ dropped' = dropped \cup Replaced(request[t]) /\ UNCHANGED files
  <2>2. PICK q: q = [request[t] EXCEPT !.pc = "cleanup"]
    OBVIOUS
  <2>3. Kin(request[t], q) /\ q.file = request[t].file /\ q.pc = "cleanup"
    BY <1>1, <2>2, AtPc DEF Pcs
  <2>4. request' = [request EXCEPT ![t] = q]
    BY <1>3, <1>4, <2>2 DEF Throw, Goto
  <2>5. request'[t] = q
    BY <1>1, <2>4 DEF RequestOK
  <2>6. OrderOK(q)'
    BY <1>1, <2>5 DEF AgreeInv, OrderInv, OrderOK, OrderAt
  <2>7. VictimOK(q) /\ ParsedOK(q)
    BY <1>3, <2>3 DEF VictimOK, ParsedOK, Removing
  <2>8. GivenOK(q)'
    BY <1>1, <1>2, <2>3 DEF GivenOK, Kin
  <2>9. \A n \in Names: Replaces(request[t], n) => n \in dropped'
    BY <1>4 DEF Replaces, Replaced
  <2> QED
    BY <1>1, <1>2, <1>4, <2>4, <2>6, <2>7, <2>8, <2>9, QuietSurvives
<1>5. CASE ~(Throw(t) /\ dropped' = dropped \cup Replaced(request[t]) /\ UNCHANGED files)
  <2>1. PICK f: f = request[t].file
    OBVIOUS
  <2>2. PICK g: g = FinalName(request[t].upload)
    OBVIOUS
  <2>3. PICK q: q = [request[t] EXCEPT !.pc = "load", !.file = g]
    OBVIOUS
  <2>4. /\ files' = [files EXCEPT ![g] = files[f], ![f] = Absent]
        /\ request' = [request EXCEPT ![t].pc = "load", ![t].file = g]
        /\ files[f] # Absent /\ dropped' = dropped
    BY <1>5, <2>1, <2>2 DEF Rename
  <2>5. request' = [request EXCEPT ![t] = q]
    BY <2>3, <2>4
  <2>6. /\ Kin(request[t], q) /\ q.file = g /\ q.pc = "load"
        /\ q.op = request[t].op /\ q.upload = request[t].upload /\ q.replace = request[t].replace
    BY <1>1, <2>3 DEF Request, Kin
  <2>7. PICK c \in Content: c = request[t].upload /\ c.name \in Names /\ c.version \in Versions
    BY <1>1, <1>3 DEF Known, Content
  <2>8. /\ g = <<c.name, c.version>> /\ g \in FileNames /\ g \notin TempFiles
        /\ g \in Names \X Versions
    BY <2>2, <2>7, TempIsNoName DEF FinalName, FileNames
  <2>9. Readable(files[f]) /\ files[f].name = c.name
    <3>1. [files[f] EXCEPT !.cut = "none"] = c
      BY <1>1, <1>2, <1>3, <2>1, <2>4, <2>7 DEF UploadIsolated
    <3>2. files[f] \in Content
      BY <1>1, <1>3, <2>1, <2>4 DEF FilesOK
    <3>3. Readable(files[f])
      BY <1>1, <1>2, <1>3, <2>1, <2>4 DEF ParsedOK
    <3> QED
      BY <3>1, <3>2, <3>3 DEF Content
  <2>10. \A h \in FileNames: files'[h] = IF h = f THEN Absent ELSE IF h = g THEN files[f] ELSE files[h]
    BY <1>1, <2>4 DEF FilesOK
  <2>11. files'[g] = files[f]
    BY <1>3, <2>1, <2>8, <2>10
  <2>12. request'[t] = q
    BY <1>1, <2>5 DEF RequestOK
  <2>13. OrderOK(q)'
    BY <1>1, <2>12 DEF AgreeInv, OrderInv, OrderOK, OrderAt
  <2>14. VictimOK(q)
    BY <2>6 DEF VictimOK, Removing
  <2>15. GivenOK(q)'
    BY <1>1, <1>2, <2>6 DEF GivenOK
  <2>16. ParsedOK(q)'
    BY <2>6, <2>9, <2>11 DEF ParsedOK, Readable, Removing
  <2>17. ASSUME NEW u \in Admins, u # t, request[u].op = "install"
         PROVE  /\ files'[request[u].file] = files[request[u].file]
                /\ request[u].upload.name # c.name
    <3>1. Known(request[u]) /\ OrderOK(request[u])
      BY Parts DEF IInvParts, KnownInv, AgreeInv, OrderInv
    <3>2. request[u].file \in FileNames /\ request[u].upload.name \in Names
      BY <2>17, <3>1 DEF Known, Content
    <3>3. request[u].upload.name # c.name
      <4>1. Concerned(request[t]) \cap Concerned(request[u]) = {}
        BY <2>17 DEF AgreeInv, ApartInv
      <4>2. request[u].upload.name \in Concerned(request[u])
        BY <2>17, <3>2, RepositoryAssumption DEF Concerned
      <4>3. c.name \in Concerned(request[t])
        BY <1>3, <2>7, RepositoryAssumption DEF Concerned
      <4> QED
        BY <4>1, <4>2, <4>3
    <3>4. request[u].file # f
      BY <1>1, <1>3, <2>1, <2>17 DEF OwnInv
    <3>5. request[u].file # g
      <4>1. CASE request[u].file \in TempFiles
        BY <2>8, <4>1
      <4>2. CASE request[u].file \notin TempFiles
        <5>1. request[u].file = FinalName(request[u].upload)
          BY <2>17, <3>1, <4>2 DEF Known, OrderOK, OrderAt
        <5> QED
          BY <2>8, <3>3, <5>1 DEF FinalName
      <4> QED
        BY <4>1, <4>2
    <3> QED
      BY <2>10, <3>2, <3>3, <3>4, <3>5
  <2>18. OthersFiles(t)
    BY <2>17 DEF OthersFiles
  <2>19. OrphanInv'
    BY <1>1, <1>2, <1>a, <2>5, <2>13, <2>14, OrphanStep
  <2>20. RequestInv'
    BY <1>1, <1>2, <2>5, <2>15, <2>16, <2>18, RequestStep
  <2>21. KeptInv'
    <3> SUFFICES ASSUME NEW n \in Names, n \notin given, n \notin orphans, n \notin dropped
                 PROVE  Kept(n)'
      BY <1>2, <2>4 DEF KeptInv
    <3>1. Kept(n)
      BY <1>1 DEF KeptInv
    <3>2. CASE n = c.name
      BY <2>8, <2>9, <2>11, <3>2 DEF Kept, Readable
    <3>3. CASE n # c.name
      <4>1. CASE \E h \in Names \X Versions: Readable(files[h]) /\ files[h].name = n
        <5>1. PICK h \in Names \X Versions: Readable(files[h]) /\ files[h].name = n
          BY <4>1
        <5>2. h \in FileNames /\ h \notin TempFiles /\ h[1] = n
          BY <5>1, TempIsNoName DEF FileNames, AgreeInv, NamedInv, Readable
        <5>3. h # g /\ h # f
          BY <1>3, <2>1, <2>8, <3>3, <5>2
        <5>4. files'[h] = files[h]
          BY <2>10, <5>2, <5>3
        <5> QED
          BY <5>1, <5>4 DEF Kept, Readable
      <4>2. CASE \E u \in Admins: Replaces(request[u], n)
        <5>1. PICK u \in Admins: Replaces(request[u], n)
          BY <4>2
        <5>2. u # t /\ request[u].op = "install"
          BY <2>7, <3>3, <5>1 DEF Replaces
        <5>3. request'[u] = request[u] /\ files'[request[u].file] = files[request[u].file]
          BY <1>1, <2>5, <2>17, <5>2 DEF RequestOK
        <5>4. Replaces(request[u], n)'
          BY <5>1, <5>3 DEF Replaces, Readable
        <5> QED
          BY <5>4 DEF Kept
      <4> QED
        BY <3>1, <4>1, <4>2 DEF Kept
    <3> QED
      BY <3>2, <3>3
  <2> QED
    BY <2>19, <2>20, <2>21 DEF SurviveInv
<1> QED
  BY <1>4, <1>5

\* The upload goes, or the file that would not load: no other request's, and of the
\* files under a final name only one of a bundle that is lost with it.
LEMMA CleanupSurvives ==
    ASSUME NEW t \in Admins, NoneLost, IInv, AgreeInv, SurviveInv, Cleanup(t)
    PROVE  SurviveInv'
<1>1. /\ FilesOK /\ RequestOK /\ Known(request[t]) /\ OwnInv /\ OrderOK(request[t])
      /\ ParsedOK(request[t])
      /\ OrphanInv /\ RequestInv /\ KeptInv
      /\ AgreeInv' /\ phase = "running" /\ UNCHANGED startVars
  BY ServedSurvives DEF Serve
<1>2. /\ BundlesStay /\ DOMAIN bundles' = DOMAIN bundles
      /\ UNCHANGED <<bundles, loaded, startVars, ghostVars>>
      /\ request[t].pc = "cleanup" /\ orphans' = orphans /\ given' = given
      /\ dropped' = dropped
  BY SameBundles DEF Cleanup, At, ghostVars
<1>3. request[t].op = "install" /\ request[t].upload.name \in Names
  BY <1>1, <1>2 DEF Known, Content
<1>4. PICK q: q = NoRequest
  OBVIOUS
<1>5. request' = [request EXCEPT ![t] = q]
  BY <1>4 DEF Cleanup, End
<1>6. OrderOK(q)' /\ VictimOK(q) /\ GivenOK(q)' /\ ParsedOK(q)'
  BY <1>4 DEF OrderOK, OrderAt, VictimOK, GivenOK, ParsedOK, NoRequest, Removing
<1>7. \A f \in FileNames: f # request[t].file => files'[f] = files[f]
  BY <1>1 DEF Cleanup, FilesOK
<1>8. OthersFiles(t)
  <2> SUFFICES ASSUME NEW u \in Admins, u # t, request[u].op = "install"
               PROVE  request[u].file \in FileNames /\ request[u].file # request[t].file
    BY <1>7 DEF OthersFiles
  <2>1. Known(request[u]) /\ OrderOK(request[u])
    BY Parts DEF IInvParts, KnownInv, AgreeInv, OrderInv
  <2>2. request[u].file \in FileNames /\ request[u].upload.name \in Names
    BY <2>1 DEF Known, Content
  <2>3. CASE request[u].file \in TempFiles
    BY <1>1, <1>3, <2>2, <2>3 DEF OwnInv
  <2>4. CASE request[t].file \in TempFiles
    BY <1>1, <1>3, <2>2, <2>4 DEF OwnInv
  <2>5. CASE request[u].file \notin TempFiles /\ request[t].file \notin TempFiles
    <3>1. /\ request[u].file = FinalName(request[u].upload)
          /\ request[t].file = FinalName(request[t].upload)
      BY <1>1, <1>2, <1>3, <2>1, <2>5 DEF Known, OrderOK, OrderAt
    <3>2. request[u].upload.name # request[t].upload.name
      <4>1. Concerned(request[t]) \cap Concerned(request[u]) = {}
        BY DEF AgreeInv, ApartInv
      <4>2. /\ request[u].upload.name \in Concerned(request[u])
            /\ request[t].upload.name \in Concerned(request[t])
        BY <1>3, <2>2, RepositoryAssumption DEF Concerned
      <4> QED
        BY <4>1, <4>2
    <3> QED
      BY <2>2, <3>1, <3>2 DEF FinalName
  <2> QED
    BY <2>3, <2>4, <2>5
<1>9. \A f \in Names \X Versions:
        Readable(files[f]) => files'[f] = files[f] \/ files[f].name \in dropped'
  <2> SUFFICES ASSUME NEW f \in Names \X Versions, Readable(files[f]), f = request[t].file
               PROVE  files[f].name \in dropped
    BY <1>2, <1>7 DEF FileNames
  <2>1. f \notin TempFiles
    BY TempIsNoName
  <2>2. f = FinalName(request[t].upload) /\ request[t].upload.name \in dropped
    BY <1>1, <1>2, <1>3, <2>1 DEF OrderOK, OrderAt, ParsedOK
  <2>3. f[1] = request[t].upload.name
    BY <2>2 DEF FinalName
  <2>4. files[f].name = f[1]
    BY DEF Readable, AgreeInv, NamedInv
  <2> QED
    BY <2>2, <2>3, <2>4
<1>10. \A n \in Names: Replaces(request[t], n) => Replaces(q, n)'
  BY <1>2 DEF Replaces
<1>11. OrphanInv'
  <2>1. \A n \in Names: loaded'[n] \in {loaded[n], 0}
    BY <1>2
  <2> QED
    BY <1>1, <1>2, <1>5, <1>6, <2>1, OrphanStep
<1>12. RequestInv'
  BY <1>1, <1>2, <1>5, <1>6, <1>8, RequestStep
<1>13. KeptInv'
  BY <1>1, <1>2, <1>5, <1>8, <1>9, <1>10, KeptStep
<1> QED
  BY <1>11, <1>12, <1>13 DEF SurviveInv

\* The new version is not loaded; the clean-up is about to remove it.
LEMMA FailedLoadSurvives ==
    ASSUME NEW t \in Admins, NoneLost, IInv, AgreeInv, SurviveInv, Load(t),
           Throw(t), dropped' = dropped \cup {request[t].upload.name},
           UNCHANGED <<bundles, loaded, orphans, given>>
    PROVE  SurviveInv'
<1>1. /\ RequestOK /\ request[t] \in Request /\ Known(request[t]) /\ GivenOK(request[t])
      /\ OrphanInv /\ RequestInv /\ KeptInv
      /\ AgreeInv' /\ phase = "running" /\ UNCHANGED startVars
  BY ServedSurvives DEF Serve
<1>2. /\ BundlesStay /\ DOMAIN bundles' = DOMAIN bundles /\ UNCHANGED files
      /\ request[t].pc = "load" /\ request[t].op = "install"
  BY <1>1, SameBundles DEF Load, At, Known
<1>3. PICK q: q = [request[t] EXCEPT !.pc = "cleanup"]
  OBVIOUS
<1>4. Kin(request[t], q) /\ q.pc = "cleanup"
  BY <1>1, <1>3, AtPc DEF Pcs
<1>5. request' = [request EXCEPT ![t] = q]
  BY <1>2, <1>3 DEF Throw, Goto
<1>6. request'[t] = q
  BY <1>1, <1>5 DEF RequestOK
<1>7. OrderOK(q)'
  BY <1>1, <1>6 DEF AgreeInv, OrderInv, OrderOK, OrderAt
<1>8. VictimOK(q)
  BY <1>4 DEF VictimOK, Removing
<1>9. GivenOK(q)'
  BY <1>1, <1>4 DEF GivenOK, Kin
<1>10. ParsedOK(q)'
  BY <1>4 DEF ParsedOK, Kin, Removing
<1>11. OthersFiles(t)
  BY <1>2 DEF OthersFiles
<1>12. \A n \in Names: Replaces(request[t], n) => Replaces(q, n)'
  BY <1>2 DEF Replaces
<1>13. \A n \in Names: loaded'[n] \in {loaded[n], 0}
  OBVIOUS
<1>14. OrphanInv'
  BY <1>1, <1>2, <1>5, <1>7, <1>8, <1>13, OrphanStep
<1>15. RequestInv'
  BY <1>1, <1>5, <1>9, <1>10, <1>11, RequestStep
<1>16. KeptInv'
  BY <1>1, <1>2, <1>5, <1>11, <1>12, KeptStep
<1> QED
  BY <1>14, <1>15, <1>16 DEF SurviveInv

\* The new version is loaded.
LEMMA LoadedSurvives ==
    ASSUME NEW t \in Admins, NoneLost, IInv, AgreeInv, SurviveInv, Load(t),
           ~(/\ Throw(t) /\ dropped' = dropped \cup {request[t].upload.name}
             /\ UNCHANGED <<bundles, loaded, orphans, given>>)
    PROVE  SurviveInv'
<1>1. /\ FilesOK /\ LoaderOK /\ RequestOK /\ Known(request[t])
      /\ OrderOK(request[t]) /\ ParsedOK(request[t])
      /\ OrphanInv /\ RequestInv /\ KeptInv
      /\ AgreeInv' /\ phase = "running" /\ UNCHANGED startVars
  BY ServedSurvives DEF Serve
<1>2. request[t].pc = "load" /\ request[t].op = "install" /\ UNCHANGED files
  BY <1>1 DEF Load, At, Known
<1>3. PICK f: f = request[t].file
  OBVIOUS
<1>4. Readable(files[f]) /\ loaded[request[t].upload.name] = 0
  BY <1>1, <1>2, <1>3 DEF OrderOK, OrderAt, ParsedOK
<1>5. /\ bundles' = Append(bundles, NewBundle(f))
      /\ loaded' = [loaded EXCEPT ![files[f].name] = Len(bundles) + 1]
      /\ given' = given \ {files[f].name}
      /\ orphans' = orphans \ {files[f].name}
      /\ dropped' = dropped \ {files[f].name}
      /\ End(t)
  BY <1>3 DEF Load
<1>6. PICK c \in Content: c = request[t].upload /\ c.name \in Names /\ c.version \in Versions
  BY <1>1, <1>2 DEF Known, Content
<1>7. f = <<c.name, c.version>> /\ f \notin TempFiles /\ f \in FileNames /\ f \in Names \X Versions
  BY <1>1, <1>2, <1>3, <1>6, TempIsNoName DEF OrderOK, OrderAt, FinalName, FileNames
<1>8. files[f].name = c.name
  BY <1>4, <1>6, <1>7 DEF Readable, AgreeInv, NamedInv
<1>9. /\ given' = given \ {c.name} /\ orphans' = orphans \ {c.name}
      /\ dropped' = dropped \ {c.name}
  BY <1>5, <1>8
<1>10. \A u \in Admins: u # t => request'[u] = request[u]
  BY <1>1, <1>5 DEF End, RequestOK
<1>11. request'[t] = NoRequest
  BY <1>1, <1>5 DEF End, RequestOK
<1>12. ASSUME NEW u \in Admins, u # t
       PROVE  (request[u].op # "none" => request[u].replace # c.name) /\ (request[u].op = "install" => request[u].upload.name # c.name)
  <2>1. Concerned(request[t]) \cap Concerned(request[u]) = {}
    BY <1>12 DEF AgreeInv, ApartInv
  <2>2. c.name \in Concerned(request[t]) /\ c.name # NoName
    BY <1>2, <1>6, RepositoryAssumption DEF Concerned
  <2>3. c.name \notin Concerned(request[u])
    BY <2>1, <2>2
  <2> QED
    BY <2>2, <2>3 DEF Concerned
<1>13. PICK e: e = NewBundle(f)
  OBVIOUS
<1>14. e \in Bundle /\ e.file = f
  BY <1>1, <1>4, <1>7, <1>13, NewBundleType DEF NewBundle
<1>15. /\ \A k \in DOMAIN bundles: bundles'[k] = bundles[k] /\ k \in DOMAIN bundles'
       /\ Len(bundles) + 1 \in DOMAIN bundles' /\ bundles'[Len(bundles) + 1] = e
       /\ \A k \in DOMAIN bundles': k \in DOMAIN bundles \/ k = Len(bundles) + 1
  <2>1. bundles \in Seq(Bundle) /\ bundles' = Append(bundles, e) /\ Len(bundles) \in Nat
    BY <1>1, <1>5, <1>13 DEF LoaderOK
  <2>2. Len(bundles') = Len(bundles) + 1 /\ bundles' \in Seq(Bundle)
    BY <1>14, <2>1
  <2>3. bundles'[Len(bundles) + 1] = e /\ \A k \in 1 .. Len(bundles): bundles'[k] = bundles[k]
    BY <1>14, <2>1
  <2>4. DOMAIN bundles' = 1 .. Len(bundles) + 1 /\ DOMAIN bundles = 1 .. Len(bundles)
    BY <2>1, <2>2
  <2>5. PICK k0 \in Nat: k0 = Len(bundles)
    BY <2>1
  <2>6. DOMAIN bundles' = 1 .. k0 + 1 /\ DOMAIN bundles = 1 .. k0
    BY <2>4, <2>5
  <2>7. k0 + 1 \in 1 .. k0 + 1 /\ \A k \in 1 .. k0: k \in 1 .. k0 + 1
    OBVIOUS
  <2>8. \A k \in 1 .. k0 + 1: k \in 1 .. k0 \/ k = k0 + 1
    OBVIOUS
  <2> QED
    BY <2>3, <2>5, <2>6, <2>7, <2>8
<1>16. OrphanInv'
  <2>1. MaxCrashes = 0 => \A k \in DOMAIN bundles': bundles'[k].file \notin TempFiles
    BY <1>1, <1>7, <1>14, <1>15 DEF OrphanInv
  <2>2. ASSUME NEW n \in Names, loaded'[n] # 0, bundles'[loaded'[n]].file \in TempFiles
        PROVE  n \in orphans'
    <3>1. CASE n = c.name
      BY <1>1, <1>5, <1>7, <1>8, <1>14, <1>15, <2>2, <3>1 DEF LoaderOK
    <3>2. CASE n # c.name
      <4>1. loaded'[n] = loaded[n] /\ loaded[n] \in DOMAIN bundles
        BY <1>1, <1>5, <1>8, <2>2, <3>2, Indices DEF LoaderOK
      <4>2. bundles'[loaded'[n]] = bundles[loaded[n]]
        BY <1>15, <4>1
      <4> QED
        BY <1>1, <1>9, <2>2, <3>2, <4>1, <4>2 DEF OrphanInv
    <3> QED
      BY <3>1, <3>2
  <2>3. ASSUME NEW u \in Admins PROVE VictimOK(request[u])'
    <3>1. CASE u = t
      BY <1>11, <3>1 DEF VictimOK, NoRequest, Removing
    <3>2. CASE u # t
      <4>1. PICK r: r = request[u]
        OBVIOUS
      <4>2. VictimOK(r) /\ OrderOK(r) /\ Known(r) /\ request'[u] = r
        BY <1>1, <1>10, <3>2, <4>1, Parts DEF OrphanInv, AgreeInv, OrderInv, IInvParts, KnownInv
      <4>3. r.pc \in Removing => r.op # "none" /\ r.replace # c.name
        BY <1>12, <3>2, <4>1, <4>2 DEF Known, Removing
      <4>4. r.pc \in Removing => bundles'[r.victim] = bundles[r.victim]
        BY <1>15, <4>2 DEF OrderOK, OrderAt
      <4> QED
        BY <1>9, <4>2, <4>3, <4>4 DEF VictimOK
    <3> QED
      BY <3>1, <3>2
  <2>4. phase' = "running"
    BY <1>1 DEF startVars
  <2> QED
    BY <2>1, <2>2, <2>3, <2>4 DEF OrphanInv
<1>17. RequestInv'
  <2> SUFFICES ASSUME NEW u \in Admins PROVE (GivenOK(request[u]) /\ ParsedOK(request[u]))'
    BY DEF RequestInv
  <2>1. CASE u = t
    BY <1>11, <2>1 DEF GivenOK, ParsedOK, NoRequest
  <2>2. CASE u # t
    <3>1. PICK r: r = request[u]
      OBVIOUS
    <3>2. GivenOK(r) /\ ParsedOK(r) /\ request'[u] = r
      BY <1>1, <1>10, <2>2, <3>1 DEF RequestInv
    <3>3. r.op # "none" => r.replace # c.name
      BY <1>12, <2>2, <3>1
    <3>4. GivenOK(r)'
      BY <1>9, <3>2, <3>3 DEF GivenOK
    <3>5. ParsedOK(r)'
      BY <1>2, <1>9, <1>12, <2>2, <3>1, <3>2, <3>3 DEF ParsedOK, Readable
    <3> QED
      BY <3>2, <3>4, <3>5 DEF GivenOK, ParsedOK
  <2> QED
    BY <2>1, <2>2
<1>18. KeptInv'
  <2> SUFFICES ASSUME NEW n \in Names, n \notin given', n \notin orphans', n \notin dropped'
               PROVE  Kept(n)'
    BY DEF KeptInv
  <2>1. CASE n = c.name
    BY <1>2, <1>4, <1>7, <1>8, <2>1 DEF Kept, Readable
  <2>2. CASE n # c.name
    <3>1. Kept(n)
      BY <1>1, <1>9, <2>2 DEF KeptInv
    <3>2. CASE \E h \in Names \X Versions: Readable(files[h]) /\ files[h].name = n
      BY <1>2, <3>2 DEF Kept, Readable
    <3>3. CASE \E u \in Admins: Replaces(request[u], n)
      <4>1. PICK u \in Admins: Replaces(request[u], n)
        BY <3>3
      <4>2. u # t
        BY <1>2, <4>1 DEF Replaces
      <4>3. Replaces(request[u], n)'
        BY <1>2, <1>10, <4>1, <4>2 DEF Replaces, Readable
      <4> QED
        BY <4>3 DEF Kept
    <3> QED
      BY <3>1, <3>2, <3>3 DEF Kept
  <2> QED
    BY <2>1, <2>2
<1> QED
  BY <1>16, <1>17, <1>18 DEF SurviveInv

LEMMA LoadSurvives ==
    ASSUME NEW t \in Admins, NoneLost, IInv, AgreeInv, SurviveInv, Load(t)
    PROVE  SurviveInv'
<1>a. CASE /\ Throw(t) /\ dropped' = dropped \cup {request[t].upload.name}
           /\ UNCHANGED <<bundles, loaded, orphans, given>>
  BY <1>a, FailedLoadSurvives
<1>b. CASE ~(/\ Throw(t) /\ dropped' = dropped \cup {request[t].upload.name}
             /\ UNCHANGED <<bundles, loaded, orphans, given>>)
  BY <1>b, LoadedSurvives
<1> QED
  BY <1>a, <1>b

LEMMA ServeSurvives ==
    ASSUME NEW t \in Admins, NoneLost, IInv, AgreeInv, SurviveInv, Serve(t)
    PROVE  SurviveInv'
  BY BeginInstallSurvives, BeginUninstallSurvives, CreateFileSurvives, CopyPartSurvives,
     CopyEndSurvives, ParseSurvives, CheckExistingSurvives, FindVictimSurvives,
     LookIfActiveSurvives, StopVictimSurvives, VictimStoppedSurvives, CheckUninstallSurvives,
     UnloadSurvives, MarkUninstalledSurvives, RenameSurvives, LoadSurvives, CleanupSurvives
     DEF Serve

LEMMA LoadBundlesSurvives == ASSUME IInv, FoundInv, SurviveInv, LoadBundles PROVE SurviveInv'
<1>a. /\ StartOK /\ phase = "scanning" /\ phase' = "running"
      /\ UNCHANGED <<files, request, given, orphans, dropped>>
  BY Parts DEF IInvParts, LoadBundles, ghostVars
<1>b. \A t \in Admins: request[t].op = "none" /\ request[t].pc = "idle"
  BY <1>a, Parts DEF IInvParts, ScanInv, KnownInv, Known
<1>c. OrphanInv /\ RequestInv /\ KeptInv
  BY DEF SurviveInv
<1>1. \A n \in Names: found[n] # NoFile =>
        /\ found[n] \in FileNames /\ Readable(files[found[n]]) /\ files[found[n]].name = n
  BY <1>a DEF FoundInv, StartOK, Accepted
<1>2. /\ \A n \in Names: IF found[n] = NoFile THEN loaded'[n] = 0
                         ELSE loaded'[n] # 0 /\ bundles'[loaded'[n]] = NewBundle(found[n])
      /\ \A k \in DOMAIN bundles': \E n \in Names: found[n] # NoFile /\ bundles'[k] = NewBundle(found[n])
  BY LoadsFound
<1>3. \A f: NewBundle(f).file = f
  BY DEF NewBundle
<1>4. \A n \in Names: found[n] # NoFile /\ found[n] \in TempFiles => n \in orphans /\ MaxCrashes # 0
  BY <1>1, <1>a, <1>c DEF OrphanInv, Readable
<1>5. OrphanInv'
  <2>1. MaxCrashes = 0 => \A k \in DOMAIN bundles': bundles'[k].file \notin TempFiles
    BY <1>2, <1>3, <1>4
  <2>2. \A n \in Names: loaded'[n] # 0 /\ bundles'[loaded'[n]].file \in TempFiles => n \in orphans
    BY <1>2, <1>3, <1>4
  <2>3. \A t \in Admins: VictimOK(request[t])'
    BY <1>a, <1>b DEF VictimOK, Removing
  <2> QED
    BY <1>a, <2>1, <2>2, <2>3 DEF OrphanInv
<1>6. RequestInv' /\ KeptInv'
  BY <1>a, <1>c DEF RequestInv, GivenOK, ParsedOK, KeptInv, Kept, Replaces, Readable
<1> QED
  BY <1>5, <1>6 DEF SurviveInv

LEMMA ChangeStateSurvives ==
    ASSUME NEW i \in DOMAIN bundles, IInv, AgreeInv, SurviveInv, ChangeState(i)
    PROVE  SurviveInv'
<1>1. LoaderOK
  BY Parts DEF IInvParts
<1>2. BundlesStay /\ DOMAIN bundles' = DOMAIN bundles
  BY <1>1, StatesStay DEF ChangeState
<1>3. UNCHANGED <<files, loaded, request, phase, orphans, given, dropped>>
  BY DEF ChangeState, startVars, ghostVars
<1>4. OrphanInv'
  <2>1. MaxCrashes = 0 /\ phase' = "scanning" => \A f \in TempFiles: files'[f] = Absent
    BY <1>3 DEF SurviveInv, OrphanInv
  <2>2. MaxCrashes = 0 => \A k \in DOMAIN bundles': bundles'[k].file \notin TempFiles
    BY <1>2 DEF SurviveInv, OrphanInv, BundlesStay
  <2>3. phase' = "scanning" => \A f \in TempFiles: Readable(files[f])' => files'[f].name \in orphans'
    BY <1>3 DEF SurviveInv, OrphanInv, Readable
  <2>4. \A n \in Names: loaded'[n] # 0 /\ bundles'[loaded'[n]].file \in TempFiles => n \in orphans'
    BY <1>1, <1>2, <1>3, Indices DEF SurviveInv, OrphanInv, BundlesStay
  <2>5. \A t \in Admins: VictimOK(request[t])'
    BY <1>2, <1>3
       DEF SurviveInv, OrphanInv, VictimOK, AgreeInv, OrderInv, OrderOK, OrderAt, BundlesStay
  <2> QED
    BY <2>1, <2>2, <2>3, <2>4, <2>5 DEF OrphanInv
<1>5. RequestInv' /\ KeptInv'
  BY <1>3 DEF SurviveInv, RequestInv, GivenOK, ParsedOK, KeptInv, Kept, Replaces, Readable
<1> QED
  BY <1>4, <1>5 DEF SurviveInv

\* A replacement that a crash interrupts leaves its upload where the next start finds it.
LEMMA CrashSurvives == ASSUME IInv, SurviveInv, Crash PROVE SurviveInv'
<1>a. FilesOK /\ StartOK /\ KnownInv /\ UploadIsolated
  BY Parts DEF IInvParts
<1>1. /\ request' = [t \in Admins |-> NoRequest] /\ bundles' = <<>> /\ loaded' = [n \in Names |-> 0]
      /\ UNCHANGED <<files, given, dropped>> /\ MaxCrashes # 0
      /\ orphans' = orphans \cup {files[f].name: f \in {g \in Existing(files) \cap TempFiles: Readable(files[g])}}
  BY <1>a, RepositoryAssumption DEF Crash, StartOK
<1>2. \A t \in Admins: request'[t] = NoRequest
  BY <1>1
<1>3. \A f \in TempFiles: Readable(files[f]) => files[f].name \in orphans'
  BY <1>1 DEF Existing, FileNames, Readable
<1>4. OrphanInv'
  <2>1. \A t \in Admins: VictimOK(request[t])'
    BY <1>2 DEF VictimOK, NoRequest, Removing
  <2>2. \A n \in Names: loaded'[n] = 0
    BY <1>1
  <2>3. \A f \in TempFiles: Readable(files[f])' => files'[f].name \in orphans'
    BY <1>1, <1>3 DEF Readable
  <2> QED
    BY <1>1, <2>1, <2>2, <2>3 DEF OrphanInv
<1>5. RequestInv'
  BY <1>2 DEF RequestInv, GivenOK, ParsedOK, NoRequest
<1>6. KeptInv'
  <2> SUFFICES ASSUME NEW n \in Names, n \notin given, n \notin orphans', n \notin dropped
               PROVE  Kept(n)'
    BY <1>1 DEF KeptInv
  <2>1. Kept(n)
    BY <1>1 DEF SurviveInv, KeptInv
  <2>2. ~ \E u \in Admins: Replaces(request[u], n)
    <3> SUFFICES ASSUME NEW u \in Admins, Replaces(request[u], n) PROVE FALSE
      OBVIOUS
    <3>1. request[u].file \in TempFiles /\ request[u].file \in FileNames
      BY <1>a DEF KnownInv, Known, Replaces
    <3>2. Readable(files[request[u].file]) /\ request[u].upload.name = n
      BY DEF Replaces
    <3>3. files[request[u].file].name = n
      <4>1. [files[request[u].file] EXCEPT !.cut = "none"] = request[u].upload
        BY <1>a, <3>2 DEF UploadIsolated, Replaces, Readable
      <4>2. files[request[u].file] \in Content
        BY <1>a, <3>1, <3>2 DEF FilesOK, Readable
      <4> QED
        BY <3>2, <4>1, <4>2 DEF Content
    <3> QED
      BY <1>3, <3>1, <3>2, <3>3
  <2> QED
    BY <1>1, <2>1, <2>2 DEF Kept, Readable
<1> QED
  BY <1>4, <1>5, <1>6 DEF SurviveInv

SurviveAll == AgreeAll /\ SurviveInv

LEMMA SurviveInductive == ASSUME NoneLost PROVE SurviveAll /\ [Next]_vars => SurviveAll'
<1> SUFFICES ASSUME IInv, FoundInv, AgreeInv, SurviveInv, [Next]_vars PROVE SurviveInv'
  BY AgreeInductive DEF SurviveAll, AgreeAll, FoundAll, NoneLost
<1>1. CASE \E f \in FileNames: ScanFile(f)
  <2>1. UNCHANGED <<files, bundles, loaded, request, phase, orphans, given, dropped>>
    BY <1>1 DEF ScanFile, ghostVars
  <2> QED
    BY <2>1
       DEF SurviveInv, OrphanInv, VictimOK, RequestInv, GivenOK, ParsedOK, KeptInv, Kept,
           Replaces, Readable
<1>2. CASE LoadBundles
  BY <1>2, LoadBundlesSurvives
<1>3. CASE \E t \in Admins: Serve(t)
  BY <1>3, ServeSurvives
<1>4. CASE \E i \in DOMAIN bundles: ChangeState(i)
  BY <1>4, ChangeStateSurvives
<1>5. CASE Crash
  BY <1>5, CrashSurvives
<1>6. CASE UNCHANGED vars
  <2>1. UNCHANGED <<files, bundles, loaded, request, phase, orphans, given, dropped>>
    BY <1>6 DEF vars, startVars, ghostVars
  <2> QED
    BY <2>1
       DEF SurviveInv, OrphanInv, VictimOK, RequestInv, GivenOK, ParsedOK, KeptInv, Kept,
           Replaces, Readable
<1> QED
  BY <1>1, <1>2, <1>3, <1>4, <1>5, <1>6 DEF Next

LEMMA SurviveInitially == Init => SurviveInv
<1> SUFFICES ASSUME Init PROVE SurviveInv
  OBVIOUS
<1>1. \A t \in Admins: request[t] = NoRequest
  BY DEF Init
<1>2. \A f \in TempFiles: f \in FileNames /\ files[f] = Absent
  BY TempIsNoName DEF Init, FileNames
<1>3. OrphanInv
  <2>1. \A t \in Admins: VictimOK(request[t])
    BY <1>1, NoRequestSurvives
  <2>2. bundles = <<>> /\ \A n \in Names: loaded[n] = 0
    BY DEF Init
  <2> QED
    BY <1>2, <2>1, <2>2 DEF OrphanInv, Readable
<1>4. RequestInv
  BY <1>1, NoRequestSurvives DEF RequestInv
<1>5. KeptInv
  <2> SUFFICES ASSUME NEW n \in Names, n \notin given PROVE Kept(n)
    BY DEF KeptInv
  <2>1. PICK f \in FileNames: Readable(files[f]) /\ files[f].name = n
    BY DEF Init, OnDisk
  <2>2. f \in Names \X Versions
    BY <1>2, <2>1 DEF FileNames, Readable
  <2> QED
    BY <2>1, <2>2 DEF Kept
<1> QED
  BY <1>3, <1>4, <1>5 DEF SurviveInv

\* A bundle that nobody asked to be removed is on disk at every moment, also while it
\* is replaced by another version of itself, whatever fails (replaceBundle(),
\* uninstallBundle()), but for the bundle whose own replacement failed after its old
\* version was removed; through crashes with one administrator, without them with any
\* number that work on different bundles.
THEOREM NamesStay == ASSUME NoneLost PROVE Spec => []NamesSurvive
<1>1. SurviveAll => NamesSurvive
  <2> SUFFICES ASSUME IInv, SurviveInv, NEW n \in Names, n \notin given, n \notin orphans,
                      n \notin dropped
               PROVE  OnDisk(n)
    BY DEF SurviveAll, AgreeAll, FoundAll, NamesSurvive
  <2>1. Kept(n)
    BY DEF SurviveInv, KeptInv
  <2>2. CASE \E f \in Names \X Versions: Readable(files[f]) /\ files[f].name = n
    BY <2>2 DEF OnDisk, FileNames
  <2>3. CASE \E u \in Admins: Replaces(request[u], n)
    <3>1. PICK u \in Admins: Replaces(request[u], n)
      BY <2>3
    <3>2. FilesOK /\ UploadIsolated /\ Known(request[u])
      BY Parts DEF IInvParts, KnownInv
    <3>3. request[u].file \in FileNames /\ files[request[u].file] # Absent
      BY <3>1, <3>2 DEF Known, Replaces, Readable
    <3>4. [files[request[u].file] EXCEPT !.cut = "none"] = request[u].upload
      BY <3>1, <3>2, <3>3 DEF UploadIsolated, Replaces
    <3>5. files[request[u].file] \in Content
      BY <3>2, <3>3 DEF FilesOK
    <3>6. files[request[u].file].name = request[u].upload.name
      BY <3>4, <3>5 DEF Content
    <3> QED
      BY <3>1, <3>3, <3>6 DEF OnDisk, Replaces
  <2> QED
    BY <2>1, <2>2, <2>3 DEF Kept
<1>2. Init => SurviveAll
  BY AgreeInitially, SurviveInitially DEF SurviveAll
<1> QED
  BY <1>1, <1>2, SurviveInductive, PTL DEF Spec
===============================================================================
