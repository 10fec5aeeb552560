------------------------------- MODULE Objects -------------------------------
(***************************************************************************)
(* The download directory: the objects of a package on their way from the  *)
(* server, or from a local package, to the install.                        *)
(*                                                                         *)
(* The directory outlives the attempt that filled it.  Each attempt clears *)
(* what it does not need, takes up the objects that are incomplete where   *)
(* the previous one left them, and leaves it to Validation to say whether  *)
(* all of them are ready.  An object is named after its hash, and its file *)
(* may hold a prefix of it, the whole, or something else.                  *)
(***************************************************************************)
EXTENDS Naturals, Sequences

CONSTANTS
  Object,        \* contents, by their sha256sum
  Size,          \* length of each
  Package,
  List,          \* the objects of a package for an installation set, in order
  PendingUpgrade,\* an earlier install is on record and was not rebooted into
  Ranges         \* whether the server, asked for a range, sends one

InstallationSet == {"A", "B"}

\* UpdatePackage::objects: what names an object in a package.
Entry == [filename : STRING, sha256sum : Object, remote : BOOLEAN]

ASSUME ObjectsAssumption ==
  /\ Size \in [Object -> Nat \ {0}]
  /\ PendingUpgrade \in BOOLEAN
  /\ Ranges \subseteq BOOLEAN
  /\ \A p \in Package, s \in InstallationSet : List[p][s] \in Seq(Entry)

VARIABLES
  pc,       \* the state being handled
  pkg,      \* the package it carries
  require,  \* Validation::require_download
  dir,      \* the file of each object
  todo,     \* the entries still to download or extract, by index
  offset,   \* where in the object the server's answer has come
  sets      \* the inactive set, and the one the runtime settings give for it

vars == <<pc, pkg, require, dir, todo, offset, sets>>

Absent == [exists |-> FALSE, len |-> 0, clean |-> TRUE]

\* clean: the file holds a prefix of the object.
File == {Absent} \cup [exists : {TRUE}, len : Nat, clean : BOOLEAN]

Empty  == [exists |-> TRUE,  len |-> 0, clean |-> TRUE]
Whole(o) == [exists |-> TRUE, len |-> Size[o], clean |-> TRUE]

TypeOK ==
  /\ pc \in {"idle", "validation", "download", "request", "transfer", "extract",
             "install"}
  /\ pkg \in Package
  /\ require \in BOOLEAN
  /\ dir \in [Object -> File]
  /\ todo \subseteq Nat
  /\ offset \in Nat
  /\ sets \in [inactive : InstallationSet, target : InstallationSet]

Init ==
  /\ pc = "idle"
  /\ pkg \in Package
  /\ require = FALSE
  /\ dir = [o \in Object |-> Absent]
  /\ todo = {}
  /\ offset = 0
  /\ sets \in [inactive : InstallationSet, target : InstallationSet]
  /\ sets.target # sets.inactive => PendingUpgrade

(***************************************************************************)
(* Objects of a package.                                                   *)
(***************************************************************************)

\* Info::status.
Status(o, f) == IF ~f.exists THEN "missing"
                ELSE IF f.len < Size[o] THEN "incomplete"
                ELSE IF f.len = Size[o] /\ f.clean THEN "ready"
                ELSE "corrupted"

ShaAt(s, i) == List[pkg][s][i].sha256sum

Shas(p, s) == {List[p][s][i].sha256sum : i \in DOMAIN List[p][s]}

NotReady(p, s, d) ==
  {i \in DOMAIN List[p][s] :
     LET e == List[p][s][i]
     IN ~ e.remote /\ Status(e.sha256sum, d[e.sha256sum]) # "ready"}

\* Vec::dedup: an element equal to the one before it goes.
Dedup(p, s, I) ==
  {i \in I : ~ \E j \in I :
     /\ j < i
     /\ \A k \in I : k < i => k <= j
     /\ List[p][s][j].filename = List[p][s][i].filename
     /\ List[p][s][j].sha256sum = List[p][s][i].sha256sum}

\* A slip: corrupted files stay.
KeepCorrupted(p, s, d) == [o \in Object |-> IF o \in Shas(p, s) THEN d[o] ELSE Absent]

\* clear_unrelated_files.
Cleared(p, s, d) ==
  [o \in Object |-> IF o \in Shas(p, s) /\ Status(o, d[o]) # "corrupted"
                    THEN d[o] ELSE Absent]

First(I) == CHOOSE i \in I : \A j \in I : i <= j

(***************************************************************************)
(* Where packages come from.                                               *)
(***************************************************************************)

\* Requests are also taken in Validation, whose package is then dropped.
Interruptible == pc \in {"idle", "validation"}

\* The server offers an update.
Offer ==
  /\ Interruptible
  /\ pc' = "validation"
  /\ pkg' \in Package
  /\ require' = TRUE
  /\ UNCHANGED <<dir, todo, offset, sets>>

\* PrepareLocalInstall: the metadata names the objects to extract, those of
\* the active set.
Active == IF sets.inactive = "A" THEN "B" ELSE "A"

LocalInstall ==
  /\ Interruptible
  /\ pc' = "extract"
  /\ pkg' \in Package
  /\ todo' = DOMAIN List[pkg'][Active]
  /\ UNCHANGED <<require, dir, offset, sets>>

Extract ==
  /\ pc = "extract"
  /\ todo # {}
  /\ LET o == ShaAt(Active, First(todo)) IN dir' = [dir EXCEPT ![o] = Whole(o)]
  /\ todo' = todo \ {First(todo)}
  /\ UNCHANGED <<pc, pkg, require, offset, sets>>

\* The file was created anew, and the extraction stopped in it.
ExtractFails ==
  /\ pc = "extract"
  /\ todo # {}
  /\ LET o == ShaAt(Active, First(todo))
     IN \E n \in 0..(Size[o] - 1) :
          dir' = [dir EXCEPT ![o] = [exists |-> TRUE, len |-> n, clean |-> TRUE]]
  /\ pc' = "idle"
  /\ todo' = {}
  /\ UNCHANGED <<pkg, require, offset, sets>>

Extracted ==
  /\ pc = "extract"
  /\ todo = {}
  /\ dir' = Cleared(pkg, sets.inactive, dir)
  /\ pc' = "validation"
  /\ require' = FALSE
  /\ UNCHANGED <<pkg, todo, offset, sets>>

(***************************************************************************)
(* Validation.                                                             *)
(***************************************************************************)
ToDownload ==
  /\ pc = "validation"
  /\ require
  /\ pc' = "download"
  /\ UNCHANGED <<pkg, require, dir, todo, offset, sets>>

\* A slip: it is the objects that were downloaded that are looked at.
ToInstallWhatCame ==
  /\ pc = "validation"
  /\ ~require
  /\ NotReady(pkg, sets.inactive, dir) = {}
  /\ pc' = "install"
  /\ UNCHANGED <<pkg, require, dir, todo, offset, sets>>

\* All the objects the install will use are ready.
ToInstall ==
  /\ pc = "validation"
  /\ ~require
  /\ NotReady(pkg, sets.target, dir) = {}
  /\ pc' = "install"
  /\ UNCHANGED <<pkg, require, dir, todo, offset, sets>>

SomeObjectsAreNotReady ==
  /\ pc = "validation"
  /\ ~require
  /\ NotReady(pkg, sets.target, dir) # {}
  /\ pc' = "idle"
  /\ UNCHANGED <<pkg, require, dir, todo, offset, sets>>

\* Signature, hardware, install modes or requirements.  Where the objects are
\* not ready either, the outcome is the same.
Rejected ==
  /\ pc = "validation"
  /\ require \/ NotReady(pkg, sets.target, dir) = {}
  /\ pc' = "idle"
  /\ UNCHANGED <<pkg, require, dir, todo, offset, sets>>

Install ==
  /\ pc = "install"
  /\ pc' = "idle"
  /\ UNCHANGED <<pkg, require, dir, todo, offset, sets>>

(***************************************************************************)
(* Download: start_download and Client::download_object.                   *)
(***************************************************************************)

\* A slip: what is ready is downloaded too.
StartDownloadOfAll ==
  /\ pc = "download"
  /\ dir' = Cleared(pkg, sets.inactive, dir)
  /\ todo' = {i \in DOMAIN List[pkg][sets.inactive] :
                ~ List[pkg][sets.inactive][i].remote}
  /\ pc' = "request"
  /\ UNCHANGED <<pkg, require, offset, sets>>

StartDownload ==
  /\ pc = "download"
  /\ dir' = Cleared(pkg, sets.inactive, dir)
  /\ todo' = Dedup(pkg, sets.inactive, NotReady(pkg, sets.inactive, dir'))
  /\ pc' = "request"
  /\ UNCHANGED <<pkg, require, offset, sets>>

\* The object on the way, and its file.
Current == ShaAt(sets.inactive, First(todo))
Prior   == dir[Current]

\* What is asked for: from the last byte on disk, saturating.
RangeStart == IF Prior.exists /\ Prior.len > 0 THEN Prior.len - 1 ELSE 0

\* Range Not Satisfiable: there is nothing from there on.
Unsatisfiable == todo # {} /\ RangeStart >= Size[Current]

\* The file is opened for appending, created if need be, before the request
\* is sent.
Opened == IF Prior.exists THEN Prior ELSE Empty

Request ==
  /\ pc = "request"
  /\ todo # {}
  /\ \E ranged \in Ranges :
       /\ ranged => ~ Unsatisfiable
       /\ offset' = IF ranged THEN RangeStart ELSE 0
  /\ dir' = [dir EXCEPT ![Current] = Opened]
  /\ pc' = "transfer"
  /\ UNCHANGED <<pkg, require, todo, sets>>

\* The status of the answer is not one of success, for the range asked for or
\* for the server's own reasons.
RequestRefused ==
  /\ pc = "request"
  /\ todo # {}
  /\ dir' = [dir EXCEPT ![Current] = Opened]
  /\ pc' = "idle"
  /\ todo' = {}
  /\ UNCHANGED <<pkg, require, offset, sets>>

\* save_body_to: a chunk is appended where the file ends.
Chunk ==
  /\ pc = "transfer"
  /\ \E n \in 1..(Size[Current] - offset) :
       /\ offset' = offset + n
       /\ dir' = [dir EXCEPT ![Current] =
                    [exists |-> TRUE, len |-> Prior.len + n,
                     clean |-> Prior.clean /\ Prior.len = offset]]
  /\ UNCHANGED <<pc, pkg, require, todo, sets>>

Transferred ==
  /\ pc = "transfer"
  /\ offset = Size[Current]
  /\ todo' = todo \ {First(todo)}
  /\ offset' = 0
  /\ pc' = "request"
  /\ UNCHANGED <<pkg, require, dir, sets>>

Downloaded ==
  /\ pc = "request"
  /\ todo = {}
  /\ pc' = "validation"
  /\ require' = FALSE
  /\ UNCHANGED <<pkg, dir, todo, offset, sets>>

\* The connection breaks, the download is aborted over HTTP, or the device or
\* the agent goes down: the files stay as they are.
Interrupted ==
  /\ pc \in {"download", "request", "transfer", "extract"}
  /\ pc' = "idle"
  /\ todo' = {}
  /\ offset' = 0
  /\ UNCHANGED <<pkg, require, dir, sets>>

Next == \/ Offer \/ LocalInstall \/ Extract \/ ExtractFails \/ Extracted
        \/ ToDownload \/ ToInstall \/ SomeObjectsAreNotReady \/ Rejected \/ Install
        \/ StartDownload \/ Request \/ RequestRefused \/ Chunk \/ Transferred \/ Downloaded
        \/ Interrupted

Spec == Init /\ [][Next]_vars

(***************************************************************************)
(* Fairness: an idle agent is offered an update again, handlers return and *)
(* the server's answer comes to its end.                                   *)
(***************************************************************************)
Validating == ToDownload \/ ToInstall \/ SomeObjectsAreNotReady

Fairness ==
  /\ WF_vars(pc = "idle" /\ Offer)
  /\ WF_vars(Extract \/ Extracted)
  /\ WF_vars(Validating)
  /\ WF_vars(Install)
  /\ WF_vars(StartDownload \/ Request \/ RequestRefused \/ Chunk \/ Transferred \/ Downloaded)

FairSpec == Spec /\ Fairness

(***************************************************************************)
(* Properties.                                                             *)
(***************************************************************************)

Downloading == pc \in {"request", "transfer"}

\* An object that is ready is neither thrown away nor written to by the
\* download that needs it (start_download, Info::status).
ReadyKept ==
  [][\A o \in Shas(pkg, sets.inactive) :
       pc \in {"download", "request", "transfer"} /\ Status(o, dir[o]) = "ready"
         => dir'[o] = dir[o]]_vars

\* What is installed is whole: no object that is cut short, continued wrongly
\* or of another package gets from the directory to an installation set
\* (validation.rs:95).
WholeObjectsInstalled ==
  pc = "install" =>
    \A i \in DOMAIN List[pkg][sets.target] :
      LET e == List[pkg][sets.target][i]
      IN ~ e.remote => dir[e.sha256sum] = Whole(e.sha256sum)

\* The directory does not grow with the attempts: while a package is being
\* downloaded it holds no objects of another, and none takes twice its size.
DirBounded ==
  /\ Downloading => \A o \in Object : dir[o].exists => o \in Shas(pkg, sets.inactive)
  /\ \A o \in Object : dir[o].len < 2 * Size[o]

\* What makes them hold, where no package lists an object twice: what is still
\* to be taken is listed; every object still to be downloaded is short, but for
\* the one on the way; and that one ends below twice its size, and is only
\* ready at its end.
Distinct ==
  \A p \in Package, s \in InstallationSet : \A i, j \in DOMAIN List[p][s] :
    List[p][s][i].sha256sum = List[p][s][j].sha256sum => i = j

TodoListed ==
  /\ Downloading => todo \subseteq DOMAIN List[pkg][sets.inactive]
  /\ pc = "extract" => todo \subseteq DOMAIN List[pkg][Active]
  /\ pc = "transfer" => todo # {}

TodoShort ==
  /\ pc = "request" =>
       \A i \in todo : LET o == ShaAt(sets.inactive, i) IN dir[o].len < Size[o]
  /\ pc = "transfer" =>
       \A i \in todo \ {First(todo)} :
         LET o == ShaAt(sets.inactive, i) IN dir[o].len < Size[o]

TransferInv ==
  pc = "transfer" =>
    /\ offset <= Size[Current]
    /\ Prior.exists
    /\ Prior.len < Size[Current] + offset
    /\ Prior.clean => Prior.len = offset \/ Prior.len < Size[Current]

DirInv == TypeOK /\ TodoListed /\ DirBounded /\ TodoShort /\ TransferInv

\* A download that ends without an error has all its objects: one that
\* stopped part way continues where it stopped (client.rs:146).
CompletedIsReady == [][Downloaded => NotReady(pkg, sets.inactive, dir) = {}]_vars

\* Packages whose lists agree and name no object twice.
Agreeing == {p \in Package :
               /\ List[p]["A"] = List[p]["B"]
               /\ \A i, j \in DOMAIN List[p]["A"] :
                    List[p]["A"][i].sha256sum = List[p]["A"][j].sha256sum => i = j}

\* A request refused for its range is not one of the interruptions.
InterruptionsCease ==
  <>[][~(ExtractFails \/ Rejected
         \/ ((Interrupted \/ RequestRefused) /\ ~(pc = "request" /\ Unsatisfiable))
         \/ (pc = "validation" /\ (Offer \/ LocalInstall)))]_vars

\* Once interruptions and rejections cease, a package whose lists agree is
\* installed, whatever earlier attempts left in the directory (Prune corrupted
\* files).
EventuallyInstalls ==
  InterruptionsCease /\ <>[](pkg \in Agreeing) => []<>(pc = "install")
=============================================================================
