---------------------------- MODULE ObjectsProofs ----------------------------
(***************************************************************************)
(* The download directory: for any objects, any packages that list no      *)
(* object twice and any way the server answers, the directory stays        *)
(* bounded, what is ready stays ready and what is installed is whole.      *)
(***************************************************************************)
EXTENDS Objects, WellFoundedInduction, TLAPS

\* Indices are naturals and name objects (UpdatePackage::objects).
LEMMA Listed ==
  ASSUME NEW p \in Package, NEW s \in InstallationSet
  PROVE  /\ DOMAIN List[p][s] \subseteq Nat
         /\ \A i \in DOMAIN List[p][s] : List[p][s][i].sha256sum \in Object
<1>1. List[p][s] \in Seq(Entry)
  BY ObjectsAssumption
<1>2. \A i \in DOMAIN List[p][s] : i \in Nat /\ List[p][s][i] \in Entry
  BY <1>1
<1>3. \A e \in Entry : e.sha256sum \in Object
  BY DEF Entry
<1> QED BY <1>2, <1>3

\* The next entry to take is one of them.
LEMMA FirstTaken ==
  ASSUME NEW I \in SUBSET Nat, I # {}
  PROVE  First(I) \in I
<1>1. PICK x \in I : \A y \in I : <<y, x>> \notin OpToRel(<, Nat)
  BY NatLessThanWellFounded, WFMin
<1>2. \A y \in I : y \in Nat /\ ~ (y < x)
  BY <1>1 DEF OpToRel
<1>3. \A y \in I : x <= y
  BY <1>2
<1> QED BY <1>1, <1>3 DEF First

\* Clearing leaves files, and of those only objects of the package that are
\* incomplete or ready, as they were (clear_unrelated_files).
LEMMA Clearing ==
  ASSUME NEW p, NEW s, NEW d \in [Object -> File]
  PROVE  /\ Cleared(p, s, d) \in [Object -> File]
         /\ \A o \in Object : Cleared(p, s, d)[o].exists => o \in Shas(p, s)
         /\ \A o \in Object : Cleared(p, s, d)[o] = d[o] \/ Cleared(p, s, d)[o] = Absent
         /\ \A o \in Object : Status(o, Cleared(p, s, d)[o]) # "corrupted"
         /\ \A o \in Shas(p, s) \cap Object :
              Status(o, d[o]) = "ready" => Cleared(p, s, d)[o] = d[o]
BY DEF Cleared, Absent, File, Status

\* What a file is.
LEMMA Files ==
  ASSUME NEW f \in File
  PROVE  /\ f.exists \in BOOLEAN /\ f.len \in Nat /\ f.clean \in BOOLEAN
         /\ ~ f.exists => f = Absent
         /\ Absent.len = 0 /\ Absent.exists = FALSE
<1>1. CASE f = Absent
  BY <1>1 DEF Absent
<1>2. CASE f \in [exists : {TRUE}, len : Nat, clean : BOOLEAN]
  BY <1>2 DEF Absent
<1> QED BY <1>1, <1>2 DEF File

\* An object that is neither ready nor corrupted is shorter than it should be.
LEMMA ShortFile ==
  ASSUME NEW o \in Object, NEW f \in File, Status(o, f) \notin {"ready", "corrupted"}
  PROVE  f.len < Size[o]
<1>1. Size[o] \in Nat \ {0}
  BY ObjectsAssumption
<1>2. CASE ~ f.exists
  <2>1. f = Absent /\ Absent.len = 0
    BY <1>2, Files
  <2>2. f.len = 0
    BY <2>1
  <2> QED BY <1>1, <2>2
<1>3. CASE f.exists
  BY <1>3 DEF Status
<1> QED BY <1>2, <1>3

\* The active set is a set.
LEMMA ActiveSet == Active \in InstallationSet
BY DEF Active, InstallationSet

\* The entry on the way is listed, and has a file.
LEMMA OnTheWay ==
  ASSUME TypeOK, TodoListed, Downloading, todo # {}
  PROVE  /\ First(todo) \in todo
         /\ Current \in Object
         /\ Current \in Shas(pkg, sets.inactive)
         /\ Prior \in File /\ Opened \in File
<1>1. /\ pkg \in Package /\ sets.inactive \in InstallationSet
      /\ todo \subseteq DOMAIN List[pkg][sets.inactive]
      /\ todo \subseteq Nat
      /\ dir \in [Object -> File]
  BY DEF TypeOK, TodoListed
<1>2. First(todo) \in todo
  BY <1>1, FirstTaken
<1>3. Current \in Object /\ Current \in Shas(pkg, sets.inactive)
  BY <1>1, <1>2, Listed DEF Current, ShaAt, Shas
<1>4. Prior \in File
  BY <1>1, <1>3 DEF Prior
<1>5. Opened \in File
  BY <1>4 DEF Opened, Empty, File
<1> QED BY <1>2, <1>3, <1>4, <1>5

\* So is the one being extracted.
LEMMA BeingExtracted ==
  ASSUME TypeOK, TodoListed, pc = "extract", todo # {}
  PROVE  ShaAt(Active, First(todo)) \in Object
<1>1. /\ pkg \in Package
      /\ todo \subseteq DOMAIN List[pkg][Active]
      /\ todo \subseteq Nat
  BY DEF TypeOK, TodoListed
<1>2. First(todo) \in todo
  BY <1>1, FirstTaken
<1> QED BY <1>1, <1>2, Listed, ActiveSet DEF ShaAt

\* What StartDownload takes is listed and not ready.
LEMMA ToTake ==
  ASSUME NEW p \in Package, NEW s \in InstallationSet, NEW d
  PROVE  /\ Dedup(p, s, NotReady(p, s, d)) \subseteq DOMAIN List[p][s]
         /\ \A i \in Dedup(p, s, NotReady(p, s, d)) :
              LET o == List[p][s][i].sha256sum IN Status(o, d[o]) # "ready"
BY DEF Dedup, NotReady

\* The types, and that what is to be taken is listed, need each other.
LEMMA Typing ==
  TypeOK /\ TodoListed /\ [Next]_vars => TypeOK' /\ TodoListed'
<1> SUFFICES ASSUME TypeOK, TodoListed, [Next]_vars
             PROVE  TypeOK' /\ TodoListed'
  OBVIOUS
<1>0. /\ pkg \in Package
      /\ dir \in [Object -> File]
      /\ todo \subseteq Nat
      /\ offset \in Nat
      /\ sets \in [inactive : InstallationSet, target : InstallationSet]
      /\ sets.inactive \in InstallationSet
  BY DEF TypeOK
<1>a. (pc' \notin {"extract", "request", "transfer"}) => TodoListed'
  BY DEF TodoListed, Downloading
<1>1. CASE Offer
  BY <1>1, <1>a DEF Offer, TypeOK
<1>2. CASE LocalInstall
  <2>1. pkg' \in Package /\ todo' = DOMAIN List[pkg'][Active] /\ pc' = "extract"
    BY <1>2 DEF LocalInstall
  <2>2. todo' \subseteq Nat
    BY <2>1, Listed, ActiveSet
  <2>3. TodoListed'
    BY <1>2, <2>1 DEF LocalInstall, TodoListed, Downloading, Active
  <2> QED BY <1>2, <2>1, <2>2, <2>3 DEF LocalInstall, TypeOK
<1>3. CASE Extract
  <2>1. \A o \in Object : Whole(o) \in File
    BY ObjectsAssumption DEF Whole, File
  <2>2. ShaAt(Active, First(todo)) \in Object
    BY <1>3, BeingExtracted DEF Extract
  <2>3. dir' \in [Object -> File]
    BY <1>0, <1>3, <2>1, <2>2 DEF Extract
  <2> QED BY <1>3, <2>3 DEF Extract, TypeOK, TodoListed, Downloading, Active
<1>4. CASE ExtractFails
  <2>1. \A n \in Nat : [exists |-> TRUE, len |-> n, clean |-> TRUE] \in File
    BY DEF File
  <2> DEFINE o == ShaAt(Active, First(todo))
  <2>2. o \in Object
    BY <1>4, BeingExtracted DEF ExtractFails
  <2>3. Size[o] \in Nat
    BY <2>2, ObjectsAssumption
  <2>4. PICK n \in 0..(Size[o] - 1) :
          dir' = [dir EXCEPT ![o] = [exists |-> TRUE, len |-> n, clean |-> TRUE]]
    BY <1>4 DEF ExtractFails
  <2>5. n \in Nat
    BY <2>3
  <2>6. dir' \in [Object -> File]
    BY <1>0, <2>1, <2>4, <2>5
  <2> QED BY <1>4, <1>a, <2>6 DEF ExtractFails, TypeOK
<1>5. CASE Extracted
  <2>1. dir' \in [Object -> File]
    BY <1>0, <1>5, Clearing DEF Extracted
  <2> QED BY <1>5, <1>a, <2>1 DEF Extracted, TypeOK
<1>6. CASE ToDownload
  BY <1>6, <1>a DEF ToDownload, TypeOK
<1>7. CASE ToInstall
  BY <1>7, <1>a DEF ToInstall, TypeOK
<1>8. CASE SomeObjectsAreNotReady
  BY <1>8, <1>a DEF SomeObjectsAreNotReady, TypeOK
<1>9. CASE Rejected
  BY <1>9, <1>a DEF Rejected, TypeOK
<1>10. CASE Install
  BY <1>10, <1>a DEF Install, TypeOK
<1>11. CASE StartDownload
  <2>1. dir' \in [Object -> File]
    BY <1>0, <1>11, Clearing DEF StartDownload
  <2>2. todo' \subseteq DOMAIN List[pkg][sets.inactive]
    BY <1>0, <1>11, ToTake DEF StartDownload
  <2>3. todo' \subseteq Nat
    BY <1>0, <2>2, Listed
  <2> QED BY <1>11, <2>1, <2>2, <2>3 DEF StartDownload, TypeOK, TodoListed, Downloading
<1>12. CASE Request
  <2>2. Current \in Object /\ Prior \in File /\ Opened \in File
    BY <1>12, OnTheWay DEF Request, Downloading
  <2>a. Prior.len \in Nat
    BY <2>2, Files
  <2>3. RangeStart \in Nat
    BY <2>a DEF RangeStart
  <2>4. dir' \in [Object -> File]
    BY <1>0, <1>12, <2>2 DEF Request
  <2> QED BY <1>12, <2>3, <2>4 DEF Request, TypeOK, TodoListed, Downloading
<1>13. CASE RequestRefused
  <2>1. Current \in Object /\ Opened \in File
    BY <1>13, OnTheWay DEF RequestRefused, Downloading
  <2>2. dir' \in [Object -> File]
    BY <1>0, <1>13, <2>1 DEF RequestRefused
  <2> QED BY <1>13, <1>a, <2>2 DEF RequestRefused, TypeOK
<1>14. CASE Chunk
  <2>1. Current \in Object /\ Prior \in File
    BY <1>14, OnTheWay DEF Chunk, Downloading, TodoListed
  <2>2. Size[Current] \in Nat /\ Prior.len \in Nat /\ Prior.clean \in BOOLEAN
    BY <2>1, Files, ObjectsAssumption
  <2>3. PICK n \in 1..(Size[Current] - offset) :
          /\ offset' = offset + n
          /\ dir' = [dir EXCEPT ![Current] =
                       [exists |-> TRUE, len |-> Prior.len + n,
                        clean |-> Prior.clean /\ Prior.len = offset]]
    BY <1>14 DEF Chunk
  <2>4. n \in Nat /\ offset' \in Nat /\ Prior.len + n \in Nat
    BY <1>0, <2>2, <2>3
  <2>5. [exists |-> TRUE, len |-> Prior.len + n,
         clean |-> Prior.clean /\ Prior.len = offset] \in File
    BY <2>2, <2>4 DEF File
  <2>6. dir' \in [Object -> File]
    BY <1>0, <2>3, <2>5
  <2> QED BY <1>14, <2>4, <2>6 DEF Chunk, TypeOK, TodoListed, Downloading
<1>15. CASE Transferred
  BY <1>15 DEF Transferred, TypeOK, TodoListed, Downloading
<1>16. CASE Downloaded
  BY <1>16, <1>a DEF Downloaded, TypeOK
<1>17. CASE Interrupted
  BY <1>17, <1>a DEF Interrupted, TypeOK
<1>18. CASE UNCHANGED vars
  BY <1>18 DEF vars, TypeOK, TodoListed, Downloading, Active
<1> QED
  BY <1>1, <1>2, <1>3, <1>4, <1>5, <1>6, <1>7, <1>8, <1>9, <1>10, <1>11, <1>12,
     <1>13, <1>14, <1>15, <1>16, <1>17, <1>18 DEF Next

\* The directory stays bounded, and the objects to be downloaded short, where
\* no package lists an object twice.
LEMMA DirStep ==
  ASSUME DirInv, Distinct, [Next]_vars
  PROVE  DirInv'
<1>0. /\ TypeOK /\ TodoListed /\ DirBounded /\ TodoShort /\ TransferInv
      /\ pkg \in Package
      /\ dir \in [Object -> File]
      /\ todo \subseteq Nat
      /\ offset \in Nat
      /\ sets.inactive \in InstallationSet
      /\ \A o \in Object : Size[o] \in Nat \ {0}
  BY ObjectsAssumption DEF DirInv, TypeOK
<1>1. TypeOK' /\ TodoListed'
  BY <1>0, Typing
<1>2. SUFFICES DirBounded' /\ TodoShort' /\ TransferInv'
  BY <1>1 DEF DirInv
<1>3. ASSUME pc' \notin {"request", "transfer"},
             \A o \in Object : dir'[o].len < 2 * Size[o]
      PROVE  DirBounded' /\ TodoShort' /\ TransferInv'
  BY <1>3 DEF DirBounded, Downloading, TodoShort, TransferInv
<1>4. \A o \in Object : dir[o].len < 2 * Size[o]
  BY <1>0 DEF DirBounded
<1>5. ASSUME pc' \notin {"request", "transfer"}, dir' = dir
      PROVE  DirBounded' /\ TodoShort' /\ TransferInv'
  BY <1>3, <1>4, <1>5
<1>6. CASE Offer \/ LocalInstall \/ ToDownload \/ ToInstall \/ SomeObjectsAreNotReady
           \/ Rejected \/ Install \/ Downloaded \/ Interrupted
  BY <1>5, <1>6 DEF Offer, LocalInstall, ToDownload, ToInstall, Rejected, Install,
                    SomeObjectsAreNotReady, Downloaded, Interrupted
<1>7. CASE Extract
  <2> DEFINE x == ShaAt(Active, First(todo))
  <2>1. x \in Object
    BY <1>0, <1>7, BeingExtracted DEF Extract
  <2>2. dir' = [dir EXCEPT ![x] = Whole(x)] /\ pc' = "extract"
    BY <1>7 DEF Extract
  <2>3. Whole(x).len < 2 * Size[x]
    BY <1>0, <2>1 DEF Whole
  <2> HIDE DEF x
  <2>4. \A o \in Object : dir'[o].len < 2 * Size[o]
    BY <1>0, <1>4, <2>2, <2>3
  <2> QED BY <1>3, <2>2, <2>4
<1>8. CASE ExtractFails
  <2> DEFINE x == ShaAt(Active, First(todo))
  <2>1. x \in Object
    BY <1>0, <1>8, BeingExtracted DEF ExtractFails
  <2>2. PICK n \in 0..(Size[x] - 1) :
          dir' = [dir EXCEPT ![x] = [exists |-> TRUE, len |-> n, clean |-> TRUE]]
    BY <1>8 DEF ExtractFails
  <2> HIDE DEF x
  <2>3. n < 2 * Size[x]
    BY <1>0, <2>1
  <2>4. \A o \in Object : dir'[o].len < 2 * Size[o]
    BY <1>0, <1>4, <2>2, <2>3
  <2>5. pc' = "idle"
    BY <1>8 DEF ExtractFails
  <2> QED BY <1>3, <2>4, <2>5
<1>9. ASSUME dir' = Cleared(pkg, sets.inactive, dir)
      PROVE  \A o \in Object : dir'[o].len < 2 * Size[o]
  <2>1. \A o \in Object : dir'[o] = dir[o] \/ dir'[o] = Absent
    BY <1>0, <1>9, Clearing
  <2>2. \A o \in Object : Absent.len < 2 * Size[o]
    BY <1>0 DEF Absent
  <2> QED BY <1>4, <2>1, <2>2
<1>10. CASE Extracted
  <2>1. dir' = Cleared(pkg, sets.inactive, dir) /\ pc' = "validation"
    BY <1>10 DEF Extracted
  <2> QED BY <1>3, <1>9, <2>1
<1>11. CASE StartDownload
  <2>1. /\ dir' = Cleared(pkg, sets.inactive, dir)
        /\ todo' = Dedup(pkg, sets.inactive, NotReady(pkg, sets.inactive, dir'))
        /\ pc' = "request" /\ pkg' = pkg /\ sets' = sets
    BY <1>11 DEF StartDownload
  <2>2. DirBounded'
    <3>1. \A o \in Object : dir'[o].exists => o \in Shas(pkg, sets.inactive)
      BY <1>0, <2>1, Clearing
    <3> QED BY <1>9, <2>1, <3>1 DEF DirBounded, Shas
  <2>3. ASSUME NEW i \in todo'
        PROVE  LET o == ShaAt(sets.inactive, i) IN dir'[o].len < Size[o]
    <3> DEFINE o == ShaAt(sets.inactive, i)
    <3>1. i \in DOMAIN List[pkg][sets.inactive] /\ Status(o, dir'[o]) # "ready"
      BY <1>0, <2>1, <2>3, ToTake DEF ShaAt
    <3>2. o \in Object
      BY <1>0, <3>1, Listed DEF ShaAt
    <3>3. dir'[o] \in File /\ Status(o, dir'[o]) # "corrupted"
      BY <1>0, <2>1, <3>2, Clearing
    <3> QED BY <3>1, <3>2, <3>3, ShortFile
  <2> QED BY <2>1, <2>2, <2>3 DEF TodoShort, TransferInv, ShaAt
<1>12. CASE Request
  <2>1. /\ First(todo) \in todo /\ Current \in Object /\ Prior \in File
        /\ Current \in Shas(pkg, sets.inactive)
    BY <1>0, <1>12, OnTheWay DEF Request, Downloading
  <2>2. /\ pc = "request" /\ pc' = "transfer"
        /\ dir' = [dir EXCEPT ![Current] = Opened]
        /\ offset' \in {RangeStart, 0}
        /\ pkg' = pkg /\ todo' = todo /\ sets' = sets
    BY <1>12 DEF Request
  <2>3. Prior.len < Size[Current] /\ Prior.len \in Nat
    BY <1>0, <2>1, <2>2, Files DEF TodoShort, Current, Prior
  <2>4. Current' = Current /\ Prior' = dir'[Current]
    BY <2>2 DEF Current, ShaAt, Prior
  <2>5. /\ Prior'.exists
        /\ Prior'.len = IF Prior.exists THEN Prior.len ELSE 0
    BY <1>0, <2>1, <2>2, <2>4 DEF Opened, Empty
  <2>6. offset' \in Nat /\ offset' <= Prior.len
    BY <2>2, <2>3 DEF RangeStart
  <2>7. TransferInv'
    BY <1>0, <2>1, <2>2, <2>3, <2>4, <2>5, <2>6 DEF TransferInv
  <2>8. \A o \in Object : dir'[o] = dir[o] \/ (o = Current /\ dir'[o].len < Size[o])
    BY <1>0, <2>1, <2>2, <2>3, <2>4, <2>5
  <2>9. DirBounded'
    <3>1. \A o \in Object : dir'[o].len < 2 * Size[o]
      <4> SUFFICES ASSUME NEW o \in Object PROVE dir'[o].len < 2 * Size[o]
        OBVIOUS
      <4>1. CASE dir'[o] = dir[o]
        BY <1>4, <4>1
      <4>2. CASE o = Current
        BY <1>0, <2>1, <2>3, <2>4, <2>5, <4>2
      <4> QED BY <2>8, <4>1, <4>2
    <3>2. \A o \in Object : dir'[o].exists => o \in Shas(pkg, sets.inactive)
      BY <1>0, <2>1, <2>2, <2>8 DEF DirBounded, Downloading
    <3> QED BY <2>2, <3>1, <3>2 DEF DirBounded, Shas
  <2>10. TodoShort'
    <3> SUFFICES ASSUME NEW i \in todo
                 PROVE  LET o == ShaAt(sets.inactive, i) IN dir'[o].len < Size[o]
      BY <2>2 DEF TodoShort, ShaAt
    <3> DEFINE o == ShaAt(sets.inactive, i)
    <3>1. dir[o].len < Size[o]
      BY <1>0, <2>2 DEF TodoShort
    <3>2. o \in Object
      BY <1>0, <2>2, Listed DEF TodoListed, Downloading, ShaAt
    <3> QED BY <2>8, <3>1, <3>2
  <2> QED BY <2>7, <2>9, <2>10
<1>13. CASE Chunk
  <2>1. /\ First(todo) \in todo /\ Current \in Object /\ Prior \in File
        /\ Current \in Shas(pkg, sets.inactive)
    BY <1>0, <1>13, OnTheWay DEF Chunk, Downloading, TodoListed
  <2>2. PICK n \in 1..(Size[Current] - offset) :
          /\ offset' = offset + n
          /\ dir' = [dir EXCEPT ![Current] =
                       [exists |-> TRUE, len |-> Prior.len + n,
                        clean |-> Prior.clean /\ Prior.len = offset]]
    BY <1>13 DEF Chunk
  <2>3. /\ pc = "transfer" /\ pc' = "transfer"
        /\ pkg' = pkg /\ todo' = todo /\ sets' = sets
    BY <1>13 DEF Chunk
  <2>a. Size[Current] \in Nat
    BY <1>0, <2>1
  <2>b. Prior.len \in Nat /\ Prior.clean \in BOOLEAN
    BY <2>1, Files
  <2>c. n \in Nat /\ offset + n <= Size[Current]
    BY <1>0, <2>a, <2>2
  <2>4. /\ Size[Current] \in Nat /\ Prior.len \in Nat /\ Prior.clean \in BOOLEAN
        /\ n \in Nat /\ offset + n <= Size[Current]
    BY <2>a, <2>b, <2>c
  <2>5. Current' = Current /\ Prior' = dir'[Current]
    BY <2>3 DEF Current, ShaAt, Prior
  <2>6. Prior' = [exists |-> TRUE, len |-> Prior.len + n,
                  clean |-> Prior.clean /\ Prior.len = offset]
    BY <1>0, <2>1, <2>2, <2>5
  <2>7. Prior.len < Size[Current] + offset
    BY <1>0, <2>3 DEF TransferInv
  <2>8. TransferInv'
    <3>1. /\ Prior'.exists /\ Prior'.len = Prior.len + n
          /\ Prior'.clean => Prior.len = offset
      BY <2>6
    <3>2. /\ Prior'.len < Size[Current] + offset'
          /\ Prior'.clean => Prior'.len = offset'
      BY <1>0, <2>2, <2>4, <2>7, <3>1
    <3>3. offset' <= Size[Current] /\ todo' # {}
      BY <1>0, <2>2, <2>3, <2>4 DEF TodoListed
    <3> QED BY <2>5, <3>1, <3>2, <3>3 DEF TransferInv
  <2>9. \A o \in Object \ {Current} : dir'[o] = dir[o]
    BY <1>0, <2>2
  <2>10. DirBounded'
    <3>1. dir'[Current].len < 2 * Size[Current]
      BY <1>0, <2>4, <2>5, <2>6, <2>7
    <3>2. \A o \in Object : dir'[o].len < 2 * Size[o]
      BY <1>4, <2>9, <3>1
    <3>3. \A o \in Object : dir'[o].exists => o \in Shas(pkg, sets.inactive)
      BY <1>0, <2>1, <2>3, <2>9 DEF DirBounded, Downloading
    <3> QED BY <2>3, <3>2, <3>3 DEF DirBounded, Shas
  <2>11. TodoShort'
    <3> SUFFICES ASSUME NEW i \in todo \ {First(todo)}
                 PROVE  LET o == ShaAt(sets.inactive, i) IN dir'[o].len < Size[o]
      BY <2>3 DEF TodoShort, ShaAt
    <3> DEFINE o == ShaAt(sets.inactive, i)
    <3>1. dir[o].len < Size[o]
      BY <1>0, <2>3 DEF TodoShort
    <3>2. /\ i \in DOMAIN List[pkg][sets.inactive]
          /\ First(todo) \in DOMAIN List[pkg][sets.inactive]
      BY <1>0, <2>1, <2>3 DEF TodoListed, Downloading
    <3>3. o \in Object
      BY <1>0, <3>2, Listed DEF ShaAt
    <3>4. o # Current
      BY <1>0, <3>2 DEF Distinct, Current, ShaAt
    <3> QED BY <2>9, <3>1, <3>3, <3>4
  <2> QED BY <2>8, <2>10, <2>11
<1>14. CASE Transferred
  <2>1. /\ pc = "transfer" /\ pc' = "request" /\ dir' = dir
        /\ pkg' = pkg /\ todo' = todo \ {First(todo)} /\ sets' = sets
    BY <1>14 DEF Transferred
  <2>2. TodoShort' /\ TransferInv'
    BY <1>0, <2>1 DEF TodoShort, TransferInv, ShaAt
  <2>3. DirBounded'
    BY <1>0, <2>1 DEF DirBounded, Downloading, Shas
  <2> QED BY <2>2, <2>3
<1>15. CASE RequestRefused
  <2>1. /\ First(todo) \in todo /\ Current \in Object /\ Prior \in File
    BY <1>0, <1>15, OnTheWay DEF RequestRefused, Downloading
  <2>2. /\ pc = "request" /\ pc' = "idle" /\ dir' = [dir EXCEPT ![Current] = Opened]
    BY <1>15 DEF RequestRefused
  <2>3. Opened.len < 2 * Size[Current]
    BY <1>0, <1>4, <2>1 DEF Opened, Empty, Prior
  <2>4. \A o \in Object : dir'[o].len < 2 * Size[o]
    BY <1>0, <1>4, <2>2, <2>3
  <2> QED BY <1>3, <2>2, <2>4
<1>16. CASE UNCHANGED vars
  BY <1>0, <1>16 DEF vars, DirBounded, Downloading, Shas, TodoShort, TransferInv,
                     ShaAt, Current, Prior
<1> QED
  BY <1>6, <1>7, <1>8, <1>10, <1>11, <1>12, <1>13, <1>14, <1>15, <1>16 DEF Next

\* At the start the directory is empty.
LEMMA Start == Init => DirInv /\ WholeObjectsInstalled
<1> SUFFICES ASSUME Init PROVE DirInv /\ WholeObjectsInstalled
  OBVIOUS
<1>1. /\ pc = "idle" /\ todo = {} /\ offset = 0
      /\ dir = [o \in Object |-> Absent]
  BY DEF Init
<1>2. Absent \in File /\ Absent.len = 0
  BY DEF Absent, File
<1>3. TypeOK
  <2>1. pkg \in Package /\ require \in BOOLEAN
        /\ sets \in [inactive : InstallationSet, target : InstallationSet]
    BY DEF Init
  <2>2. dir \in [Object -> File]
    BY <1>1, <1>2
  <2> QED BY <1>1, <2>1, <2>2 DEF TypeOK
<1>4. DirBounded
  BY <1>1, <1>2, ObjectsAssumption DEF DirBounded, Downloading
<1> QED
  BY <1>1, <1>3, <1>4 DEF DirInv, TodoListed, TodoShort, TransferInv, Downloading,
                          WholeObjectsInstalled

\* A file that Info::status calls ready is the object.
LEMMA ReadyIsWhole ==
  ASSUME NEW o \in Object, NEW f \in File, Status(o, f) = "ready"
  PROVE  f = Whole(o)
<1>1. f.exists /\ f.len = Size[o] /\ f.clean
  BY DEF Status
<1>2. f # Absent
  BY <1>1 DEF Absent
<1>3. f \in [exists : {TRUE}, len : Nat, clean : BOOLEAN]
  BY <1>2 DEF File
<1> QED BY <1>1, <1>3 DEF Whole

\* The type invariant, whatever the packages list.
THEOREM TypesKept == Spec => []TypeOK
<1>1. Init => TypeOK /\ TodoListed
  BY Start DEF DirInv
<1>2. TypeOK /\ TodoListed /\ [Next]_vars => TypeOK' /\ TodoListed'
  BY Typing
<1> QED BY <1>1, <1>2, PTL DEF Spec

\* The directory stays bounded over any number of attempts, interruptions and
\* packages, where no package lists an object twice (clear_unrelated_files,
\* download_object).
THEOREM DirectoryBounded ==
  ASSUME Distinct
  PROVE  Spec => []DirInv /\ []DirBounded
<1>1. Init => DirInv
  BY Start
<1>2. DirInv /\ [Next]_vars => DirInv'
  BY DirStep
<1>3. DirInv => DirBounded
  BY DEF DirInv
<1> QED BY <1>1, <1>2, <1>3, PTL DEF Spec

\* What is ready is not touched by a step of the download.
LEMMA ReadyStep ==
  ASSUME DirInv, [Next]_vars, NEW o \in Shas(pkg, sets.inactive),
         pc \in {"download", "request", "transfer"}, Status(o, dir[o]) = "ready"
  PROVE  dir'[o] = dir[o]
<1>0. /\ TypeOK /\ TodoListed /\ TransferInv
      /\ pkg \in Package /\ sets.inactive \in InstallationSet
      /\ dir \in [Object -> File]
      /\ offset \in Nat
  BY DEF DirInv, TypeOK
<1>1. o \in Object
  BY <1>0, Listed DEF Shas
<1>2. dir[o].exists /\ dir[o].len = Size[o] /\ dir[o].clean
  BY DEF Status
<1>3. CASE dir' = dir
  BY <1>3
<1>4. CASE StartDownload
  BY <1>0, <1>1, <1>4, Clearing DEF StartDownload
<1>5. CASE Request \/ RequestRefused
  <2>1. dir' = [dir EXCEPT ![Current] = Opened]
    BY <1>5 DEF Request, RequestRefused
  <2> QED BY <1>0, <1>1, <1>2, <2>1 DEF Opened, Prior
<1>6. CASE Chunk
  <2>1. PICK n \in 1..(Size[Current] - offset) :
          dir' = [dir EXCEPT ![Current] =
                    [exists |-> TRUE, len |-> Prior.len + n,
                     clean |-> Prior.clean /\ Prior.len = offset]]
    BY <1>6 DEF Chunk
  <2>2. o # Current
    <3>1. SUFFICES ASSUME o = Current PROVE FALSE
      OBVIOUS
    <3>2. Prior.len = Size[Current] /\ Prior.clean /\ Size[Current] \in Nat
      BY <1>1, <1>2, <3>1, ObjectsAssumption DEF Prior
    <3>3. Prior.len = offset \/ Prior.len < Size[Current]
      BY <1>0, <1>6, <3>2 DEF TransferInv, Chunk
    <3>4. offset = Size[Current]
      BY <3>2, <3>3
    <3> QED BY <2>1, <3>2, <3>4
  <2> QED BY <1>0, <1>1, <2>1, <2>2
<1> QED
  BY <1>3, <1>4, <1>5, <1>6
     DEF Next, Offer, LocalInstall, Extract, ExtractFails, Extracted, ToDownload, ToInstall,
         SomeObjectsAreNotReady, Rejected, Install, Transferred,
         Downloaded, Interrupted, Interruptible, vars

\* An object that is ready is neither thrown away nor written to by the
\* download that needs it, where no package lists an object twice.
THEOREM ReadyFilesKept ==
  ASSUME Distinct
  PROVE  Spec => ReadyKept
<1>1. DirInv /\ [Next]_vars =>
        [\A o \in Shas(pkg, sets.inactive) :
           pc \in {"download", "request", "transfer"} /\ Status(o, dir[o]) = "ready"
             => dir'[o] = dir[o]]_vars
  BY ReadyStep
<1>2. Spec => []DirInv
  BY DirectoryBounded, PTL
<1> QED BY <1>1, <1>2, PTL DEF Spec, ReadyKept

\* Only whole objects are installed, even where packages list an object twice
\* and the server ignores ranges (validation.rs:95).
THEOREM InstallsWhole == Spec => []WholeObjectsInstalled
<1>1. ASSUME TypeOK, WholeObjectsInstalled, [Next]_vars
      PROVE  WholeObjectsInstalled'
  <2>0. /\ dir \in [Object -> File] /\ pkg \in Package /\ sets.target \in InstallationSet
    BY <1>1 DEF TypeOK
  <2>1. CASE ToInstall
    <3>1. /\ NotReady(pkg, sets.target, dir) = {}
          /\ dir' = dir /\ pkg' = pkg /\ sets' = sets
      BY <2>1 DEF ToInstall
    <3>2. ASSUME NEW i \in DOMAIN List[pkg][sets.target],
                 ~ List[pkg][sets.target][i].remote
          PROVE  dir[List[pkg][sets.target][i].sha256sum]
                   = Whole(List[pkg][sets.target][i].sha256sum)
      <4> DEFINE o == List[pkg][sets.target][i].sha256sum
      <4>1. Status(o, dir[o]) = "ready"
        BY <3>1, <3>2 DEF NotReady
      <4>2. o \in Object
        BY <2>0, Listed
      <4> QED BY <2>0, <4>1, <4>2, ReadyIsWhole
    <3> QED BY <3>1, <3>2 DEF WholeObjectsInstalled, Whole
  <2>2. CASE UNCHANGED vars
    BY <1>1, <2>2 DEF vars, WholeObjectsInstalled, Whole
  <2>3. CASE pc' # "install"
    BY <2>3 DEF WholeObjectsInstalled
  <2> QED
    BY <1>1, <2>1, <2>2, <2>3
       DEF Next, Offer, LocalInstall, Extract, ExtractFails, Extracted, ToDownload,
           SomeObjectsAreNotReady, Rejected, Install, StartDownload, Request,
           RequestRefused, Chunk, Transferred, Downloaded, Interrupted
<1>2. Init => WholeObjectsInstalled
  BY Start
<1> QED BY <1>1, <1>2, TypesKept, PTL DEF Spec
=============================================================================
