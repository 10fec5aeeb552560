-------------------------- MODULE InstallationProofs --------------------------
(***************************************************************************)
(* The installation of a package: for any packages whose objects keep out  *)
(* of each other's way, an install that ends has put each object in its    *)
(* place, whatever the attempts before it left there.                      *)
(***************************************************************************)
EXTENDS Installation, FiniteSetTheorems, WellFoundedInduction, TLAPS

\* What the handler takes out of an object.
LEMMA Entries ==
  ASSUME NEW p \in Package, NEW i \in DOMAIN List[p]
  PROVE  LET e == List[p][i]
         IN /\ e \in Entry
            /\ e.place \in Place /\ On[e.place] \in Device
            /\ Source(e) \in Content /\ Start(e) \in Nat /\ Count(e) \in Nat
            /\ e.kind \in Mounting <=> Room[e.place] = 0
            /\ e.kind \notin Mounting => ~ e.format
            /\ e.kind # "raw" => e.skip = 0 /\ e.count = All
<1> DEFINE e == List[p][i]
<1>1. List[p] \in Seq(Entry)
  BY InstallationAssumption
<1>2. e \in Entry
  BY <1>1
<1>3. /\ e.skip < Size[e.content] /\ e.count >= All
      /\ e.kind # "raw" \/ e.compressed => e.skip = 0 /\ e.count = All
      /\ e.kind \in Mounting <=> Room[e.place] = 0
      /\ e.kind \notin Mounting => ~ e.format
  BY InstallationAssumption
<1>4. /\ e.content \in Content /\ e.place \in Place /\ e.skip \in Nat
      /\ e.count \in Int /\ e.compressed \in BOOLEAN
  BY <1>2 DEF Entry
<1>5. /\ On[e.place] \in Device
      /\ Inflated[e.content] \in Content
      /\ \A c \in Content : Size[c] \in Nat \ {0}
  BY <1>4, InstallationAssumption
<1>6. Source(e) \in Content /\ Start(e) \in Nat /\ Start(e) < Size[Source(e)]
  <2>1. CASE e.compressed
    <3>1. Source(e) = Inflated[e.content] /\ Start(e) = 0
      BY <1>3, <2>1 DEF Source, Start
    <3> QED BY <3>1, <1>5
  <2>2. CASE ~ e.compressed
    BY <1>3, <1>4, <1>5, <2>2 DEF Source, Start
  <2> QED BY <2>1, <2>2
<1>7. Size[Source(e)] \in Nat
  BY <1>5, <1>6
<1>8. Count(e) \in Nat
  BY <1>3, <1>4, <1>6, <1>7 DEF Count, All
<1> HIDE DEF e
<1> QED BY <1>2, <1>3, <1>4, <1>5, <1>6, <1>8 DEF e

\* The object the handler is at.
LEMMA AtHand ==
  ASSUME TypeOK, pc \in Handling
  PROVE  /\ pkg \in Package /\ cur \in left /\ cur \in DOMAIN List[pkg]
         /\ Obj \in Entry
         /\ Obj.place \in Place /\ Where \in Device
         /\ Source(Obj) \in Content /\ Start(Obj) \in Nat /\ Count(Obj) \in Nat
         /\ Obj.kind # "raw" => Obj.skip = 0 /\ Obj.count = All
<1>1. pkg \in Package /\ cur \in left /\ cur \in DOMAIN List[pkg]
  BY DEF TypeOK
<1> QED BY <1>1, Entries DEF Obj, Where

\* Writing a chunk at the end of what is written, or over what was there.
LEMMA Puts ==
  ASSUME NEW s \in Seq(Chunk), NEW n \in Nat, n <= Len(s), NEW c \in Chunk
  PROVE  /\ Put(s, n + 1, c) \in Seq(Chunk)
         /\ Len(Put(s, n + 1, c)) >= n + 1
         /\ Len(s) = n => Len(Put(s, n + 1, c)) = n + 1
         /\ Put(s, n + 1, c)[n + 1] = c
         /\ \A k \in 1..n : Put(s, n + 1, c)[k] = s[k]
<1> DEFINE m == IF n + 1 > Len(s) THEN n + 1 ELSE Len(s)
<1>1. Len(s) \in Nat /\ \A i \in 1..Len(s) : s[i] \in Chunk
  OBVIOUS
<1>2. m \in Nat /\ m >= n + 1 /\ (Len(s) = n => m = n + 1)
  BY <1>1
<1>3. \A i \in 1..m : (IF i = n + 1 THEN c ELSE s[i]) \in Chunk
  BY <1>1
<1>4. Put(s, n + 1, c) = [i \in 1..m |-> IF i = n + 1 THEN c ELSE s[i]]
  BY DEF Put
<1> HIDE DEF m
<1>5. Put(s, n + 1, c) \in Seq(Chunk) /\ Len(Put(s, n + 1, c)) = m
  BY <1>2, <1>3, <1>4
<1>6. \A i \in 1..m : Put(s, n + 1, c)[i] = IF i = n + 1 THEN c ELSE s[i]
  BY <1>4
<1> QED BY <1>2, <1>5, <1>6

\* An emptied place.
LEMMA Blanks ==
  ASSUME NEW pl \in Place
  PROVE  Nothing(pl) \in Seq(Chunk)
<1>1. Room[pl] \in Nat
  BY InstallationAssumption
<1>2. \A k \in 1..Room[pl] : Blank \in Chunk
  BY DEF Chunk
<1> QED BY <1>1, <1>2 DEF Nothing

\* An emptied device.
LEMMA Empties ==
  ASSUME TypeOK, NEW d
  PROVE  /\ Emptied(d) \in [Place -> Seq(Chunk)]
         /\ \A pl \in Place : On[pl] # d => Emptied(d)[pl] = fill[pl]
<1>1. fill \in [Place -> Seq(Chunk)]
  BY DEF TypeOK
<1> QED BY <1>1, Blanks DEF Emptied

\* The types, while what is written is there.
LEMMA Typing ==
  ASSUME TypeOK, WrittenSoFar, [Next]_vars
  PROVE  TypeOK'
<1>0. /\ pkg \in Package
      /\ left \subseteq DOMAIN List[pkg]
      /\ at \in Nat
      /\ fill \in [Place -> Seq(Chunk)]
      /\ mode \in [Place -> {"keep", "given"}]
      /\ fs \subseteq Device /\ mounted \subseteq Device /\ stale \subseteq Device
  BY DEF TypeOK
<1>1. CASE Begin
  BY <1>1 DEF Begin, TypeOK, target, mounts, Handling
<1>2. CASE Pick
  BY <1>2 DEF Pick, TypeOK, target, mounts, Handling
<1>3. CASE Skip \/ Proceed
  BY <1>3 DEF Skip, Proceed, Looked, TypeOK, target, mounts, Handling
<1>4. CASE Format \/ FormatStops
  <2>1. pc \in Handling
    BY <1>4 DEF Format, FormatStops, Handling
  <2>2. Where \in Device
    BY <2>1, AtHand
  <2>3. Emptied(Where) \in [Place -> Seq(Chunk)]
    BY Empties
  <2>4. mode' \in [Place -> {"keep", "given"}]
    BY <1>0, <1>4 DEF Format, FormatStops
  <2>5. fill' \in [Place -> Seq(Chunk)] /\ fs' \subseteq Device
    BY <1>0, <1>4, <2>2, <2>3 DEF Format, FormatStops
  <2> QED BY <1>4, <2>4, <2>5 DEF Format, FormatStops, TypeOK, mounts, Handling
<1>5. CASE Open
  <2>1. pc \in Handling
    BY <1>5 DEF Open, Handling
  <2>2. Emptied(Where) \in [Place -> Seq(Chunk)]
    BY Empties
  <2>3. fill' \in [Place -> Seq(Chunk)]
    <3>a. <<>> \in Seq(Chunk)
      OBVIOUS
    <3>1. [fill EXCEPT ![Obj.place] = <<>>] \in [Place -> Seq(Chunk)]
      BY <1>0, <3>a
    <3>2. fill' \in {[fill EXCEPT ![Obj.place] = <<>>], Emptied(Where), fill}
      BY <1>5 DEF Open
    <3> QED BY <1>0, <2>2, <3>1, <3>2
  <2>4. fs' \subseteq Device
    BY <1>0, <1>5 DEF Open
  <2> QED BY <1>5, <2>3, <2>4 DEF Open, TypeOK, mounts, Handling
<1>6. CASE Write
  <2>0. pc \in Handling
    BY <1>6 DEF Write, Handling
  <2>1. /\ Obj.place \in Place
        /\ Source(Obj) \in Content /\ Start(Obj) \in Nat
    BY <2>0, AtHand
  <2> DEFINE c == <<Source(Obj), Start(Obj) + at + 1>>
             s == fill[Obj.place]
  <2>2. Start(Obj) + at + 1 \in Nat \ {0}
    BY <1>0, <2>1
  <2>3. c \in Chunk
    BY <2>1, <2>2 DEF Chunk
  <2>4. s \in Seq(Chunk) /\ at <= Len(s)
    BY <1>0, <1>6, <2>1 DEF Write, WrittenSoFar
  <2>5. fill' = [fill EXCEPT ![Obj.place] = Put(s, at + 1, c)]
    BY <1>6 DEF Write
  <2> HIDE DEF c, s
  <2>6. Put(s, at + 1, c) \in Seq(Chunk)
    BY <1>0, <2>3, <2>4, Puts
  <2>7. fill' \in [Place -> Seq(Chunk)]
    BY <1>0, <2>5, <2>6
  <2>8. at' \in Nat /\ fs' \subseteq Device
    BY <1>0, <1>6 DEF Write
  <2> QED BY <1>6, <2>7, <2>8 DEF Write, TypeOK, mounts, Handling
<1>7. CASE Written \/ SetAttributes
  BY <1>7, <1>0 DEF Written, SetAttributes, TypeOK, target, mounts, Handling
<1>8. CASE Installed \/ Leave \/ Refused \/ Fail
  BY <1>8 DEF Installed, Leave, Refused, Fail, TypeOK, target, mounts, Handling
<1>9. CASE Killed
  <2>1. pc' = "idle" /\ UNCHANGED <<pkg, left, cur, at, target, mounted>>
        /\ stale' \in {stale, stale \cup Guard}
    BY <1>9 DEF Killed
  <2>2. Guard \subseteq Device
    <3>1. CASE pc \in Handling
      BY <3>1, AtHand DEF Guard
    <3>2. CASE pc \notin Handling
      BY <3>2 DEF Guard, Handling
    <3> QED BY <3>1, <3>2
  <2> QED BY <1>0, <2>1, <2>2 DEF TypeOK, target, Handling
<1>10. CASE PowerLoss \/ Mount \/ Unmount
  BY <1>10, <1>0 DEF PowerLoss, Mount, Unmount, TypeOK, target, Handling
<1>11. CASE UNCHANGED vars
  BY <1>11 DEF vars, target, mounts, TypeOK
<1> QED
  BY <1>1, <1>2, <1>3, <1>4, <1>5, <1>6, <1>7, <1>8, <1>9, <1>10, <1>11
  DEF Next, Handle

\* What is written stays, and the next chunk joins it.
LEMMA Writing ==
  ASSUME TypeOK, WrittenSoFar, [Next]_vars
  PROVE  WrittenSoFar'
<1>0. at \in Nat /\ fill \in [Place -> Seq(Chunk)]
  BY DEF TypeOK
<1>1. CASE pc' \notin {"write", "attributes"}
  BY <1>1 DEF WrittenSoFar
<1>2. CASE Open
  <2>1. pc \in Handling
    BY <1>2 DEF Open, Handling
  <2>2. /\ Obj.place \in Place /\ Count(Obj) \in Nat
    BY <2>1, AtHand
  <2>3. at' = 0 /\ pc' = "write" /\ pkg' = pkg /\ cur' = cur
    BY <1>2 DEF Open
  <2>4. /\ Obj' = Obj /\ Where' = Where /\ Count(Obj)' = Count(Obj)
    BY <2>3 DEF Obj, Where, Count, Source, Start
  <2>5. Obj.kind \in Mounting => Where \in fs' /\ fill'[Obj.place] = <<>>
    <3>1. Mounting \cap Erasing = {}
      BY DEF Mounting, Erasing
    <3> QED BY <1>0, <1>2, <2>2, <3>1 DEF Open
  <2>6. fill' \in [Place -> Seq(Chunk)]
    BY Typing DEF TypeOK
  <2>7. Len(fill'[Obj.place]) \in Nat
    BY <2>2, <2>6
  <2> QED BY <2>2, <2>3, <2>4, <2>5, <2>7 DEF WrittenSoFar
<1>3. CASE Write
  <2>0. pc \in Handling
    BY <1>3 DEF Write, Handling
  <2>1. /\ Obj.place \in Place /\ Count(Obj) \in Nat
        /\ Source(Obj) \in Content /\ Start(Obj) \in Nat
    BY <2>0, AtHand
  <2> DEFINE c == <<Source(Obj), Start(Obj) + at + 1>>
             s == fill[Obj.place]
  <2>2. Start(Obj) + at + 1 \in Nat \ {0}
    BY <1>0, <2>1
  <2>3. c \in Chunk
    BY <2>1, <2>2 DEF Chunk
  <2>4. /\ s \in Seq(Chunk) /\ at <= Len(s) /\ at < Count(Obj)
        /\ \A k \in 1..at : s[k] = <<Source(Obj), Start(Obj) + k>>
        /\ Obj.kind \in Mounting => Where \in fs /\ Len(s) = at
    BY <1>0, <1>3, <2>1 DEF Write, WrittenSoFar
  <2>5. /\ pc = "write" /\ pc' = "write" /\ at' = at + 1 /\ pkg' = pkg /\ cur' = cur
        /\ Obj.kind \in Mounting => fs' = fs
    BY <1>3 DEF Write
  <2>6. /\ Obj' = Obj /\ Where' = Where /\ Count(Obj)' = Count(Obj)
        /\ Source(Obj)' = Source(Obj) /\ Start(Obj)' = Start(Obj)
    BY <2>5 DEF Obj, Where, Count, Source, Start
  <2>7. fill'[Obj.place] = Put(s, at + 1, c)
    BY <1>0, <1>3, <2>1 DEF Write
  <2>c. c = <<Source(Obj), Start(Obj) + (at + 1)>>
    BY <1>0, <2>1
  <2> HIDE DEF c, s
  <2>8. /\ Len(fill'[Obj.place]) >= at + 1
        /\ Len(s) = at => Len(fill'[Obj.place]) = at + 1
        /\ fill'[Obj.place][at + 1] = c
        /\ \A k \in 1..at : fill'[Obj.place][k] = s[k]
    BY <1>0, <2>3, <2>4, <2>7, Puts
  <2>9. \A k \in 1..(at + 1) : fill'[Obj.place][k] = <<Source(Obj), Start(Obj) + k>>
    <3> SUFFICES ASSUME NEW k \in 1..(at + 1)
                 PROVE  fill'[Obj.place][k] = <<Source(Obj), Start(Obj) + k>>
      OBVIOUS
    <3>1. CASE k = at + 1
      BY <2>8, <2>c, <3>1
    <3>2. CASE k # at + 1
      <4>1. k \in 1..at
        BY <1>0, <3>2
      <4> QED BY <2>4, <2>8, <4>1
    <3> QED BY <3>1, <3>2
  <2>10. at + 1 <= Count(Obj)
    BY <1>0, <2>1, <2>4
  <2> QED BY <2>4, <2>5, <2>6, <2>8, <2>9, <2>10 DEF WrittenSoFar
<1>4. ASSUME UNCHANGED <<pkg, cur, at, target>>, pc' \in {"write", "attributes"},
             pc \in {"write", "attributes"},
             pc' = "attributes" => at = Count(Obj) /\ Obj.kind = "copy"
      PROVE  WrittenSoFar'
  <2>1. /\ Obj' = Obj /\ Where' = Where /\ Count(Obj)' = Count(Obj)
        /\ Source(Obj)' = Source(Obj) /\ Start(Obj)' = Start(Obj)
    BY <1>4 DEF Obj, Where, Count, Source, Start
  <2>2. fill' = fill /\ fs' = fs /\ at' = at
    BY <1>4 DEF target
  <2> QED BY <1>4, <2>1, <2>2 DEF WrittenSoFar
<1>5. CASE Written /\ pc' = "attributes"
  BY <1>4, <1>5 DEF Written
<1>6. CASE (Mount \/ Unmount \/ UNCHANGED vars) /\ pc' \in {"write", "attributes"}
  <2>1. UNCHANGED <<pkg, cur, at, target, pc>>
    BY <1>6 DEF Mount, Unmount, vars, target
  <2>2. pc' = "attributes" => at = Count(Obj) /\ Obj.kind = "copy"
    BY <2>1 DEF WrittenSoFar
  <2> QED BY <1>4, <1>6, <2>1, <2>2
<1> QED
  BY <1>1, <1>2, <1>3, <1>5, <1>6
  DEF Next, Handle, Begin, Pick, Skip, Proceed, Format, FormatStops, Written, SetAttributes,
      Installed, Leave, Refused, Fail, Killed, PowerLoss

\* The first state has nothing under way.
LEMMA Starts == Init => InstallInv
<1>1. {On[pl] : pl \in {f \in Place : Room[f] = 0}} \subseteq Device
  BY InstallationAssumption
<1> QED BY <1>1, Blanks DEF Init, InstallInv, TypeOK, Stages, TakenFirst, TakenInPlace,
                            WrittenSoFar, Handling

\* Installation keeps its types (Install::handle and the handlers).
THEOREM TypesKept == Spec => []TypeOK
<1>1. Init => TypeOK /\ WrittenSoFar
  BY Starts DEF InstallInv
<1>2. TypeOK /\ WrittenSoFar /\ [Next]_vars => TypeOK' /\ WrittenSoFar'
  BY Typing, Writing
<1> QED BY <1>1, <1>2, PTL DEF Spec

(***************************************************************************)
(* What is taken stays in its place.                                       *)
(***************************************************************************)

\* An object is in its place while nothing it rests on changes.
LEMMA Stays ==
  ASSUME NEW e, InPlace(e), fill'[e.place] = fill[e.place], mode'[e.place] = mode[e.place],
         e.kind \in Mounting /\ On[e.place] \in fs => On[e.place] \in fs'
  PROVE  InPlace(e)'
BY DEF InPlace, Count, Source, Start

\* The object the handler is at does not wipe those that were taken.
LEMMA OutOfTheWay ==
  ASSUME TypeOK, TakenFirst, Apart, pc \in Handling, NEW i \in DOMAIN List[pkg] \ left
  PROVE  /\ List[pkg][i].place # Obj.place
         /\ ~ Wipes(Obj, List[pkg][i])
<1>1. pkg \in Package /\ cur \in left /\ cur \in DOMAIN List[pkg] /\ i # cur
  BY AtHand
<1>2. pc # "idle"
  BY DEF Handling
<1>3. Before(pkg, i, cur)
  BY <1>1, <1>2 DEF TakenFirst
<1> QED BY <1>1, <1>3 DEF Apart, Obj

\* An object is skipped only where it is in its place.
LEMMA Skipped ==
  ASSUME TypeOK, Looked, Obj.kind \in Checking, Same(Obj), Judged(Obj)
  PROVE  InPlace(Obj)
<1>1. pc \in Handling
  BY DEF Looked, Handling
<1>2. /\ Obj \in Entry /\ Obj.place \in Place
      /\ Obj.kind # "raw" => Obj.skip = 0 /\ Obj.count = All
  BY <1>1, AtHand
<1>3. Obj.count \in Int /\ Obj.content \in Content
  BY <1>2 DEF Entry
<1>4. /\ Obj.rule = "checksum" /\ Obj.mode = "keep" /\ Obj.skip = 0 /\ ~ Obj.compressed
      /\ Read(Obj) = [k \in 1..Size[Obj.content] |-> <<Obj.content, k>>]
  BY DEF Same, Judged
<1>5. Source(Obj) = Obj.content /\ Start(Obj) = 0 /\ Size[Obj.content] \in Nat
  BY <1>3, <1>4, InstallationAssumption DEF Source, Start
<1> DEFINE s == fill[Obj.place]
           n == Size[Obj.content]
<1>6. s \in Seq(Chunk) /\ Len(s) \in Nat /\ DOMAIN s = 1..Len(s)
  BY <1>2 DEF TypeOK
<1>7. CASE Obj.count = All \/ Obj.count > Len(s)
  <2>1. s = [k \in 1..n |-> <<Obj.content, k>>]
    BY <1>4, <1>7 DEF Read
  <2>2. 1..Len(s) = 1..n /\ \A k \in 1..n : s[k] = <<Obj.content, k>>
    BY <1>6, <2>1
  <2>3. Len(s) = n
    BY <1>5, <1>6, <2>2
  <2>4. Count(Obj) = n
    BY <1>3, <1>4, <1>5, <1>7, <2>3 DEF Count
  <2>5. Obj.kind \in Mounting => On[Obj.place] \in fs
    BY DEF Looked, Where, Checking, Mounting
  <2> QED BY <1>4, <1>5, <2>2, <2>3, <2>4, <2>5 DEF InPlace
<1>8. CASE Obj.count # All /\ Obj.count <= Len(s)
  <2>1. [k \in 1..Obj.count |-> s[k]] = [k \in 1..n |-> <<Obj.content, k>>]
    <3>1. ~ (Obj.count = All \/ Obj.count > Len(s))
      BY <1>3, <1>6, <1>8
    <3>2. Read(Obj) = [k \in 1..Obj.count |-> s[k]]
      BY <3>1 DEF Read
    <3> QED BY <1>4, <3>2
  <2>2. 1..Obj.count = 1..n /\ \A k \in 1..n : s[k] = <<Obj.content, k>>
    BY <2>1
  <2>a. n \in 1..n
    BY <1>3, InstallationAssumption
  <2>b. n \in 1..Obj.count
    BY <2>2, <2>a
  <2>3. Obj.count >= n /\ n <= Len(s)
    BY <1>3, <1>5, <1>6, <1>8, <2>b
  <2>4. Count(Obj) = n
    BY <1>3, <1>4, <1>5, <1>8, <2>2, <2>3 DEF Count
  <2>5. Obj.kind = "raw" /\ Obj.kind \notin Mounting
    BY <1>2, <1>8 DEF Mounting
  <2> QED BY <1>4, <1>5, <2>2, <2>3, <2>4, <2>5 DEF InPlace
<1> QED BY <1>3, <1>6, <1>7, <1>8

\* Every step leaves in their place the objects that were taken, and puts there
\* the one it takes.
LEMMA Taking ==
  ASSUME InstallInv, Apart, [Next]_vars
  PROVE  TakenInPlace'
<1>0. TypeOK /\ Stages /\ TakenFirst /\ TakenInPlace /\ WrittenSoFar /\ pkg \in Package
  BY DEF InstallInv, TypeOK
<1>1. CASE pc' = "idle"
  BY <1>1 DEF TakenInPlace
<1>2. CASE Begin
  BY <1>2 DEF Begin, TakenInPlace
<1> PICK p \in Package : p = pkg
  BY <1>0
<1>3. ASSUME pc # "idle", pkg' = pkg,
             \A i \in DOMAIN List[p] \ left' :
               Judged(List[p][i]) =>
                 \/ InPlace(List[p][i])'
                 \/ /\ i \notin left
                    /\ fill'[List[p][i].place] = fill[List[p][i].place]
                    /\ mode'[List[p][i].place] = mode[List[p][i].place]
                    /\ List[p][i].kind \in Mounting /\ On[List[p][i].place] \in fs
                         => On[List[p][i].place] \in fs'
      PROVE  TakenInPlace'
  <2>1. ASSUME NEW i \in DOMAIN List[p] \ left', Judged(List[p][i])
        PROVE  InPlace(List[p][i])'
    <3>1. CASE i \notin left
      <4>1. InPlace(List[p][i])
        BY <1>0, <1>3, <2>1, <3>1 DEF TakenInPlace
      <4> QED BY <1>3, <2>1, <4>1, Stays
    <3> QED BY <1>3, <2>1, <3>1
  <2>2. \A i \in DOMAIN List[p] \ left' : Judged(List[p][i])' => InPlace(List[p][i])'
    BY <2>1 DEF Judged
  <2> QED BY <1>3, <2>2 DEF TakenInPlace
<1>4. CASE UNCHANGED <<pkg, left, target>> /\ pc # "idle"
  BY <1>3, <1>4 DEF target
<1>5. CASE Skip
  <2>1. /\ pc = "check" /\ UNCHANGED <<pkg, cur, target>> /\ left' = left \ {cur}
        /\ Looked /\ Obj.kind \in Checking /\ Same(Obj)
    BY <1>5 DEF Skip, Looked
  <2>2. Judged(List[p][cur]) => InPlace(List[p][cur])
    BY <1>0, <2>1, Skipped DEF Obj
  <2>3. Judged(List[p][cur]) => InPlace(List[p][cur])'
    BY <2>1, <2>2, Stays DEF target
  <2> QED BY <1>3, <2>1, <2>3 DEF target
<1>6. ASSUME pc \in Handling, pkg' = pkg, left' = left,
             fill' = [fill EXCEPT ![Obj.place] = fill'[Obj.place]],
             mode' = mode,
             Obj.kind \in Mounting => fs' = fs,
             fs \ {Where} \subseteq fs'
      PROVE  TakenInPlace'
  <2>1. ASSUME NEW i \in DOMAIN List[p] \ left
        PROVE  /\ fill'[List[p][i].place] = fill[List[p][i].place]
               /\ List[p][i].kind \in Mounting /\ On[List[p][i].place] \in fs
                    => On[List[p][i].place] \in fs'
    <3>1. List[p][i].place # Obj.place /\ ~ Wipes(Obj, List[p][i])
      BY <1>0, <1>6, OutOfTheWay
    <3>2. List[p][i].place \in Place /\ fill \in [Place -> Seq(Chunk)]
      BY <1>0, Entries DEF TypeOK
    <3>3. fill'[List[p][i].place] = fill[List[p][i].place]
      BY <1>6, <3>1, <3>2
    <3>4. ASSUME List[p][i].kind \in Mounting, On[List[p][i].place] \in fs
          PROVE  On[List[p][i].place] \in fs'
      BY <1>6, <3>1, <3>4 DEF Wipes, Where
    <3> QED BY <3>3, <3>4
  <2>2. pc # "idle"
    BY <1>6 DEF Handling
  <2> QED BY <1>3, <1>6, <2>1, <2>2
<1>7. ASSUME pc \in Handling, pkg' = pkg, left' = left,
             Obj.format \/ Obj.kind \in Erasing,
             fill' = Emptied(Where),
             \A pl \in Place : On[pl] # Where => mode'[pl] = mode[pl],
             fs \ {Where} \subseteq fs'
      PROVE  TakenInPlace'
  <2>1. ASSUME NEW i \in DOMAIN List[p] \ left
        PROVE  /\ fill'[List[p][i].place] = fill[List[p][i].place]
               /\ mode'[List[p][i].place] = mode[List[p][i].place]
               /\ On[List[p][i].place] \in fs => On[List[p][i].place] \in fs'
    <3>1. ~ Wipes(Obj, List[p][i])
      BY <1>0, <1>7, OutOfTheWay
    <3>2. List[p][i].place \in Place
      BY Entries
    <3>3. On[List[p][i].place] # Where
      BY <1>7, <3>1 DEF Wipes, Where
    <3> QED BY <1>0, <1>7, <3>2, <3>3, Empties
  <2>2. pc # "idle"
    BY <1>7 DEF Handling
  <2> QED BY <1>3, <1>7, <2>1, <2>2
<1>8. CASE Format
  BY <1>0, <1>7, <1>8 DEF Format, Stages, Handling
<1>9. CASE Open
  <2>1. pc \in Handling /\ Mounting \cap Erasing = {} /\ fill \in [Place -> Seq(Chunk)]
    BY <1>0, <1>9 DEF Open, Handling, Mounting, Erasing, TypeOK
  <2>2. pkg' = pkg /\ left' = left /\ mode' = mode
    BY <1>9 DEF Open
  <2>3. Obj.place \in Place
    BY <1>0, <2>1, AtHand
  <2>4. CASE Obj.kind \in Erasing
    <3>1. fill' = Emptied(Where) /\ fs' = fs \ {Where}
      BY <1>9, <2>1, <2>4 DEF Open
    <3> QED BY <1>7, <2>1, <2>2, <2>4, <3>1
  <2>5. CASE Obj.kind \notin Erasing
    <3>1. fs' = fs /\ (fill' = [fill EXCEPT ![Obj.place] = <<>>] \/ fill' = fill)
      BY <1>9, <2>1, <2>5 DEF Open
    <3>2. fill' = [fill EXCEPT ![Obj.place] = fill'[Obj.place]]
      BY <2>1, <2>3, <3>1
    <3> QED BY <1>6, <2>1, <2>2, <3>1, <3>2
  <2> QED BY <2>4, <2>5
<1>10. CASE Write
  <2>1. pc \in Handling /\ fill \in [Place -> Seq(Chunk)]
    BY <1>0, <1>10 DEF Write, Handling, TypeOK
  <2>2. Obj.place \in Place
    BY <1>0, <2>1, AtHand
  <2>3. fill' = [fill EXCEPT ![Obj.place] = fill'[Obj.place]]
    <3> DEFINE v == Put(fill[Obj.place], at + 1, <<Source(Obj), Start(Obj) + at + 1>>)
    <3>1. fill' = [fill EXCEPT ![Obj.place] = v]
      BY <1>10 DEF Write
    <3> HIDE DEF v
    <3> QED BY <2>1, <2>2, <3>1
  <2>4. /\ pkg' = pkg /\ left' = left /\ mode' = mode
        /\ Obj.kind \in Mounting => fs' = fs
        /\ fs \ {Where} \subseteq fs'
    BY <1>10 DEF Write
  <2> QED BY <1>6, <2>1, <2>3, <2>4
<1>11. CASE Written
  <2>1. /\ pc = "write" /\ at = Count(Obj) /\ UNCHANGED <<pkg, cur, target>>
        /\ left' = left \/ (left' = left \ {cur} /\ Obj.kind # "copy")
    BY <1>11 DEF Written
  <2>2. CASE left' = left
    BY <1>4, <2>1, <2>2
  <2>3. CASE left' = left \ {cur} /\ Obj.kind # "copy"
    <3>1. InPlace(Obj)
      BY <1>0, <2>1, <2>3 DEF WrittenSoFar, InPlace, Where
    <3>2. InPlace(List[p][cur])'
      BY <2>1, <3>1, Stays DEF Obj, target
    <3> QED BY <1>3, <2>1, <2>3, <3>2 DEF target
  <2> QED BY <2>1, <2>2, <2>3
<1>12. CASE SetAttributes
  <2>1. /\ pc = "attributes" /\ UNCHANGED <<pkg, cur, fill, fs>>
        /\ left' = left \ {cur}
        /\ mode' = IF Obj.mode = "given" THEN [mode EXCEPT ![Obj.place] = "given"] ELSE mode
    BY <1>12 DEF SetAttributes
  <2>2. pc \in Handling /\ mode \in [Place -> {"keep", "given"}]
    BY <1>0, <2>1 DEF Handling, TypeOK
  <2>3. Obj.place \in Place /\ Count(Obj) \in Nat
    BY <1>0, <2>2, AtHand
  <2>4. InPlace(List[p][cur])'
    <3>1. /\ at = Count(Obj) /\ Len(fill[Obj.place]) >= Count(Obj)
          /\ \A k \in 1..Count(Obj) : fill[Obj.place][k] = <<Source(Obj), Start(Obj) + k>>
          /\ Obj.kind \in Mounting => On[Obj.place] \in fs /\ Len(fill[Obj.place]) = Count(Obj)
      BY <1>0, <2>1 DEF WrittenSoFar, Where
    <3>2. Obj.mode = "given" => mode'[Obj.place] = "given"
      BY <2>1, <2>2, <2>3
    <3>3. Obj = List[p][cur]
      BY DEF Obj
    <3> QED BY <2>1, <3>1, <3>2, <3>3 DEF InPlace, Count, Source, Start
  <2>5. ASSUME NEW i \in DOMAIN List[p] \ left
        PROVE  mode'[List[p][i].place] = mode[List[p][i].place]
    BY <1>0, <2>1, <2>2, OutOfTheWay
  <2> QED BY <1>3, <2>1, <2>4, <2>5
<1>13. CASE Pick \/ Proceed \/ Installed
  BY <1>4, <1>13 DEF Pick, Proceed, Looked, Installed
<1>14. CASE FormatStops \/ Leave \/ Refused \/ Fail \/ Killed \/ PowerLoss
  BY <1>1, <1>14 DEF FormatStops, Leave, Refused, Fail, Killed, PowerLoss
<1>15. CASE Mount \/ Unmount \/ UNCHANGED vars
  <2>1. UNCHANGED <<pkg, left, target, pc>>
    BY <1>15 DEF Mount, Unmount, vars
  <2> QED BY <1>1, <1>4, <2>1
<1> QED
  BY <1>2, <1>5, <1>8, <1>9, <1>10, <1>11, <1>12, <1>13, <1>14, <1>15 DEF Next, Handle

\* The order in which objects are taken, and the stages of an install.
LEMMA Ordering ==
  ASSUME TypeOK, Stages, TakenFirst, [Next]_vars
  PROVE  Stages' /\ TakenFirst'
<1>1. CASE pc' = "idle"
  BY <1>1 DEF Stages, TakenFirst, Handling
<1>2. CASE Begin
  BY <1>2 DEF Begin, Stages, TakenFirst, Handling
<1>3. CASE Pick
  BY <1>3 DEF Pick, Stages, TakenFirst, Handling, Before
<1>4. CASE Skip \/ (Written /\ pc' = "next") \/ SetAttributes
  <2>1. /\ pc \in Handling /\ pc' = "next" /\ pkg' = pkg /\ left' = left \ {cur}
    BY <1>4 DEF Skip, Looked, Written, SetAttributes, Handling
  <2>2. \A i \in DOMAIN List[pkg] \ left, j \in left : Before(pkg, i, j)
    BY <2>1 DEF TakenFirst, Handling
  <2>3. \A j \in left : Before(pkg, cur, j)
    BY <2>1 DEF TakenFirst
  <2>4. \A i \in DOMAIN List[pkg] \ left', j \in left' : Before(pkg, i, j)
    BY <2>1, <2>2, <2>3
  <2>5. \A i, j : Before(pkg, i, j) => Before(pkg, i, j)'
    BY <2>1 DEF Before
  <2> QED BY <2>1, <2>4, <2>5 DEF Stages, TakenFirst, Handling
<1>5. ASSUME UNCHANGED <<pkg, left, cur>>, pc # "idle", Stages',
             pc' \in Handling => pc \in Handling
      PROVE  TakenFirst'
  BY <1>5 DEF TakenFirst, Before
<1>6. CASE Proceed \/ Format \/ Open \/ Write \/ (Written /\ pc' # "next") \/ Installed
  <2>1. UNCHANGED <<pkg, left, cur>> /\ pc # "idle" /\ (pc' \in Handling => pc \in Handling)
    BY <1>6 DEF Proceed, Looked, Format, Open, Write, Written, Installed, Handling
  <2>2. Stages'
    BY <1>6 DEF Proceed, Format, Open, Write, Written, Installed, Stages, Obj
  <2> QED BY <1>5, <2>1, <2>2
<1>7. CASE Mount \/ Unmount \/ UNCHANGED vars
  <2>1. UNCHANGED <<pkg, left, cur, pc>>
    BY <1>7 DEF Mount, Unmount, vars
  <2>2. Stages'
    BY <2>1 DEF Stages, Obj
  <2> QED BY <1>1, <1>5, <2>1, <2>2
<1> QED
  BY <1>1, <1>2, <1>3, <1>4, <1>6, <1>7
  DEF Next, Handle, FormatStops, Leave, Refused, Fail, Killed, PowerLoss

\* The invariant of an installation, where the objects of a package keep out of
\* each other's way: what was taken was longer and is in its place, what is being
\* written is there so far (Install::handle and the handlers).
THEOREM InstallCorrect == Apart /\ Spec => []InstallInv
<1>1. ASSUME Apart
      PROVE  Spec => []InstallInv
  <2>1. Init => InstallInv
    BY Starts
  <2>2. InstallInv /\ [Next]_vars => InstallInv'
    <3> SUFFICES ASSUME InstallInv, [Next]_vars
                 PROVE  InstallInv'
      OBVIOUS
    <3>1. TypeOK /\ Stages /\ TakenFirst /\ WrittenSoFar
      BY DEF InstallInv
    <3> QED BY <1>1, <3>1, Typing, Writing, Ordering, Taking DEF InstallInv
  <2> QED BY <2>1, <2>2, PTL DEF Spec
<1> QED BY <1>1

\* An install that ends has put each object whose rule can be relied on in its
\* place, where the objects of a package keep out of each other's way, whatever
\* failed, was killed or lost power before (Install::handle, should_skip_install).
THEOREM InstalledInPlace == Apart /\ Spec => []AllInPlace
<1>1. InstallInv => AllInPlace
  BY DEF InstallInv, Stages, TakenInPlace, AllInPlace
<1> QED BY <1>1, InstallCorrect, PTL

(***************************************************************************)
(* The walk over the devices.                                              *)
(***************************************************************************)

\* A set of naturals has a least element.
LEMMA LeastNatural ==
  ASSUME NEW T \in SUBSET Nat, T # {}
  PROVE  \E x \in T : \A y \in T : x <= y
<1>1. PICK x \in T : \A y \in T : <<y, x>> \notin OpToRel(<, Nat)
  BY NatLessThanWellFounded, WFMin
<1>2. \A y \in T : ~ (y < x)
  BY <1>1 DEF OpToRel
<1>3. \A y \in T : y \in Nat
  OBVIOUS
<1>4. \A y \in T : x <= y
  BY <1>2, <1>3
<1> QED BY <1>4

\* What a device was found to lead to, and what leads there.
Found(t, S) == S \cup {y \in DOMAIN t.disk : \E x \in S : Leads(t, x, y)}

Steps(t, d, L, f) == f = [n \in 0..L |-> IF n = 0 THEN {d} ELSE Found(t, f[n - 1])]

\* A walk of any length is possible.
LEMMA WalkExists ==
  ASSUME NEW t, NEW d, NEW L \in Nat
  PROVE  \E f : Steps(t, d, L, f)
<1> DEFINE T == {n \in Nat : ~ \E f : Steps(t, d, n, f)}
<1>1. 0 \notin T
  <2> DEFINE f == [n \in 0..0 |-> {d}]
  <2>1. f = [n \in 0..0 |-> IF n = 0 THEN {d} ELSE Found(t, f[n - 1])]
    OBVIOUS
  <2> QED BY <2>1 DEF Steps
<1>2. ASSUME NEW n \in Nat \ {0}, NEW g, Steps(t, d, n - 1, g)
      PROVE  \E f : Steps(t, d, n, f)
  <2> DEFINE F(S) == Found(t, S)
             f == [k \in 0..n |-> IF k = n THEN F(g[n - 1]) ELSE g[k]]
  <2>1. g = [k \in 0..(n - 1) |-> IF k = 0 THEN {d} ELSE F(g[k - 1])]
    BY <1>2 DEF Steps
  <2> HIDE DEF F
  <2>2. ASSUME NEW k \in 0..n PROVE f[k] = IF k = 0 THEN {d} ELSE F(f[k - 1])
    <3>1. CASE k = n
      BY <3>1
    <3>2. CASE k # n
      <4>1. k \in 0..(n - 1) /\ (k # 0 => k - 1 \in 0..n /\ k - 1 # n)
        BY <3>2
      <4> QED BY <2>1, <3>2, <4>1
    <3> QED BY <3>1, <3>2
  <2>3. f = [k \in 0..n |-> IF k = 0 THEN {d} ELSE F(f[k - 1])]
    BY <2>2
  <2> HIDE DEF f
  <2>4. Steps(t, d, n, f)
    BY <2>3 DEF Steps, F
  <2> QED BY <2>4
<1>3. T = {}
  <2> SUFFICES ASSUME T # {} PROVE FALSE
    OBVIOUS
  <2>1. T \in SUBSET Nat
    OBVIOUS
  <2> HIDE DEF T
  <2>2. PICK n \in T : \A k \in T : n <= k
    BY <2>1, LeastNatural
  <2>3. n \in Nat \ {0} /\ n - 1 \in Nat /\ n - 1 \notin T
    BY <1>1, <2>1, <2>2
  <2>4. \E g : Steps(t, d, n - 1, g)
    BY <2>3 DEF T
  <2> QED BY <1>2, <2>2, <2>3, <2>4 DEF T
<1> QED BY <1>3

\* As many steps as there are devices find all there is to find.
LEMMA WalkEnds ==
  ASSUME NEW t, IsFiniteSet(DOMAIN t.disk), NEW d \in DOMAIN t.disk
  PROVE  /\ Walked(t, d) \subseteq DOMAIN t.disk
         /\ d \in Walked(t, d)
         /\ \A x \in Walked(t, d), y \in DOMAIN t.disk : Leads(t, x, y) => y \in Walked(t, d)
         /\ \A y \in Walked(t, d) : y = d \/ \E x \in DOMAIN t.disk : Leads(t, x, y)
<1> DEFINE D == DOMAIN t.disk
           L == Cardinality(D)
           f == CHOOSE g : Steps(t, d, L, g)
           F(S) == Found(t, S)
           Ends(S) == F(S) = S
<1>1. L \in Nat
  BY FS_CardinalityType
<1>2. Steps(t, d, L, f)
  <2> HIDE DEF L
  <2> QED BY <1>1, WalkExists
<1>3. Walked(t, d) = f[L]
  BY DEF Walked, Steps, Found
<1>4. \A n \in 0..L : f[n] = IF n = 0 THEN {d} ELSE F(f[n - 1])
  <2>1. f = [n \in 0..L |-> IF n = 0 THEN {d} ELSE F(f[n - 1])]
    BY <1>2 DEF Steps
  <2> HIDE DEF L, f, F
  <2> QED BY <2>1
<1> DEFINE Good(n) == /\ f[n] \subseteq D /\ d \in f[n]
                      /\ \A y \in f[n] : y = d \/ \E x \in D : Leads(t, x, y)
                      /\ Ends(f[n]) \/ Cardinality(f[n]) > n
           T == {n \in 0..L : ~ Good(n)}
<1> HIDE DEF L, f, Good
<1>5. Good(0)
  <2>1. f[0] = {d}
    BY <1>1, <1>4
  <2> QED BY <2>1, FS_Singleton DEF Good
<1>6. ASSUME NEW n \in 1..L, Good(n - 1) PROVE Good(n)
  <2> DEFINE S == f[n - 1]
  <2>1. /\ S \subseteq D /\ d \in S
        /\ \A y \in S : y = d \/ \E x \in D : Leads(t, x, y)
        /\ Ends(S) \/ Cardinality(S) > n - 1
    BY <1>6 DEF Good
  <2>2. f[n] = F(S)
    BY <1>4
  <2> HIDE DEF S
  <2>3. S \subseteq F(S) /\ F(S) \subseteq D
    BY <2>1 DEF Found
  <2>4. \A y \in F(S) : y = d \/ \E x \in D : Leads(t, x, y)
    BY <2>1 DEF Found
  <2>5. CASE Ends(S)
    BY <2>1, <2>2, <2>5 DEF Good
  <2>6. CASE ~ Ends(S)
    <3> HIDE DEF F
    <3>1. IsFiniteSet(F(S)) /\ Cardinality(F(S)) \in Nat
      BY <2>3, FS_Subset, FS_CardinalityType
    <3>2. IsFiniteSet(S) /\ Cardinality(S) \in Nat
      BY <2>1, FS_Subset, FS_CardinalityType
    <3>3. Cardinality(S) <= Cardinality(F(S)) /\ Cardinality(S) # Cardinality(F(S))
      BY <2>3, <2>6, <3>1, FS_Subset
    <3>4. Cardinality(F(S)) > n
      BY <2>1, <2>6, <3>1, <3>2, <3>3
    <3> QED BY <2>1, <2>2, <2>3, <2>4, <3>4 DEF Good
  <2> QED BY <2>5, <2>6
<1>7. T = {}
  <2> SUFFICES ASSUME T # {} PROVE FALSE
    OBVIOUS
  <2>1. T \in SUBSET Nat
    BY <1>1
  <2> HIDE DEF T
  <2>2. PICK n \in T : \A k \in T : n <= k
    BY <2>1, LeastNatural
  <2>3. n \in 1..L /\ ~ Good(n)
    BY <1>1, <1>5, <2>2 DEF T
  <2>4. n - 1 \in 0..L /\ n - 1 \notin T
    BY <1>1, <2>1, <2>2, <2>3
  <2> QED BY <1>6, <2>3, <2>4 DEF T
<1>8. Good(L)
  <2>1. L \in 0..L
    BY <1>1
  <2> QED BY <1>7, <2>1
<1>9. ~ (Cardinality(f[L]) > L)
  <2>1. f[L] \in SUBSET D
    BY <1>8 DEF Good
  <2>2. Cardinality(f[L]) \in Nat /\ Cardinality(f[L]) <= Cardinality(D)
    <3> HIDE DEF D
    <3> QED BY <2>1, FS_Subset, FS_CardinalityType DEF D
  <2> QED BY <1>1, <2>2 DEF L
<1>10. F(f[L]) = f[L]
  BY <1>8, <1>9 DEF Good
<1>11. \A x \in f[L], y \in D : Leads(t, x, y) => y \in f[L]
  BY <1>10 DEF Found
<1> QED BY <1>3, <1>8, <1>11 DEF Good

(***************************************************************************)
(* The devices that hold a block form a chain.                             *)
(***************************************************************************)

\* A set of devices that hold b and that nothing leads out of but to devices
\* that do not.
Closed(t, blocks, b, S) ==
  \A x \in S, y \in DOMAIN t.disk : Carries(t, x, y) /\ b \in blocks[y] => y \in S

Above(t, blocks, b, d) ==
  {y \in DOMAIN t.disk : \A S \in SUBSET DOMAIN t.disk :
                           d \in S /\ Closed(t, blocks, b, S) => y \in S}

LEMMA AboveGrows ==
  ASSUME NEW t, NEW blocks, NEW b, NEW d \in DOMAIN t.disk
  PROVE  /\ d \in Above(t, blocks, b, d)
         /\ \A x \in Above(t, blocks, b, d), y \in DOMAIN t.disk :
              Carries(t, x, y) /\ b \in blocks[y] => y \in Above(t, blocks, b, d)
  BY DEF Above, Closed

\* Whatever holds the block is above the ground that does.
LEMMA AboveGround ==
  ASSUME NEW t, NEW blocks, Layered(t, blocks), NEW b,
         NEW g \in DOMAIN t.disk, Ground(t, g), b \in blocks[g],
         NEW y \in DOMAIN t.disk, b \in blocks[y]
  PROVE  y \in Above(t, blocks, b, g)
<1> DEFINE D == DOMAIN t.disk
           T == {z \in D : b \in blocks[z] /\ z \notin Above(t, blocks, b, g)}
<1>1. T = {}
  <2> SUFFICES ASSUME T # {} PROVE FALSE
    OBVIOUS
  <2>1. T \in SUBSET D
    OBVIOUS
  <2>2. PICK z \in T : \A x \in T : ~ Carries(t, x, z)
    BY <2>1 DEF Layered
  <2>3. z \in D /\ b \in blocks[z] /\ z \notin Above(t, blocks, b, g)
    BY <2>2
  <2>4. CASE Ground(t, z)
    BY <2>3, <2>4, AboveGrows DEF Layered
  <2>5. CASE ~ Ground(t, z)
    <3>1. PICK x \in D : Carries(t, x, z) /\ b \in blocks[x]
      BY <2>3, <2>5 DEF Layered
    <3>2. x \in Above(t, blocks, b, g)
      BY <2>2, <3>1
    <3> QED BY <2>3, <3>1, <3>2, AboveGrows
  <2> QED BY <2>4, <2>5
<1> QED BY <1>1

\* Of two devices that hold the block, one is above the other.
LEMMA Comparable ==
  ASSUME NEW t, NEW blocks, Layered(t, blocks), NEW b,
         NEW x \in DOMAIN t.disk, b \in blocks[x],
         NEW y \in DOMAIN t.disk, b \in blocks[y]
  PROVE  y \in Above(t, blocks, b, x) \/ x \in Above(t, blocks, b, y)
<1> DEFINE D == DOMAIN t.disk
           Up(z) == Above(t, blocks, b, z)
           T == {z \in D : b \in blocks[z] /\ y \notin Up(z) /\ z \notin Up(y)}
<1>1. T = {}
  <2> SUFFICES ASSUME T # {} PROVE FALSE
    OBVIOUS
  <2>1. T \in SUBSET D
    OBVIOUS
  <2>2. PICK z \in T : \A u \in T : ~ Carries(t, u, z)
    BY <2>1 DEF Layered
  <2>3. z \in D /\ b \in blocks[z] /\ y \notin Up(z) /\ z \notin Up(y)
    BY <2>2
  <2>4. ~ Ground(t, z)
    BY <2>3, AboveGround
  <2>5. PICK u \in D : Carries(t, u, z) /\ b \in blocks[u]
    BY <2>3, <2>4 DEF Layered
  <2>6. y \in Up(u) \/ u \in Up(y)
    BY <2>2, <2>5
  <2>7. u \notin Up(y)
    BY <2>3, <2>5, AboveGrows
  <2>8. u # y
    BY <2>7, AboveGrows
  <2>9. Closed(t, blocks, b, {u} \cup Up(z))
    <3>1. ASSUME NEW w \in D, Carries(t, u, w), b \in blocks[w] PROVE w \in Up(z)
      <4>1. w = z
        <5>1. b \in blocks[u] \cap blocks[w] \cap blocks[z]
          BY <2>3, <2>5, <3>1
        <5> QED BY <2>3, <2>5, <3>1, <5>1 DEF Layered
      <4> QED BY <2>3, <4>1, AboveGrows
    <3>2. ASSUME NEW v \in Up(z), NEW w \in D, Carries(t, v, w), b \in blocks[w]
          PROVE  w \in Up(z)
      BY <2>3, <3>2, AboveGrows
    <3> QED BY <3>1, <3>2 DEF Closed
  <2>10. {u} \cup Up(z) \in SUBSET D
    BY DEF Above
  <2>11. y \in {u} \cup Up(z)
    BY <2>6, <2>7, <2>9, <2>10 DEF Above
  <2> QED BY <2>3, <2>8, <2>11
<1> QED BY <1>1

\* What nothing is stacked on is above all that holds a block of it, and is
\* affected by a write there (related_block_devices, mount_sources_for).
LEMMA TopAffected ==
  ASSUME NEW t, IsFiniteSet(DOMAIN t.disk), NEW blocks, Layered(t, blocks),
         NEW d \in DOMAIN t.disk, NEW e \in DOMAIN t.disk, Top(t, e),
         blocks[d] \cap blocks[e] # {}
  PROVE  e \in Affected(t, d)
<1> DEFINE D == DOMAIN t.disk
           W == Walked(t, d)
           S == W \cup {y \in D : y \in t.volumes[d]}
<1>1. PICK b : b \in blocks[d] /\ b \in blocks[e]
  OBVIOUS
<1>2. e \in Above(t, blocks, b, d)
  <2>1. CASE d \in Above(t, blocks, b, e)
    <3>1. Closed(t, blocks, b, {e})
      BY DEF Closed, Top
    <3>2. d = e
      BY <2>1, <3>1 DEF Above
    <3> QED BY <3>2, AboveGrows
  <2> QED BY <1>1, <2>1, Comparable
<1>3. /\ W \subseteq D /\ d \in W
      /\ \A x \in W, y \in D : Leads(t, x, y) => y \in W
      /\ \A y \in W : y = d \/ \E x \in D : Leads(t, x, y)
  BY WalkEnds
<1> HIDE DEF W
<1>4. ASSUME NEW x \in S, NEW y \in D, Carries(t, x, y) PROVE y \in S
  <2>1. CASE x \in W /\ Leads(t, x, y)
    BY <1>3, <2>1
  <2>2. CASE x \in W /\ y \in t.volumes[x]
    <3>1. Ground(t, x)
      BY <1>3, <2>2 DEF Layered
    <3>2. x = d
      BY <1>3, <2>2, <3>1 DEF Ground, Carries
    <3> QED BY <2>2, <3>2
  <2>3. CASE x \notin W
    <3>1. x \in D /\ x \in t.volumes[d]
      BY <2>3
    <3> QED BY <1>4, <3>1 DEF Layered
  <2> QED BY <1>4, <2>1, <2>2, <2>3 DEF Carries
<1>5. S \in SUBSET D /\ d \in S /\ Closed(t, blocks, b, S)
  BY <1>3, <1>4 DEF Closed
<1>6. e \in S
  <2> HIDE DEF S
  <2> QED BY <1>2, <1>5 DEF Above
<1> QED BY <1>6 DEF Affected, Related, Sources, W

\* Whatever can be mounted, and shares storage with a device, is looked for among
\* the mounts before the device is written (ensure_not_mounted), however the
\* devices are stacked.
THEOREM AllReached == Stacked => ReachesAll
<1> SUFFICES ASSUME Stacked, NEW d \in Device, NEW e \in Mountable, Share(d, e)
             PROVE  e \in Reached[d]
  BY DEF ReachesAll
<1>1. DOMAIN Storage.disk = Device /\ IsFiniteSet(Device)
  BY InstallationAssumption DEF InstallationAssumption, Topologies
<1>2. e \in Device
  BY InstallationAssumption DEF InstallationAssumption, Mountable
<1>3. e \in Affected(Storage, d)
  BY <1>1, <1>2, TopAffected DEF Stacked, Share
<1> QED BY <1>3 DEF Reached

(***************************************************************************)
(* Mounts.                                                                 *)
(***************************************************************************)

\* A handler that goes through a filesystem is at a device that can be mounted.
LEMMA Leaf ==
  ASSUME TypeOK, pc \in Handling, Obj.kind \in Mounting
  PROVE  Where \in Mountable
<1>1. pkg \in Package /\ cur \in DOMAIN List[pkg]
  BY AtHand
<1>2. Obj.place \in Place /\ Room[Obj.place] = 0
  BY <1>1, Entries DEF Obj
<1> QED BY <1>2 DEF Mountable, Where

\* What is formatted is mounted afterwards.
LEMMA Formatting ==
  ASSUME TypeOK, Stages, pc = "format"
  PROVE  Where \in Mountable /\ Where \in Device
<1>1. pc \in Handling /\ Obj.format
  BY DEF Stages, Handling
<1>2. pkg \in Package /\ cur \in DOMAIN List[pkg] /\ Where \in Device
  BY <1>1, AtHand
<1>3. Obj.kind \in Mounting
  BY <1>1, <1>2, InstallationAssumption DEF Obj, InstallationAssumption
<1> QED BY <1>1, <1>2, <1>3, Leaf

LEMMA Mounts ==
  ASSUME TypeOK, Stages, MountInv, [Next]_vars
  PROVE  MountInv'
<1>1. Guard \subseteq Mountable
  <2>1. CASE pc \in Handling /\ Obj.kind \in Mounting
    BY <2>1, Leaf DEF Guard
  <2>2. CASE pc \notin Handling \/ Obj.kind \notin Mounting
    BY <2>2 DEF Guard, Handling
  <2> QED BY <2>1, <2>2
<1>2. CASE Begin
  BY <1>2 DEF Begin, Accepted, InUse, MountInv, target, mounts
<1>3. ASSUME UNCHANGED <<pkg, mounts>>, fs' \subseteq Mountable, pc = "idle" => pc' = "idle"
      PROVE  MountInv'
  BY <1>3 DEF MountInv, mounts, InUse
<1>4. CASE Format \/ FormatStops
  <2>1. Where \in Mountable
    BY <1>4, Formatting DEF Format, FormatStops
  <2> QED BY <1>3, <1>4, <2>1 DEF Format, FormatStops, MountInv
<1>5. CASE Open \/ Write
  BY <1>3, <1>5 DEF Open, Write, MountInv
<1>6. CASE Killed \/ PowerLoss
  BY <1>1, <1>6 DEF Killed, PowerLoss, MountInv, target
<1>7. CASE Mount \/ Unmount
  BY <1>7 DEF Mount, Unmount, MountInv, InUse, target
<1>8. CASE \/ Pick \/ Skip \/ Proceed \/ Written \/ SetAttributes \/ Installed
           \/ Leave \/ Refused \/ Fail
  BY <1>3, <1>8 DEF Pick, Skip, Looked, Proceed, Written, SetAttributes, Installed, Leave,
                    Refused, Fail, MountInv, target, Handling
<1>9. CASE UNCHANGED vars
  BY <1>3, <1>9 DEF vars, target, MountInv
<1> QED BY <1>2, <1>4, <1>5, <1>6, <1>7, <1>8, <1>9 DEF Next, Handle

\* A step of a handler spares what is mounted.
LEMMA Sparing ==
  ASSUME TypeOK, Stages, MountInv, ReachesAll, Next
  PROVE  /\ pc = "format" /\ fill' # fill =>
              \A d \in mounted \cup stale \cup Guard : ~ Share(Where, d)
         /\ pc \in {"open", "write"} /\ fill' # fill /\ Obj.kind \notin Mounting =>
              \A d \in stale : ~ Share(Where, d)
<1>1. ASSUME pc = "format", fill' # fill
      PROVE  \A d \in mounted \cup stale \cup Guard : ~ Share(Where, d)
  <2>1. ~ InUse(Where, mounted \cup stale \cup Guard)
    BY <1>1 DEF Next, Handle, Begin, Pick, Skip, Looked, Proceed, Format, FormatStops, Open,
      Write, Written, SetAttributes, Installed, Leave, Refused, Fail, Killed, PowerLoss, Mount,
      Unmount, target
  <2>2. Guard = {}
    BY <1>1 DEF Guard
  <2> QED BY <1>1, <2>1, <2>2, Formatting DEF InUse, MountInv, ReachesAll
<1>2. ASSUME pc \in {"open", "write"}, Obj.kind \notin Mounting
      PROVE  \A d \in stale : ~ Share(Where, d)
  <2>1. pkg \in Package /\ cur \in DOMAIN List[pkg] /\ Where \in Device
    BY <1>2, AtHand DEF Handling
  <2>2. ~ InUse(Where, stale)
    BY <1>2, <2>1 DEF MountInv, Exclusive, Obj, Where
  <2> QED BY <2>1, <2>2 DEF InUse, MountInv, ReachesAll
<1> QED BY <1>1, <1>2

\* However the devices are stacked, nothing mounted is formatted over, and no
\* blocks are written beneath a mount that a killed agent left behind
\* (ensure_not_mounted, format, Access).
THEOREM MountsAreSpared == Stacked /\ Spec => MountsSpared
<1>1. ASSUME Stacked
      PROVE  Spec => MountsSpared
  <2> DEFINE Inv == TypeOK /\ WrittenSoFar /\ Stages /\ TakenFirst /\ MountInv
  <2>1. Init => Inv
    BY Starts DEF Init, InstallInv, MountInv, Mountable
  <2>2. Inv /\ [Next]_vars => Inv'
    BY Typing, Writing, Ordering, Mounts
  <2>3. Inv /\ [Next]_vars =>
          [/\ pc = "format" /\ fill' # fill =>
                \A d \in mounted \cup stale \cup Guard : ~ Share(Where, d)
           /\ pc \in {"open", "write"} /\ fill' # fill /\ Obj.kind \notin Mounting =>
                \A d \in stale : ~ Share(Where, d)]_vars
    BY <1>1, AllReached, Sparing
  <2> HIDE DEF Inv
  <2> QED BY <1>1, <2>1, <2>2, <2>3, PTL DEF Spec, MountsSpared
<1> QED BY <1>1

(***************************************************************************)
(* What EventuallyInstalls rests on.                                       *)
(***************************************************************************)

\* A device that was formatted has a filesystem until the handler takes it up.
FormattedFirst == pc = "open" /\ Obj.format => Where \in fs

LEMMA Forming ==
  ASSUME TypeOK, FormattedFirst, [Next]_vars
  PROVE  FormattedFirst'
<1>1. CASE pc' # "open"
  BY <1>1 DEF FormattedFirst
<1>2. CASE Proceed
  BY <1>2 DEF Proceed, Looked, FormattedFirst, Obj
<1>3. CASE Format
  BY <1>3 DEF Format, FormattedFirst, Obj, Where
<1>4. CASE (Mount \/ Unmount \/ UNCHANGED vars) /\ pc' = "open"
  BY <1>4 DEF Mount, Unmount, vars, target, FormattedFirst, Obj, Where
<1> QED
  BY <1>1, <1>2, <1>3, <1>4
  DEF Next, Handle, Begin, Pick, Skip, Proceed, Format, FormatStops, Open, Write, Written,
      SetAttributes, Installed, Leave, Refused, Fail, Killed, PowerLoss

\* What Ready asks of the device is all that the handlers ask of it, at whatever
\* stage they come to ask.
THEOREM ReadyIsWhatItTakes == Spec => ReadyIsEnough
<1> DEFINE Formed == TypeOK /\ WrittenSoFar /\ FormattedFirst /\ (pc = "format" => Obj.format)
<1>1. Init => Formed
  BY Starts DEF Init, InstallInv, FormattedFirst
<1>2. Formed /\ [Next]_vars => Formed'
  <2> SUFFICES ASSUME Formed, [Next]_vars PROVE Formed'
    OBVIOUS
  <2>1. (pc = "format" => Obj.format)'
    BY DEF Next, Handle, Begin, Pick, Skip, Proceed, Format, FormatStops, Open, Write, Written,
       SetAttributes, Installed, Leave, Refused, Fail, Killed, PowerLoss, Mount, Unmount, vars, Obj
  <2> QED BY <2>1, Typing, Writing, Forming
<1>3. Formed => [Ready => ~ Refused]_vars
  <2> SUFFICES ASSUME Formed, Ready, Refused PROVE FALSE
    OBVIOUS
  <2>1. pc \in Handling
    BY DEF Refused, Handling
  <2>2. cur \in DOMAIN List[pkg] /\ Count(Obj) \in Nat /\ Obj.place \in Place
    BY <2>1, AtHand
  <2>3. /\ Exclusive(Obj) => ~ InUse(Where, mounted \cup stale)
        /\ Obj.kind = "copy" \/ (Obj.kind = "tarball" /\ ~ Obj.format) => Where \in fs
        /\ Obj.kind \notin Mounting => Count(Obj) <= Room[Obj.place]
    BY <2>2 DEF Ready, Accepted, Obj, Where
  <2>4. ~ (pc = "check" /\ Obj.kind = "copy" /\ Where \notin fs)
    BY <2>3
  <2>5. ~ (pc = "open" /\ Obj.kind \in Mounting /\ Where \notin fs)
    BY <2>3 DEF FormattedFirst, Mounting
  <2>6. ~ (pc = "format" /\ InUse(Where, mounted \cup stale \cup Guard))
    BY <2>3 DEF Exclusive, Guard, InUse
  <2>7. ~ (pc = "write" /\ at < Count(Obj) /\ Full)
    <3>1. Room[Obj.place] \in Nat /\ at \in Nat
      BY <2>2, InstallationAssumption DEF TypeOK
    <3> QED BY <2>2, <2>3, <3>1 DEF Full
  <2> QED BY <2>4, <2>5, <2>6, <2>7 DEF Refused
<1> QED BY <1>1, <1>2, <1>3, PTL DEF Spec, ReadyIsEnough

\* An attempt is finite: objects, stages and chunks only ever run out (the loop of
\* Install::handle, and those of the handlers).
THEOREM AttemptsAreFinite == Spec => Progress
<1>1. TypeOK => [Handle =>
       \/ pc' \in {"installed", "idle"}
       \/ left' \subseteq left /\ left' # left
       \/ left' = left /\ Stage' > Stage
       \/ left' = left /\ Stage' = Stage /\ at < at' /\ at' <= Count(Obj)]_vars
  <2> SUFFICES ASSUME TypeOK, Handle
               PROVE  \/ pc' \in {"installed", "idle"}
                      \/ left' \subseteq left /\ left' # left
                      \/ left' = left /\ Stage' > Stage
                      \/ left' = left /\ Stage' = Stage /\ at < at' /\ at' <= Count(Obj)
    OBVIOUS
  <2>1. CASE Pick \/ Proceed \/ Format \/ Open
    BY <2>1 DEF Pick, Proceed, Looked, Format, Open, Stage
  <2>2. CASE Write
    <3>1. at \in Nat /\ Count(Obj) \in Nat
      BY <2>2, AtHand DEF Write, Handling, TypeOK
    <3> QED BY <2>2, <3>1 DEF Write, Stage
  <2>3. CASE Skip \/ Written \/ SetAttributes
    <3>1. cur \in left
      BY <2>3 DEF Skip, Looked, Written, SetAttributes, TypeOK, Handling
    <3> QED BY <2>3, <3>1 DEF Skip, Looked, Written, SetAttributes, Stage
  <2>4. CASE Installed \/ Leave \/ Refused
    BY <2>4 DEF Installed, Leave, Refused
  <2> QED BY <2>1, <2>2, <2>3, <2>4 DEF Handle
<1> QED BY <1>1, TypesKept, PTL DEF Spec, Progress
=============================================================================
