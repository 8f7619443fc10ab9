--------------------------- MODULE MediaLibraryProofs ---------------------------
(***************************************************************************)
(* Proofs about the media library for any number of folders, files and     *)
(* requests: rows keep their files, folders that are deleted take nothing  *)
(* with them, and the folders are a forest of bounded depth as long as no  *)
(* two moves cross.                                                        *)
(***************************************************************************)
EXTENDS MediaLibrary, FiniteSetTheorems, WellFoundedInduction, TLAPS

Size == Cardinality(Folders)

(* What a walk up the parents of a table finds, from f on.                 *)
Walk(table, f, up) ==
  up = [n \in 0 .. Size |->
          IF n = 0 THEN f
          ELSE IF up[n - 1] \in DOMAIN table THEN table[up[n - 1]].parent ELSE Null]

LEMMA SizeIsNat == Size \in Nat
BY FoldersAreFinite, FS_CardinalityType DEF Size

(* A set of numbers has a least one.                                       *)
LEMMA LeastOf ==
  ASSUME NEW S \in SUBSET Nat, S # {}
  PROVE  \E m \in S : \A n \in S : m <= n
<1> DEFINE R == OpToRel(<, Nat)
<1>1. IsWellFoundedOn(R, Nat)
  BY NatLessThanWellFounded
<1>2. \A x, y \in Nat : y < x => <<y, x>> \in R
  BY DEF OpToRel
<1> HIDE DEF R
<1>3. PICK x \in S : \A y \in S : ~ (<<y, x>> \in R)
  BY <1>1, WFMin
<1>4. \A y \in S : x <= y
  <2> TAKE y \in S
  <2>1. x \in Nat /\ y \in Nat /\ ~(<<y, x>> \in R)
    BY <1>3
  <2>2. ~(y < x)
    BY <1>2, <2>1
  <2> QED
    BY <2>1, <2>2
<1> QED
  BY <1>4

(* What holds of 0 and goes from each number to the next holds of all: P   *)
(* is the set of the numbers that have it.                                 *)
LEMMA StepByStep ==
  ASSUME NEW P, NEW last \in Nat, 0 \in P, \A n \in 0 .. last : n > 0 /\ n - 1 \in P => n \in P
  PROVE  \A n \in 0 .. last : n \in P
<1> DEFINE out == {n \in 0 .. last : n \notin P}
<1>1. ASSUME out # {} PROVE FALSE
  <2>1. out \in SUBSET Nat
    OBVIOUS
  <2>2. PICK m \in out : \A n \in out : m <= n
    BY <1>1, <2>1, LeastOf
  <2>3. m \in 0 .. last /\ m \notin P /\ m # 0
    BY <2>2
  <2>4. m > 0 /\ m - 1 \in 0 .. last /\ ~(m <= m - 1)
    BY <2>3
  <2>5. m - 1 \in P
    BY <2>2, <2>4
  <2> QED
    BY <2>3, <2>4, <2>5
<1> QED
  BY <1>1

(* There is a walk from every folder of every table, ...                   *)
LEMMA WalkExists ==
  ASSUME NEW table, NEW f
  PROVE  \E up : Walk(table, f, up)
<1> DEFINE next(x) == IF x \in DOMAIN table THEN table[x].parent ELSE Null
           Goes(k, up) == up = [n \in 0 .. k |-> IF n = 0 THEN f ELSE next(up[n - 1])]
           P == {k \in Nat : \E up : Goes(k, up)}
<1>1. 0 \in P
  <2>1. Goes(0, [n \in 0 .. 0 |-> f])
    OBVIOUS
  <2> QED
    BY <2>1
<1>2. ASSUME NEW k \in 0 .. Size, k > 0, k - 1 \in P PROVE k \in P
  <2>1. k \in Nat
    BY SizeIsNat
  <2>2. PICK up : Goes(k - 1, up)
    BY <1>2
  <2> DEFINE on == [n \in 0 .. k |-> IF n = k THEN next(up[k - 1]) ELSE up[n]]
  <2>3. \A n \in 0 .. k : on[n] = IF n = 0 THEN f ELSE next(on[n - 1])
    <3> HIDE DEF next
    <3> TAKE n \in 0 .. k
    <3>1. CASE n = k
      BY <1>2, <2>1, <3>1
    <3>2. CASE n # k
      <4>1. n \in 0 .. k - 1 /\ n - 1 # k
        BY <2>1, <3>2
      <4>2. on[n] = up[n] /\ (n # 0 => on[n - 1] = up[n - 1])
        BY <2>1, <4>1
      <4>3. up[n] = IF n = 0 THEN f ELSE next(up[n - 1])
        BY <2>2, <4>1
      <4> QED
        BY <4>2, <4>3
    <3> QED
      BY <3>1, <3>2
  <2>4. Goes(k, on)
    <3> HIDE DEF next
    <3> QED
      BY <2>3
  <2> QED
    BY <2>1, <2>4
<1> HIDE DEF P
<1>3. Size \in P
  BY <1>1, <1>2, SizeIsNat, StepByStep
<1> QED
  BY <1>3 DEF P, Walk

(* ... and the code takes it.                                              *)
LEMMA ClimbWalks ==
  ASSUME NEW f
  PROVE  Walk(folders, f, Climb(f)) /\ Walk(folders', f, Climb(f)')
<1>1. Climb(f) = CHOOSE up : Walk(folders, f, up)
  BY DEF Walk, Climb, Size
<1>2. Climb(f)' = CHOOSE up : Walk(folders', f, up)
  BY DEF Walk, Climb, Size
<1>3. \A table : Walk(table, f, CHOOSE up : Walk(table, f, up))
  BY WalkExists, Zenon
<1> QED
  BY <1>1, <1>2, <1>3

-----------------------------------------------------------------------------
(* Tables whose folders have their parents, and whose folders can be       *)
(* ranked, parents below their children: there is no circle.               *)
Rooted(table) ==
  /\ DOMAIN table \subseteq Folders
  /\ \A f \in DOMAIN table : table[f].parent \in DOMAIN table \cup {Null}

Ranked(table, rank) ==
  /\ rank \in [DOMAIN table -> Nat]
  /\ \A f \in DOMAIN table : table[f].parent # Null => rank[table[f].parent] < rank[f]

Forest(table) == \E rank : Ranked(table, rank)

(* How many folders a walk meets.                                          *)
Length(up) == Cardinality({n \in DOMAIN up : up[n] # Null})

LEMMA WalkSteps ==
  ASSUME NEW table, NEW f, NEW up, Walk(table, f, up)
  PROVE  /\ DOMAIN up = 0 .. Size /\ up[0] = f
         /\ \A n \in 0 .. Size : n > 0 =>
              up[n] = IF up[n - 1] \in DOMAIN table THEN table[up[n - 1]].parent ELSE Null
<1> DEFINE next(x) == IF x \in DOMAIN table THEN table[x].parent ELSE Null
<1>1. up = [n \in 0 .. Size |-> IF n = 0 THEN f ELSE next(up[n - 1])]
  BY DEF Walk
<1> HIDE DEF next
<1>2. DOMAIN up = 0 .. Size /\ \A n \in 0 .. Size : up[n] = IF n = 0 THEN f ELSE next(up[n - 1])
  BY <1>1
<1> QED
  BY <1>2, SizeIsNat DEF next

LEMMA WalkStays ==
  ASSUME NEW table, Rooted(table), NEW f \in DOMAIN table \cup {Null}, NEW up, Walk(table, f, up)
  PROVE  \A n \in 0 .. Size : up[n] \in DOMAIN table \cup {Null}
<1> DEFINE P == {n \in Nat : up[n] \in DOMAIN table \cup {Null}}
<1>1. 0 \in P
  BY WalkSteps
<1>2. ASSUME NEW n \in 0 .. Size, n > 0, n - 1 \in P PROVE n \in P
  <2>1. n \in Nat
    BY SizeIsNat
  <2>2. up[n] = IF up[n - 1] \in DOMAIN table THEN table[up[n - 1]].parent ELSE Null
    BY <1>2, WalkSteps
  <2> QED
    BY <1>2, <2>1, <2>2 DEF Rooted
<1> HIDE DEF P
<1>3. \A n \in 0 .. Size : n \in P
  BY <1>1, <1>2, SizeIsNat, StepByStep
<1> QED
  BY <1>3 DEF P

LEMMA WalkFalls ==
  ASSUME NEW table, Rooted(table), NEW rank, Ranked(table, rank),
         NEW f \in DOMAIN table \cup {Null}, NEW up, Walk(table, f, up),
         NEW m \in 0 .. Size
  PROVE  \A n \in 0 .. Size : m < n /\ up[n] # Null =>
           up[m] \in DOMAIN table /\ rank[up[n]] < rank[up[m]]
<1> DEFINE P == {n \in Nat : m < n /\ up[n] # Null =>
                               up[m] \in DOMAIN table /\ rank[up[n]] < rank[up[m]]}
<1>0. m \in Nat
  BY SizeIsNat
<1>1. 0 \in P
  BY <1>0
<1>2. ASSUME NEW n \in 0 .. Size, n > 0, n - 1 \in P PROVE n \in P
  <2>1. n \in Nat /\ n - 1 \in Nat
    BY <1>2, SizeIsNat
  <2>2. SUFFICES ASSUME m < n, up[n] # Null
                 PROVE  up[m] \in DOMAIN table /\ rank[up[n]] < rank[up[m]]
    BY <2>1
  <2>3. up[n - 1] \in DOMAIN table /\ up[n] = table[up[n - 1]].parent
    BY <1>2, <2>2, WalkSteps
  <2>4. up[n] \in DOMAIN table /\ rank[up[n]] < rank[up[n - 1]]
    BY <2>2, <2>3 DEF Ranked, Rooted
  <2>5. CASE m = n - 1
    BY <2>3, <2>4, <2>5
  <2>6. CASE m # n - 1
    <3>1. m < n - 1
      BY <1>0, <2>1, <2>2, <2>6
    <3>2. up[n - 1] # Null
      BY <2>3, NullIsNoFolder DEF Rooted
    <3>3. up[m] \in DOMAIN table /\ rank[up[n - 1]] < rank[up[m]]
      BY <1>2, <3>1, <3>2
    <3>4. rank[up[n]] \in Nat /\ rank[up[n - 1]] \in Nat /\ rank[up[m]] \in Nat
      BY <2>3, <2>4, <3>3 DEF Ranked
    <3> QED
      BY <2>4, <3>3, <3>4
  <2> QED
    BY <2>5, <2>6
<1> HIDE DEF P
<1>3. \A n \in 0 .. Size : n \in P
  BY <1>1, <1>2, SizeIsNat, StepByStep
<1> QED
  BY <1>3 DEF P

(* A walk in a forest meets no folder twice, and so it leaves the forest.  *)
LEMMA WalkLeaves ==
  ASSUME NEW table, Rooted(table), Forest(table),
         NEW f \in DOMAIN table \cup {Null}, NEW up, Walk(table, f, up)
  PROVE  up[Size] = Null
<1> SUFFICES ASSUME up[Size] # Null PROVE FALSE
  OBVIOUS
<1>1. PICK rank : Ranked(table, rank)
  BY DEF Forest
<1>2. \A m, n \in 0 .. Size : m < n /\ up[n] # Null =>
        up[m] \in DOMAIN table /\ rank[up[n]] < rank[up[m]]
  BY <1>1, WalkFalls
<1>3. \A n \in 0 .. Size : up[n] \in DOMAIN table
  <2> TAKE n \in 0 .. Size
  <2>1. n < Size \/ n = Size
    BY SizeIsNat
  <2>2. Size \in 0 .. Size
    BY SizeIsNat
  <2> QED
    BY <1>2, <2>1, <2>2, WalkStays
<1>4. up \in [0 .. Size -> DOMAIN table]
  BY <1>3, WalkSteps DEF Walk
<1>5. IsFiniteSet(DOMAIN table) /\ Cardinality(DOMAIN table) \in Nat
      /\ Cardinality(DOMAIN table) <= Size
  BY FoldersAreFinite, FS_Subset, FS_CardinalityType DEF Rooted, Size
<1>6. IsFiniteSet(0 .. Size) /\ Cardinality(0 .. Size) = Size + 1
  BY SizeIsNat, FS_Interval
<1>7. Cardinality(DOMAIN table) < Cardinality(0 .. Size)
  BY <1>5, <1>6, SizeIsNat
<1>8. PICK x, y \in 0 .. Size : x # y /\ up[x] = up[y]
  BY <1>4, <1>5, <1>6, <1>7, FS_PigeonHole
<1>9. \A x1, y1 \in 0 .. Size : x1 < y1 => up[x1] # up[y1]
  <2> TAKE x1, y1 \in 0 .. Size
  <2>1. up[y1] # Null
    BY <1>3, NullIsNoFolder DEF Rooted
  <2>2. rank[up[x1]] \in Nat
    BY <1>1, <1>3 DEF Ranked
  <2>3. x1 < y1 => rank[up[y1]] < rank[up[x1]]
    BY <1>2, <2>1
  <2> QED
    BY <2>2, <2>3
<1>10. x < y \/ y < x
  BY <1>8, SizeIsNat
<1> QED
  BY <1>8, <1>9, <1>10

(* A walk that ends meets folders first, and then none.                    *)
LEMMA WalkLength ==
  ASSUME NEW table, Rooted(table), NEW f \in DOMAIN table \cup {Null}, NEW up, Walk(table, f, up),
         up[Size] = Null
  PROVE  /\ Length(up) \in 0 .. Size
         /\ \A n \in 0 .. Size : up[n] # Null <=> n < Length(up)
<1> DEFINE ends == {n \in 0 .. Size : up[n] = Null}
<1>1. ends \in SUBSET Nat /\ ends # {}
  BY SizeIsNat
<1>2. PICK k \in ends : \A n \in ends : k <= n
  BY <1>1, LeastOf
<1>3. k \in 0 .. Size /\ k \in Nat
  BY <1>1, <1>2
<1>4. \A n \in 0 .. Size : k <= n => up[n] = Null
  <2> DEFINE P == {n \in Nat : k <= n => up[n] = Null}
  <2>1. 0 \in P
    BY <1>2, <1>3
  <2>2. ASSUME NEW n \in 0 .. Size, n > 0, n - 1 \in P PROVE n \in P
    <3>1. n \in Nat /\ n - 1 \in Nat
      BY <2>2, SizeIsNat
    <3>2. CASE k = n
      BY <1>2, <3>1, <3>2
    <3>3. CASE k # n
      <4>1. k <= n => up[n - 1] = Null
        BY <1>3, <2>2, <3>1, <3>3
      <4>2. Null \notin DOMAIN table
        BY NullIsNoFolder DEF Rooted
      <4>3. k <= n => up[n] = Null
        BY <2>2, <4>1, <4>2, WalkSteps
      <4> QED
        BY <3>1, <4>3
    <3> QED
      BY <3>2, <3>3
  <2> HIDE DEF P
  <2>3. \A n \in 0 .. Size : n \in P
    BY <2>1, <2>2, SizeIsNat, StepByStep
  <2> QED
    BY <2>3 DEF P
<1>5. \A n \in 0 .. Size : up[n] # Null <=> n < k
  <2> TAKE n \in 0 .. Size
  <2>1. n \in Nat
    BY SizeIsNat
  <2>2. n < k => n \notin ends
    BY <1>2, <1>3, <2>1
  <2> QED
    BY <1>3, <1>4, <2>1, <2>2
<1>6. {n \in DOMAIN up : up[n] # Null} = 0 .. k - 1
  <2>1. DOMAIN up = 0 .. Size
    BY WalkSteps
  <2>2. \A n : n \in 0 .. k - 1 <=> n \in 0 .. Size /\ n < k
    BY <1>3, SizeIsNat
  <2> QED
    BY <1>5, <2>1, <2>2
<1>7. Cardinality(0 .. k - 1) = k
  <2>1. Cardinality(0 .. k - 1) = IF 0 > k - 1 THEN 0 ELSE (k - 1) - 0 + 1
    BY <1>3, FS_Interval
  <2> QED
    BY <1>3, <2>1
<1> QED
  BY <1>3, <1>5, <1>6, <1>7 DEF Length

(* Walks go on from a parent as they do from its child, and two tables     *)
(* that agree on what one walk meets are walked alike.                     *)
LEMMA WalkFromParent ==
  ASSUME NEW table, NEW f \in DOMAIN table, NEW up, Walk(table, f, up),
         NEW on, Walk(table, table[f].parent, on)
  PROVE  \A n \in 0 .. Size : n > 0 => up[n] = on[n - 1]
<1> DEFINE P == {n \in Nat : n > 0 => up[n] = on[n - 1]}
<1>1. 0 \in P
  OBVIOUS
<1>2. ASSUME NEW n \in 0 .. Size, n > 0, n - 1 \in P PROVE n \in P
  <2>1. n \in Nat /\ n - 1 \in 0 .. Size
    BY <1>2, SizeIsNat
  <2>2. up[n] = IF up[n - 1] \in DOMAIN table THEN table[up[n - 1]].parent ELSE Null
    BY <1>2, WalkSteps
  <2>3. CASE n = 1
    BY <2>1, <2>2, <2>3, WalkSteps
  <2>4. CASE n # 1
    <3>1. n - 1 > 0 /\ (n - 1) - 1 = n - 2
      BY <1>2, <2>1, <2>4
    <3>2. on[n - 1] = IF on[n - 2] \in DOMAIN table THEN table[on[n - 2]].parent ELSE Null
      BY <2>1, <3>1, WalkSteps
    <3>3. up[n - 1] = on[n - 2]
      BY <1>2, <3>1
    <3> QED
      BY <2>1, <2>2, <3>2, <3>3
  <2> QED
    BY <2>3, <2>4
<1> HIDE DEF P
<1>3. \A n \in 0 .. Size : n \in P
  BY <1>1, <1>2, SizeIsNat, StepByStep
<1> QED
  BY <1>3 DEF P

LEMMA SameWalk ==
  ASSUME NEW old, NEW new, NEW f, NEW up, Walk(old, f, up), NEW on, Walk(new, f, on),
         \A n \in 0 .. Size : up[n] \in DOMAIN old =>
           up[n] \in DOMAIN new /\ new[up[n]].parent = old[up[n]].parent,
         \A n \in 0 .. Size : up[n] \notin DOMAIN old => up[n] \notin DOMAIN new
  PROVE  on = up
<1> DEFINE P == {n \in Nat : on[n] = up[n]}
<1>1. 0 \in P
  BY WalkSteps
<1>2. ASSUME NEW n \in 0 .. Size, n > 0, n - 1 \in P PROVE n \in P
  <2>1. n \in Nat /\ n - 1 \in 0 .. Size
    BY <1>2, SizeIsNat
  <2>2. up[n] = IF up[n - 1] \in DOMAIN old THEN old[up[n - 1]].parent ELSE Null
    BY <1>2, WalkSteps
  <2>3. on[n] = IF on[n - 1] \in DOMAIN new THEN new[on[n - 1]].parent ELSE Null
    BY <1>2, WalkSteps
  <2> QED
    BY <1>2, <2>1, <2>2, <2>3
<1> HIDE DEF P
<1>3. \A n \in 0 .. Size : n \in P
  BY <1>1, <1>2, SizeIsNat, StepByStep
<1>4. /\ up = [n \in 0 .. Size |-> up[n]]
      /\ on = [n \in 0 .. Size |-> on[n]]
  BY DEF Walk
<1> QED
  BY <1>3, <1>4 DEF P

-----------------------------------------------------------------------------
(* Requests.                                                               *)
JobsOK ==
  /\ job = [j \in Jobs |-> job[j]]
  /\ \A j \in Jobs : DOMAIN job[j] = DOMAIN Idle

(* The places of a request that the invariants below speak of, and steps   *)
(* after which no request has newly come to one.                           *)
Watched == {"creating", "moving", "recording", "emptying", "removing"}

Quiet == \A j \in Jobs : job'[j] = job[j] \/ job'[j].at \notin Watched

LEMMA IdleFields ==
  /\ DOMAIN Idle = {"at", "id", "to", "slug", "chain", "next", "raced", "late"}
  /\ Idle.at = "idle" /\ Idle.late = {} /\ Idle.raced = FALSE
BY DEF Idle

LEMMA JobWritten ==
  ASSUME JobsOK, NEW j \in Jobs, NEW w, DOMAIN w = DOMAIN Idle, job' = [job EXCEPT ![j] = w]
  PROVE  JobsOK' /\ job'[j] = w /\ \A i \in Jobs : i # j => job'[i] = job[i]
<1>1. DOMAIN job = Jobs
  BY DEF JobsOK
<1>2. \A i \in Jobs : job'[i] = IF i = j THEN w ELSE job[i]
  BY <1>1
<1>3. job' = [i \in Jobs |-> job'[i]]
  BY <1>1, <1>2
<1> QED
  BY <1>2, <1>3 DEF JobsOK

LEMMA FinishIsQuiet ==
  ASSUME JobsOK, NEW j \in Jobs, Finish(j)
  PROVE  JobsOK' /\ Quiet
<1>1. JobsOK' /\ job'[j] = Idle /\ \A i \in Jobs : i # j => job'[i] = job[i]
  BY JobWritten DEF Finish
<1> QED
  BY <1>1, IdleFields DEF Quiet, Watched

LEMMA AdvanceSteps ==
  ASSUME JobsOK, NEW j \in Jobs, NEW place, Advance(j, place)
  PROVE  /\ JobsOK' /\ \A i \in Jobs : i # j => job'[i] = job[i]
         /\ job'[j].at = place /\ job'[j].id = job[j].id /\ job'[j].late = job[j].late
<1> DEFINE w == [job[j] EXCEPT !.at = place]
<1>1. DOMAIN job[j] = {"at", "id", "to", "slug", "chain", "next", "raced", "late"}
  BY IdleFields DEF JobsOK
<1>2. /\ DOMAIN w = DOMAIN Idle /\ w.at = place /\ w.id = job[j].id /\ w.late = job[j].late
  BY <1>1, IdleFields
<1>3. job' = [job EXCEPT ![j] = w]
  BY DEF Advance
<1> HIDE DEF w
<1> QED
  BY <1>2, <1>3, JobWritten

LEMMA FollowIsQuiet ==
  ASSUME JobsOK, NEW j \in Jobs, NEW next, Follow(j, next)
  PROVE  JobsOK' /\ Quiet
<1> DEFINE w == [Idle EXCEPT !.at = "shifting", !.chain = job[j].chain, !.next = next]
<1>1. DOMAIN w = DOMAIN Idle /\ w.at = "shifting"
  BY IdleFields
<1>2. job' = [job EXCEPT ![j] = w]
  BY DEF Follow
<1> HIDE DEF w
<1>3. JobsOK' /\ job'[j] = w /\ \A i \in Jobs : i # j => job'[i] = job[i]
  BY <1>1, <1>2, JobWritten
<1> QED
  BY <1>1, <1>3 DEF Quiet, Watched

LEMMA QuietSteps ==
  ASSUME JobsOK, NEW j \in Jobs,
         \/ \E f, s : StartRename(j, f, s)
         \/ \E f : StartUpload(j, f)
         \/ \E m, f : StartRefile(j, m, f)
         \/ \E m : StartPurge(j, m) \/ Trash(m)
         \/ \E cms : WriteFolder(j, cms)
         \/ WriteName(j) \/ ReadChain(j) \/ MoveFile(j) \/ Unlink(j) \/ DropRow(j)
         \/ RemoveFolder(j) \/ ShiftDirectory(j) \/ UpdatePathPrefix(j) \/ Fail(j)
  PROVE  JobsOK' /\ Quiet
<1>1. ASSUME NEW w, DOMAIN w = DOMAIN Idle, w.at \notin Watched, job' = [job EXCEPT ![j] = w]
      PROVE  JobsOK' /\ Quiet
  BY <1>1, JobWritten DEF Quiet
<1>2. ASSUME NEW f, NEW s, StartRename(j, f, s) PROVE JobsOK' /\ Quiet
  <2> DEFINE w == [Idle EXCEPT !.at = "renaming", !.id = f, !.slug = s, !.chain = Chain(f)]
  <2>1. DOMAIN w = DOMAIN Idle /\ w.at \notin Watched
    BY IdleFields DEF Watched
  <2> QED
    BY <1>1, <1>2, <2>1 DEF StartRename, Start
<1>3. ASSUME NEW f, StartUpload(j, f) PROVE JobsOK' /\ Quiet
  <2> DEFINE w == [Idle EXCEPT !.at = "saving", !.to = f,
                               !.chain = IF f = Null THEN <<General>> ELSE Chain(f)]
  <2>1. DOMAIN w = DOMAIN Idle /\ w.at \notin Watched
    BY IdleFields DEF Watched
  <2> QED
    BY <1>1, <1>3, <2>1 DEF StartUpload, Start
<1>4. ASSUME NEW m, NEW f, StartRefile(j, m, f) PROVE JobsOK' /\ Quiet
  <2> DEFINE w == [Idle EXCEPT !.at = "refiling", !.id = m, !.to = f,
                               !.chain = IF f = Null THEN <<General>> ELSE Chain(f)]
  <2>1. DOMAIN w = DOMAIN Idle /\ w.at \notin Watched
    BY IdleFields DEF Watched
  <2> QED
    BY <1>1, <1>4, <2>1 DEF StartRefile, Start
<1>5. ASSUME NEW m, StartPurge(j, m) PROVE JobsOK' /\ Quiet
  <2> DEFINE w == [Idle EXCEPT !.at = "unlinking", !.id = m, !.chain = rows[m].path]
  <2>1. DOMAIN w = DOMAIN Idle /\ w.at \notin Watched
    BY IdleFields DEF Watched
  <2> QED
    BY <1>1, <1>5, <2>1 DEF StartPurge, Start
<1>6. CASE \E m : Trash(m)
  BY <1>6 DEF Trash, JobsOK, Quiet
<1>7. CASE \/ \E cms : WriteFolder(j, cms)
           \/ DropRow(j) \/ RemoveFolder(j) \/ UpdatePathPrefix(j) \/ Fail(j)
  BY <1>7, FinishIsQuiet DEF WriteFolder, DropRow, RemoveFolder, UpdatePathPrefix, Fail
<1>8. CASE WriteName(j) \/ ReadChain(j)
  BY <1>8, FinishIsQuiet, FollowIsQuiet DEF WriteName, ReadChain
<1>9. CASE MoveFile(j) \/ ShiftDirectory(j)
  BY <1>9, AdvanceSteps DEF MoveFile, ShiftDirectory, Quiet, Watched
<1>10. CASE Unlink(j)
  <2> DEFINE w == [job[j] EXCEPT !.at = "purging", !.chain = << >>]
  <2>1. DOMAIN w = DOMAIN Idle /\ w.at \notin Watched
    BY IdleFields DEF Watched, JobsOK
  <2>2. job' = [job EXCEPT ![j] = w]
    BY <1>10 DEF Unlink
  <2> HIDE DEF w
  <2> QED
    BY <1>1, <2>1, <2>2
<1> QED
  BY <1>2, <1>3, <1>4, <1>5, <1>6, <1>7, <1>8, <1>9, <1>10

(* Steps after which a request has come to such a place, or that others    *)
(* hear of.                                                                *)
LEMMA ArrivesSteps ==
  ASSUME NEW jobs, \A i \in Jobs : DOMAIN jobs[i] = DOMAIN Idle,
         NEW m, NEW f, job' = Arrives(jobs, m, f)
  PROVE  /\ JobsOK'
         /\ \A i \in Jobs :
              /\ job'[i].at = jobs[i].at /\ job'[i].id = jobs[i].id /\ job'[i].to = jobs[i].to
              /\ job'[i].raced = jobs[i].raced /\ jobs[i].late \subseteq job'[i].late
              /\ f # Null /\ jobs[i].id = f /\ jobs[i].at \in {"emptying", "removing"} =>
                   m \in job'[i].late
<1> DEFINE told(w) == [w EXCEPT !.late = @ \cup {m}]
           hears(i) == f # Null /\ jobs[i].id = f /\ jobs[i].at \in {"emptying", "removing"}
<1>1. ASSUME NEW i \in Jobs
      PROVE  /\ DOMAIN told(jobs[i]) = DOMAIN Idle
             /\ told(jobs[i]).at = jobs[i].at /\ told(jobs[i]).id = jobs[i].id
             /\ told(jobs[i]).to = jobs[i].to /\ told(jobs[i]).raced = jobs[i].raced
             /\ told(jobs[i]).late = jobs[i].late \cup {m}
  <2>1. DOMAIN jobs[i] = {"at", "id", "to", "slug", "chain", "next", "raced", "late"}
    BY IdleFields
  <2> QED
    BY <2>1, IdleFields
<1>2. job' = [i \in Jobs |-> IF hears(i) THEN told(jobs[i]) ELSE jobs[i]]
  BY DEF Arrives
<1> HIDE DEF told
<1>3. \A i \in Jobs : job'[i] = IF hears(i) THEN told(jobs[i]) ELSE jobs[i]
  BY <1>2
<1>4. job' = [i \in Jobs |-> job'[i]]
  BY <1>2, <1>3
<1> QED
  BY <1>1, <1>3, <1>4 DEF JobsOK

(* A request that a file coming to f makes a difference to.                *)
Hears(i, f) == f # Null /\ job[i].id = f /\ job[i].at \in {"emptying", "removing"}

LEMMA RestoreTells ==
  ASSUME JobsOK, NEW m, NEW f, job' = Arrives(job, m, f)
  PROVE  /\ JobsOK'
         /\ \A i \in Jobs :
              /\ job'[i].at = job[i].at /\ job'[i].id = job[i].id /\ job'[i].to = job[i].to
              /\ job'[i].raced = job[i].raced /\ job[i].late \subseteq job'[i].late
              /\ Hears(i, f) => m \in job'[i].late
BY ArrivesSteps DEF JobsOK, Hears

LEMMA FinishTells ==
  ASSUME JobsOK, NEW j \in Jobs, NEW m, NEW f, job' = Arrives([job EXCEPT ![j] = Idle], m, f)
  PROVE  /\ JobsOK' /\ job'[j].at = "idle"
         /\ \A i \in Jobs : i # j =>
              /\ job'[i].at = job[i].at /\ job'[i].id = job[i].id /\ job'[i].to = job[i].to
              /\ job'[i].raced = job[i].raced /\ job[i].late \subseteq job'[i].late
              /\ Hears(i, f) => m \in job'[i].late
<1> SUFFICES ASSUME NEW jobs, jobs = [job EXCEPT ![j] = Idle], job' = Arrives(jobs, m, f)
             PROVE  /\ JobsOK' /\ job'[j].at = "idle"
                    /\ \A i \in Jobs : i # j =>
                         /\ job'[i].at = job[i].at /\ job'[i].id = job[i].id
                         /\ job'[i].to = job[i].to /\ job'[i].raced = job[i].raced
                         /\ job[i].late \subseteq job'[i].late
                         /\ Hears(i, f) => m \in job'[i].late
  OBVIOUS
<1>1. DOMAIN job = Jobs
  BY DEF JobsOK
<1>2. \A i \in Jobs : jobs[i] = IF i = j THEN Idle ELSE job[i]
  BY <1>1
<1>3. \A i \in Jobs : DOMAIN jobs[i] = DOMAIN Idle
  BY <1>2 DEF JobsOK
<1>4. /\ JobsOK'
      /\ \A i \in Jobs :
           /\ job'[i].at = jobs[i].at /\ job'[i].id = jobs[i].id /\ job'[i].to = jobs[i].to
           /\ job'[i].raced = jobs[i].raced /\ jobs[i].late \subseteq job'[i].late
           /\ f # Null /\ jobs[i].id = f /\ jobs[i].at \in {"emptying", "removing"} =>
                m \in job'[i].late
  BY <1>3, ArrivesSteps DEF JobsOK
<1>5. jobs[j] = Idle /\ \A i \in Jobs : i # j => jobs[i] = job[i]
  BY <1>2
<1>6. job'[j].at = "idle"
  BY <1>4, <1>5, IdleFields
<1>7. ASSUME NEW i \in Jobs, i # j
      PROVE  /\ job'[i].at = job[i].at /\ job'[i].id = job[i].id
             /\ job'[i].to = job[i].to /\ job'[i].raced = job[i].raced
             /\ job[i].late \subseteq job'[i].late
             /\ Hears(i, f) => m \in job'[i].late
  <2>1. jobs[i] = job[i]
    BY <1>5, <1>7
  <2>2. /\ job'[i].at = jobs[i].at /\ job'[i].id = jobs[i].id /\ job'[i].to = jobs[i].to
        /\ job'[i].raced = jobs[i].raced /\ jobs[i].late \subseteq job'[i].late
        /\ f # Null /\ jobs[i].id = f /\ jobs[i].at \in {"emptying", "removing"} =>
             m \in job'[i].late
    BY <1>4
  <2> QED
    BY <2>1, <2>2 DEF Hears
<1> QED
  BY <1>4, <1>6, <1>7

LEMMA StartCreateSteps ==
  ASSUME JobsOK, NEW j \in Jobs, NEW s, NEW p, StartCreate(j, s, p)
  PROVE  /\ JobsOK' /\ \A i \in Jobs : i # j => job'[i] = job[i]
         /\ job'[j].at = "creating" /\ job'[j].to = p /\ ~job'[j].raced
<1> DEFINE w == [Idle EXCEPT !.at = "creating", !.slug = s, !.to = p]
<1>1. DOMAIN w = DOMAIN Idle /\ w.at = "creating" /\ w.to = p /\ ~w.raced
  BY IdleFields
<1>2. job' = [job EXCEPT ![j] = w]
  BY DEF StartCreate, Start
<1> HIDE DEF w
<1> QED
  BY <1>1, <1>2, JobWritten

LEMMA StartMoveSteps ==
  ASSUME JobsOK, NEW j \in Jobs, NEW f, NEW p, StartMove(j, f, p)
  PROVE  /\ JobsOK' /\ \A i \in Jobs : i # j => job'[i] = job[i]
         /\ job'[j].at = "moving" /\ job'[j].id = f /\ job'[j].to = p /\ ~job'[j].raced
<1> DEFINE w == [Idle EXCEPT !.at = "moving", !.id = f, !.to = p, !.chain = Chain(f)]
<1>1. DOMAIN w = DOMAIN Idle /\ w.at = "moving" /\ w.id = f /\ w.to = p /\ ~w.raced
  BY IdleFields
<1>2. job' = [job EXCEPT ![j] = w]
  BY DEF StartMove, Start
<1> HIDE DEF w
<1> QED
  BY <1>1, <1>2, JobWritten

LEMMA StartDeleteSteps ==
  ASSUME JobsOK, NEW j \in Jobs, NEW f, StartDelete(j, f)
  PROVE  /\ JobsOK' /\ \A i \in Jobs : i # j => job'[i] = job[i]
         /\ job'[j].at = "emptying" /\ job'[j].id = f
<1> DEFINE w == [Idle EXCEPT !.at = "emptying", !.id = f]
<1>1. DOMAIN w = DOMAIN Idle /\ w.at = "emptying" /\ w.id = f
  BY IdleFields
<1>2. job' = [job EXCEPT ![j] = w]
  BY DEF StartDelete, Start
<1> HIDE DEF w
<1> QED
  BY <1>1, <1>2, JobWritten

LEMMA SaveFileSteps ==
  ASSUME JobsOK, NEW j \in Jobs, SaveFile(j)
  PROVE  /\ JobsOK' /\ \A i \in Jobs : i # j => job'[i] = job[i]
         /\ job'[j].at = "recording" /\ job'[j].id = NewFile
<1> DEFINE new == NewFile
           w == [job[j] EXCEPT !.at = "recording", !.id = new]
<1>1. job' = [job EXCEPT ![j] = w]
  BY DEF SaveFile
<1>2. DOMAIN job[j] = {"at", "id", "to", "slug", "chain", "next", "raced", "late"}
  BY IdleFields DEF JobsOK
<1> HIDE DEF new
<1>3. DOMAIN w = DOMAIN Idle /\ w.at = "recording" /\ w.id = new
  BY <1>2, IdleFields
<1> HIDE DEF w
<1>4. /\ JobsOK' /\ \A i \in Jobs : i # j => job'[i] = job[i]
      /\ job'[j].at = "recording" /\ job'[j].id = new
  BY <1>1, <1>3, JobWritten
<1> QED
  BY <1>4 DEF new

LEMMA WriteParentSteps ==
  ASSUME JobsOK, NEW j \in Jobs, WriteParent(j)
  PROVE  /\ JobsOK' /\ job'[j].at = "moved"
         /\ \A i \in Jobs : i # j =>
              /\ job'[i].at = job[i].at /\ job'[i].id = job[i].id /\ job'[i].to = job[i].to
              /\ job'[i].late = job[i].late /\ (job[i].raced => job'[i].raced)
              /\ job[i].at \in {"moving", "creating"} => job'[i].raced
<1> DEFINE moved == [job[j] EXCEPT !.at = "moved", !.to = Null, !.raced = FALSE]
           told(w) == [w EXCEPT !.raced = @ \/ w.at \in {"moving", "creating"}]
<1>1. ASSUME NEW i \in Jobs
      PROVE  /\ DOMAIN told(job[i]) = DOMAIN Idle
             /\ told(job[i]).at = job[i].at /\ told(job[i]).id = job[i].id
             /\ told(job[i]).to = job[i].to /\ told(job[i]).late = job[i].late
             /\ (job[i].raced => told(job[i]).raced)
             /\ job[i].at \in {"moving", "creating"} => told(job[i]).raced
  <2>1. DOMAIN job[i] = {"at", "id", "to", "slug", "chain", "next", "raced", "late"}
    BY IdleFields DEF JobsOK
  <2> QED
    BY <2>1, IdleFields
<1>2. DOMAIN moved = DOMAIN Idle /\ moved.at = "moved"
  <2>1. DOMAIN job[j] = {"at", "id", "to", "slug", "chain", "next", "raced", "late"}
    BY IdleFields DEF JobsOK
  <2> QED
    BY <2>1, IdleFields
<1>3. job' = [i \in Jobs |-> IF i = j THEN moved ELSE told(job[i])]
  BY DEF WriteParent
<1> HIDE DEF moved, told
<1>4. \A i \in Jobs : job'[i] = IF i = j THEN moved ELSE told(job[i])
  BY <1>3
<1>5. job' = [i \in Jobs |-> job'[i]]
  BY <1>3, <1>4
<1> QED
  BY <1>1, <1>2, <1>4, <1>5 DEF JobsOK

(* A request that a step leaves where it stands: others may tell it that a *)
(* move has overtaken it, or of latecomers.                                *)
Kept(i) ==
  /\ job'[i].at = job[i].at /\ job'[i].id = job[i].id /\ job'[i].to = job[i].to
  /\ (job[i].raced => job'[i].raced) /\ job[i].late \subseteq job'[i].late

Comes(i) ==
  \/ /\ \E s, p : StartCreate(i, s, p) /\ job'[i].to = p
     /\ job'[i].at = "creating" /\ ~job'[i].raced
  \/ /\ \E f, p : StartMove(i, f, p) /\ job'[i].id = f /\ job'[i].to = p
     /\ job'[i].at = "moving" /\ ~job'[i].raced
  \/ (\E f : StartDelete(i, f) /\ job'[i].id = f) /\ job'[i].at = "emptying"
  \/ SaveFile(i) /\ job'[i].at = "recording" /\ job'[i].id = NewFile
  \/ /\ ClearFiles(i) /\ job'[i].at = "removing"
     /\ job'[i].id = job[i].id /\ job'[i].late = job[i].late

JobSteps == \A i \in Jobs : Kept(i) \/ Comes(i) \/ job'[i].at \notin Watched

LEMMA EveryJobSteps ==
  ASSUME JobsOK, MediaNext
  PROVE  JobsOK' /\ JobSteps
<1>0. PICK j \in Jobs : FolderRoutes(j) \/ MediaRoutes(j) \/ Proceed(j) \/ Fail(j)
  BY DEF MediaNext
<1>1. ASSUME \A i \in Jobs : i # j => job'[i] = job[i] PROVE \A i \in Jobs : i # j => Kept(i)
  BY <1>1 DEF Kept
<1>2. ASSUME JobsOK' /\ Quiet PROVE JobsOK' /\ JobSteps
  BY <1>2 DEF Quiet, JobSteps, Kept
<1>3. ASSUME NEW s, NEW p, StartCreate(j, s, p) PROVE JobsOK' /\ JobSteps
  <2>1. /\ JobsOK' /\ \A i \in Jobs : i # j => job'[i] = job[i]
        /\ job'[j].at = "creating" /\ job'[j].to = p /\ ~job'[j].raced
    BY <1>3, StartCreateSteps
  <2>2. Comes(j)
    BY <1>3, <2>1 DEF Comes
  <2> QED
    BY <1>1, <2>1, <2>2 DEF JobSteps
<1>4. ASSUME NEW f, NEW p, StartMove(j, f, p) PROVE JobsOK' /\ JobSteps
  <2>1. /\ JobsOK' /\ \A i \in Jobs : i # j => job'[i] = job[i]
        /\ job'[j].at = "moving" /\ job'[j].id = f /\ job'[j].to = p /\ ~job'[j].raced
    BY <1>4, StartMoveSteps
  <2>2. Comes(j)
    BY <1>4, <2>1 DEF Comes
  <2> QED
    BY <1>1, <2>1, <2>2 DEF JobSteps
<1>5. ASSUME NEW f, StartDelete(j, f) PROVE JobsOK' /\ JobSteps
  <2>1. /\ JobsOK' /\ \A i \in Jobs : i # j => job'[i] = job[i]
        /\ job'[j].at = "emptying" /\ job'[j].id = f
    BY <1>5, StartDeleteSteps
  <2>2. Comes(j)
    BY <1>5, <2>1 DEF Comes
  <2> QED
    BY <1>1, <2>1, <2>2 DEF JobSteps
<1>6. CASE FolderRoutes(j)
  <2>1. CASE \E f \in Folders, s \in Slugs : StartRename(j, f, s) /\ UNCHANGED fileVars
    BY <1>2, <2>1, QuietSteps
  <2> QED
    BY <1>3, <1>4, <1>5, <1>6, <2>1 DEF FolderRoutes
<1>7. CASE MediaRoutes(j)
  <2>1. CASE \E m \in Files : Restore(m)
    <3>1. PICK m \in Files : Restore(m)
      BY <2>1
    <3> DEFINE f == rows[m].folder
    <3>2. job' = Arrives(job, m, f)
      BY <3>1 DEF Restore
    <3> HIDE DEF f
    <3>3. /\ JobsOK'
          /\ \A i \in Jobs :
               /\ job'[i].at = job[i].at /\ job'[i].id = job[i].id /\ job'[i].to = job[i].to
               /\ job'[i].raced = job[i].raced /\ job[i].late \subseteq job'[i].late
      BY <3>2, RestoreTells
    <3> QED
      BY <3>3 DEF JobSteps, Kept
  <2>2. CASE \/ \E f \in Folders \cup {Null} : StartUpload(j, f)
             \/ \E m \in Files, f \in Folders \cup {Null} : StartRefile(j, m, f)
             \/ \E m \in Files : Trash(m) \/ StartPurge(j, m)
    BY <1>2, <2>2, QuietSteps
  <2> QED
    BY <1>7, <2>1, <2>2 DEF MediaRoutes
<1>8. ASSUME NEW m, NEW f, job' = Arrives([job EXCEPT ![j] = Idle], m, f)
      PROVE  JobsOK' /\ JobSteps
  <2>1. /\ JobsOK' /\ job'[j].at = "idle"
        /\ \A i \in Jobs : i # j =>
             /\ job'[i].at = job[i].at /\ job'[i].id = job[i].id /\ job'[i].to = job[i].to
             /\ job'[i].raced = job[i].raced /\ job[i].late \subseteq job'[i].late
    BY <1>8, FinishTells
  <2> QED
    BY <2>1 DEF JobSteps, Kept, Watched
<1>9. CASE RecordUpload(j)
  <2> DEFINE m == job[j].id  f == job[j].to
  <2>1. job' = Arrives([job EXCEPT ![j] = Idle], m, f)
    BY <1>9 DEF RecordUpload
  <2> HIDE DEF m, f
  <2> QED
    BY <1>8, <2>1
<1>10. CASE RepointRow(j)
  <2>1. CASE rows[job[j].id].trashed
    <3>1. Finish(j)
      BY <1>10, <2>1 DEF RepointRow, Finish
    <3> QED
      BY <1>2, <3>1, FinishIsQuiet
  <2>2. CASE ~rows[job[j].id].trashed
    <3> DEFINE m == job[j].id  f == job[j].to
    <3>1. job' = Arrives([job EXCEPT ![j] = Idle], m, f)
      BY <1>10, <2>2 DEF RepointRow
    <3> HIDE DEF m, f
    <3> QED
      BY <1>8, <3>1
  <2> QED
    BY <2>1, <2>2
<1>11. CASE WriteParent(j)
  <2>1. /\ JobsOK' /\ job'[j].at = "moved"
        /\ \A i \in Jobs : i # j =>
             /\ job'[i].at = job[i].at /\ job'[i].id = job[i].id /\ job'[i].to = job[i].to
             /\ job'[i].late = job[i].late /\ (job[i].raced => job'[i].raced)
    BY <1>11, WriteParentSteps
  <2> QED
    BY <2>1 DEF JobSteps, Kept, Watched
<1>12. CASE SaveFile(j)
  <2>1. /\ JobsOK' /\ \A i \in Jobs : i # j => job'[i] = job[i]
        /\ job'[j].at = "recording" /\ job'[j].id = NewFile
    BY <1>12, SaveFileSteps
  <2>2. Comes(j)
    BY <1>12, <2>1 DEF Comes
  <2> QED
    BY <1>1, <2>1, <2>2 DEF JobSteps
<1>13. CASE ClearFiles(j)
  <2>1. /\ JobsOK' /\ \A i \in Jobs : i # j => job'[i] = job[i]
        /\ job'[j].at = "removing" /\ job'[j].id = job[j].id /\ job'[j].late = job[j].late
    <3>1. Advance(j, "removing")
      BY <1>13 DEF ClearFiles
    <3> QED
      BY <3>1, AdvanceSteps
  <2>2. Comes(j)
    BY <1>13, <2>1 DEF Comes
  <2> QED
    BY <1>1, <2>1, <2>2 DEF JobSteps
<1>14. CASE \/ \E cms \in Scopes : WriteFolder(j, cms) /\ UNCHANGED fileVars
            \/ WriteName(j) \/ ReadChain(j) \/ MoveFile(j) \/ Unlink(j) \/ DropRow(j)
            \/ RemoveFolder(j) \/ ShiftDirectory(j) \/ UpdatePathPrefix(j) \/ Fail(j)
  BY <1>2, <1>14, QuietSteps
<1>15. Proceed(j) => \/ RecordUpload(j) \/ RepointRow(j) \/ WriteParent(j) \/ SaveFile(j)
                     \/ ClearFiles(j)
                     \/ \E cms \in Scopes : WriteFolder(j, cms) /\ UNCHANGED fileVars
                     \/ WriteName(j) \/ ReadChain(j) \/ MoveFile(j) \/ Unlink(j) \/ DropRow(j)
                     \/ RemoveFolder(j) \/ ShiftDirectory(j) \/ UpdatePathPrefix(j)
  BY DEF Proceed
<1> QED
  BY <1>0, <1>6, <1>7, <1>9, <1>10, <1>11, <1>12, <1>13, <1>14, <1>15

-----------------------------------------------------------------------------
(* Rows keep their files: every id given out has its file or has had it    *)
(* unlinked, and an upload records the id that it has been given.          *)
FilesInv ==
  /\ DOMAIN rows \subseteq bornFiles /\ bornFiles \subseteq Files
  /\ bornFiles \subseteq DOMAIN disk \cup purged
  /\ \A j \in Jobs : job[j].at = "recording" => job[j].id \in bornFiles

(* The tree as a table.                                                    *)
TableOK ==
  /\ Rooted(folders) /\ DOMAIN folders \subseteq bornFolders /\ bornFolders \subseteq Folders
  /\ \A f \in DOMAIN folders : DOMAIN folders[f] = {"slug", "parent", "cms"}

RowsOK == \A m \in DOMAIN rows : DOMAIN rows[m] = {"path", "folder", "trashed"}

(* A folder that is being emptied holds latecomers only.                   *)
LateInv ==
  \A j \in Jobs : job[j].at \in {"emptying", "removing"} =>
    job[j].id \in Folders /\ HoldsLive(job[j].id) \subseteq job[j].late

(* What a checked move that nothing has overtaken still knows: the folder  *)
(* it moves is in a part of the tree, closed downwards, that its target is *)
(* not in.                                                                 *)
Closed(table, part) == \A x \in DOMAIN table : table[x].parent \in part => x \in part

Apart(table, f, p) ==
  \E part \in SUBSET DOMAIN table : f \in part /\ p \notin part /\ Closed(table, part)

Pending(j, place) == job[j].at = place /\ ~job[j].raced /\ job[j].to \in DOMAIN folders

MovesKnow ==
  \A j \in Jobs :
    Pending(j, "moving") /\ job[j].id \in DOMAIN folders => Apart(folders, job[j].id, job[j].to)

(* Targets are ids given out, so that no new folder becomes one.           *)
TargetsBorn ==
  \A j \in Jobs :
    /\ job[j].at \in {"creating", "moving"} => job[j].to \in bornFolders \cup {Null}
    /\ job[j].at = "moving" => job[j].id \in bornFolders

(* What a checked depth still says.                                        *)
DepthsKnown ==
  \A j \in Jobs :
    Pending(j, "creating") \/ Pending(j, "moving") => Level(job[j].to) < MaxDepth

TreeInv == crossed \/ (Forest(folders) /\ MovesKnow /\ DepthsKnown)

-----------------------------------------------------------------------------
(* Files.                                                                  *)
LEMMA NewFileIsFresh ==
  ASSUME bornFiles \subseteq Files, bornFiles # Files
  PROVE  NewFile \in Files /\ NewFile \notin bornFiles
<1>1. \E m : m \in Files \ bornFiles
  OBVIOUS
<1> QED
  BY <1>1 DEF NewFile

LEMMA OrphanedSome ==
  ASSUME RowsOK, NEW f, rows' = Orphaned(f)
  PROVE  /\ RowsOK' /\ DOMAIN rows' = DOMAIN rows
         /\ \A m \in DOMAIN rows :
              /\ rows'[m].trashed = rows[m].trashed
              /\ rows'[m].folder = IF rows[m].folder = f THEN Null ELSE rows[m].folder
<1> DEFINE freed(m) == [rows[m] EXCEPT !.folder = Null]
<1>1. ASSUME NEW m \in DOMAIN rows
      PROVE  /\ DOMAIN freed(m) = {"path", "folder", "trashed"}
             /\ freed(m).trashed = rows[m].trashed /\ freed(m).folder = Null
  BY DEF RowsOK
<1>2. rows' = [m \in DOMAIN rows |-> IF rows[m].folder = f THEN freed(m) ELSE rows[m]]
  BY DEF Orphaned
<1> HIDE DEF freed
<1>3. /\ DOMAIN rows' = DOMAIN rows
      /\ \A m \in DOMAIN rows : rows'[m] = IF rows[m].folder = f THEN freed(m) ELSE rows[m]
  BY <1>2
<1> QED
  BY <1>1, <1>3 DEF RowsOK

LEMMA NoRowFollows ==
  ASSUME NEW j, UpdatePathPrefix(j)
  PROVE  DOMAIN rows' = DOMAIN rows /\ \A m \in DOMAIN rows : rows'[m] = rows[m]
<1>1. \A m : ~FollowsFolder(m, job[j].chain)
  BY DEF FollowsFolder, RowScope
<1> HIDE DEF FollowsFolder
<1>2. rows' = [m \in DOMAIN rows |-> rows[m]]
  BY <1>1 DEF UpdatePathPrefix
<1> QED
  BY <1>2

(* Rows come from uploads only, and files go only when they are unlinked.  *)
LEMMA RowsOfSteps ==
  ASSUME MediaNext
  PROVE  \A m \in DOMAIN rows' :
           m \in DOMAIN rows \/ \E j \in Jobs : RecordUpload(j) /\ m = job[j].id
<1>0. PICK j \in Jobs : FolderRoutes(j) \/ MediaRoutes(j) \/ Proceed(j) \/ Fail(j)
  BY DEF MediaNext
<1>1. CASE RecordUpload(j)
  <2>1. DOMAIN rows' = DOMAIN rows \cup {job[j].id}
    BY <1>1 DEF RecordUpload, Inserted
  <2> QED
    BY <1>1, <2>1
<1>2. CASE RepointRow(j)
  BY <1>2 DEF RepointRow
<1>3. CASE DropRow(j)
  BY <1>3 DEF DropRow, Without
<1>4. CASE ClearFiles(j) \/ RemoveFolder(j)
  BY <1>4 DEF ClearFiles, RemoveFolder, Orphaned
<1>5. CASE UpdatePathPrefix(j)
  BY <1>5, NoRowFollows
<1>6. CASE \E m \in Files : Trash(m) \/ Restore(m)
  BY <1>6 DEF Trash, Restore
<1>7. CASE UNCHANGED rows
  BY <1>7
<1>8. \/ RecordUpload(j) \/ RepointRow(j) \/ DropRow(j) \/ ClearFiles(j) \/ RemoveFolder(j)
      \/ UpdatePathPrefix(j) \/ (\E m \in Files : Trash(m) \/ Restore(m)) \/ UNCHANGED rows
  BY <1>0 DEF FolderRoutes, MediaRoutes, Proceed, Fail, fileVars, StartDelete, StartUpload,
              StartRefile, StartPurge, SaveFile, MoveFile, Unlink, ShiftDirectory
<1> QED
  BY <1>1, <1>2, <1>3, <1>4, <1>5, <1>6, <1>7, <1>8

LEMMA FilesOfSteps ==
  ASSUME MediaNext
  PROVE  /\ \A m \in DOMAIN disk \cup purged : m \in DOMAIN disk' \cup purged'
         /\ \/ UNCHANGED bornFiles
            \/ \E j \in Jobs : SaveFile(j) /\ NewFile \in DOMAIN disk'
<1>0. PICK j \in Jobs : FolderRoutes(j) \/ MediaRoutes(j) \/ Proceed(j) \/ Fail(j)
  BY DEF MediaNext
<1>1. CASE SaveFile(j)
  <2>1. DOMAIN disk' = DOMAIN disk \cup {NewFile} /\ UNCHANGED purged
    BY <1>1 DEF SaveFile
  <2> QED
    BY <1>1, <2>1
<1>2. CASE Unlink(j)
  <2>1. \A m \in DOMAIN disk : m \in DOMAIN disk' \/ m = job[j].id
    BY <1>2 DEF Unlink, Without
  <2> QED
    BY <1>2, <2>1 DEF Unlink
<1>3. CASE MoveFile(j)
  BY <1>3 DEF MoveFile
<1>4. CASE ShiftDirectory(j)
  BY <1>4 DEF ShiftDirectory, Shifted
<1>5. CASE UNCHANGED <<disk, bornFiles, purged>>
  BY <1>5
<1>6. SaveFile(j) \/ Unlink(j) \/ MoveFile(j) \/ ShiftDirectory(j)
      \/ UNCHANGED <<disk, bornFiles, purged>>
  BY <1>0 DEF FolderRoutes, MediaRoutes, Proceed, Fail, fileVars, StartDelete, StartUpload,
              StartRefile, StartPurge, RecordUpload, RepointRow, DropRow, ClearFiles,
              RemoveFolder, UpdatePathPrefix, Trash, Restore
<1> QED
  BY <1>1, <1>2, <1>3, <1>4, <1>5, <1>6

LEMMA FilesInvKept ==
  ASSUME JobsOK, FilesInv, MediaNext
  PROVE  FilesInv'
<1>1. bornFiles \subseteq bornFiles' /\ bornFiles' \subseteq Files
  <2>1. ASSUME NEW j \in Jobs, SaveFile(j) PROVE bornFiles' = bornFiles \cup {NewFile} /\ NewFile \in Files
    BY <2>1, NewFileIsFresh DEF SaveFile, FilesInv
  <2> QED
    BY <2>1, FilesOfSteps DEF FilesInv
<1>2. DOMAIN rows' \subseteq bornFiles'
  <2>1. ASSUME NEW j \in Jobs, RecordUpload(j) PROVE job[j].id \in bornFiles
    BY <2>1 DEF RecordUpload, FilesInv
  <2> QED
    BY <1>1, <2>1, RowsOfSteps DEF FilesInv
<1>3. bornFiles' \subseteq DOMAIN disk' \cup purged'
  <2>1. ASSUME NEW j \in Jobs, SaveFile(j) PROVE bornFiles' = bornFiles \cup {NewFile}
    BY <2>1 DEF SaveFile
  <2> QED
    BY <2>1, FilesOfSteps DEF FilesInv
<1>4. ASSUME NEW i \in Jobs, job'[i].at = "recording" PROVE job'[i].id \in bornFiles'
  <2>1. CASE Kept(i)
    BY <1>1, <1>4, <2>1 DEF Kept, FilesInv
  <2>2. CASE Comes(i)
    <3>1. SaveFile(i) /\ job'[i].id = NewFile
      BY <1>4, <2>2 DEF Comes
    <3> QED
      BY <3>1 DEF SaveFile
  <2> QED
    BY <1>4, <2>1, <2>2, EveryJobSteps DEF JobSteps, Watched
<1> QED
  BY <1>1, <1>2, <1>3, <1>4 DEF FilesInv

-----------------------------------------------------------------------------
(* Latecomers: a file that a step brings to a folder, live, is told to     *)
(* every request that is emptying the folder.                              *)
Told(f, m) ==
  \A i \in Jobs :
    job[i].at \in {"emptying", "removing"} /\ job[i].id = f /\ job'[i].at = job[i].at =>
      m \in job'[i].late

LEMMA RecordUploadSteps ==
  ASSUME JobsOK, RowsOK, NEW j \in Jobs, RecordUpload(j)
  PROVE  RowsOK' /\ \A g \in Folders : \A m \in HoldsLive(g)' : m \in HoldsLive(g) \/ Told(g, m)
<1> DEFINE m == job[j].id  f == job[j].to
           row == [path |-> job[j].chain, folder |-> f, trashed |-> FALSE]
<1>1. job' = Arrives([job EXCEPT ![j] = Idle], m, f)
  BY DEF RecordUpload
<1>2. rows' = [n \in DOMAIN rows \cup {m} |-> IF n = m THEN row ELSE rows[n]]
  BY DEF RecordUpload, Inserted
<1>3. DOMAIN row = {"path", "folder", "trashed"} /\ row.folder = f
  OBVIOUS
<1> HIDE DEF row
<1>4. DOMAIN rows' = DOMAIN rows \cup {m}
      /\ \A n \in DOMAIN rows' : rows'[n] = IF n = m THEN row ELSE rows[n]
  BY <1>2
<1> HIDE DEF m, f
<1>5. RowsOK'
  BY <1>3, <1>4 DEF RowsOK
<1>6. /\ job'[j].at = "idle"
      /\ \A i \in Jobs : i # j /\ Hears(i, f) => m \in job'[i].late
  <2>1. ASSUME NEW m1, NEW f1, job' = Arrives([job EXCEPT ![j] = Idle], m1, f1)
        PROVE  /\ job'[j].at = "idle"
               /\ \A i \in Jobs : i # j /\ Hears(i, f1) => m1 \in job'[i].late
    BY <2>1, FinishTells
  <2> QED
    BY <1>1, <2>1
<1>7. ASSUME NEW g \in Folders, NEW n \in HoldsLive(g)', n # m PROVE n \in HoldsLive(g)
  <2>1. n \in DOMAIN rows' /\ rows'[n].folder = g /\ ~rows'[n].trashed
    BY DEF HoldsLive
  <2> QED
    BY <1>4, <1>7, <2>1 DEF HoldsLive
<1>8. ASSUME NEW g \in Folders, m \in HoldsLive(g)' PROVE Told(g, m)
  <2>1. rows'[m].folder = g /\ m \in DOMAIN rows'
    BY <1>8 DEF HoldsLive
  <2>2. g = f /\ f # Null
    BY <1>3, <1>4, <2>1, NullIsNoFolder
  <2> QED
    BY <1>6, <2>2 DEF Told, Hears
<1> QED
  BY <1>5, <1>7, <1>8

LEMMA RepointRowSteps ==
  ASSUME JobsOK, RowsOK, NEW j \in Jobs, RepointRow(j)
  PROVE  RowsOK' /\ \A g \in Folders : \A m \in HoldsLive(g)' : m \in HoldsLive(g) \/ Told(g, m)
<1> DEFINE m == job[j].id  f == job[j].to
           row == [rows[m] EXCEPT !.path = job[j].chain, !.folder = f]
<1>1. m \in DOMAIN rows /\ rows' = [rows EXCEPT ![m] = row]
  BY DEF RepointRow
<1>2. ~rows[m].trashed => job' = Arrives([job EXCEPT ![j] = Idle], m, f)
  BY DEF RepointRow
<1>3. DOMAIN row = {"path", "folder", "trashed"} /\ row.folder = f /\ row.trashed = rows[m].trashed
  BY <1>1 DEF RowsOK
<1> HIDE DEF row
<1>4. DOMAIN rows' = DOMAIN rows
      /\ \A n \in DOMAIN rows' : rows'[n] = IF n = m THEN row ELSE rows[n]
  BY <1>1
<1> HIDE DEF m, f
<1>5. RowsOK'
  BY <1>3, <1>4 DEF RowsOK
<1>6. ASSUME ~rows[m].trashed
      PROVE  /\ job'[j].at = "idle"
             /\ \A i \in Jobs : i # j /\ Hears(i, f) => m \in job'[i].late
  <2>1. ASSUME NEW m1, NEW f1, job' = Arrives([job EXCEPT ![j] = Idle], m1, f1)
        PROVE  /\ job'[j].at = "idle"
               /\ \A i \in Jobs : i # j /\ Hears(i, f1) => m1 \in job'[i].late
    BY <2>1, FinishTells
  <2> QED
    BY <1>2, <1>6, <2>1
<1>7. ASSUME NEW g \in Folders, NEW n \in HoldsLive(g)', n # m PROVE n \in HoldsLive(g)
  <2>1. n \in DOMAIN rows' /\ rows'[n].folder = g /\ ~rows'[n].trashed
    BY DEF HoldsLive
  <2> QED
    BY <1>4, <1>7, <2>1 DEF HoldsLive
<1>8. ASSUME NEW g \in Folders, m \in HoldsLive(g)' PROVE Told(g, m)
  <2>1. rows'[m].folder = g /\ ~rows'[m].trashed /\ m \in DOMAIN rows'
    BY <1>8 DEF HoldsLive
  <2>2. g = f /\ f # Null /\ ~rows[m].trashed
    BY <1>3, <1>4, <2>1, NullIsNoFolder
  <2> QED
    BY <1>6, <2>2 DEF Told, Hears
<1> QED
  BY <1>5, <1>7, <1>8

LEMMA RestoreSteps ==
  ASSUME JobsOK, RowsOK, NEW m, Restore(m)
  PROVE  RowsOK' /\ \A g \in Folders : \A n \in HoldsLive(g)' : n \in HoldsLive(g) \/ Told(g, n)
<1> DEFINE f == rows[m].folder
           row == [rows[m] EXCEPT !.trashed = FALSE]
<1>1. m \in DOMAIN rows /\ rows' = [rows EXCEPT ![m] = row] /\ job' = Arrives(job, m, f)
  BY DEF Restore
<1>2. DOMAIN row = {"path", "folder", "trashed"} /\ row.folder = f
  BY <1>1 DEF RowsOK
<1> HIDE DEF row, f
<1>3. DOMAIN rows' = DOMAIN rows
      /\ \A n \in DOMAIN rows' : rows'[n] = IF n = m THEN row ELSE rows[n]
  BY <1>1
<1>4. RowsOK'
  BY <1>2, <1>3 DEF RowsOK
<1>5. \A i \in Jobs :
        Hears(i, f) => m \in job'[i].late
  BY <1>1, RestoreTells
<1>6. ASSUME NEW g \in Folders, NEW n \in HoldsLive(g)', n # m PROVE n \in HoldsLive(g)
  <2>1. n \in DOMAIN rows' /\ rows'[n].folder = g /\ ~rows'[n].trashed
    BY DEF HoldsLive
  <2> QED
    BY <1>3, <1>6, <2>1 DEF HoldsLive
<1>7. ASSUME NEW g \in Folders, m \in HoldsLive(g)' PROVE Told(g, m)
  <2>1. rows'[m].folder = g /\ m \in DOMAIN rows'
    BY <1>7 DEF HoldsLive
  <2>2. g = f /\ f # Null
    BY <1>2, <1>3, <2>1, NullIsNoFolder
  <2> QED
    BY <1>5, <2>2 DEF Told, Hears
<1> QED
  BY <1>4, <1>6, <1>7

(* Other steps bring no live file to a folder.                             *)
LEMMA RowSteps ==
  ASSUME JobsOK, RowsOK, MediaNext
  PROVE  RowsOK' /\ \A g \in Folders : \A m \in HoldsLive(g)' : m \in HoldsLive(g) \/ Told(g, m)
<1>0. PICK j \in Jobs : FolderRoutes(j) \/ MediaRoutes(j) \/ Proceed(j) \/ Fail(j)
  BY DEF MediaNext
<1>1. ASSUME \A m \in DOMAIN rows' :
               /\ m \in DOMAIN rows /\ DOMAIN rows'[m] = {"path", "folder", "trashed"}
               /\ rows'[m].folder = rows[m].folder \/ rows'[m].folder = Null
               /\ rows[m].trashed => rows'[m].trashed
      PROVE  RowsOK' /\ \A g \in Folders : \A m \in HoldsLive(g)' : m \in HoldsLive(g)
  <2>1. ASSUME NEW g \in Folders, NEW m \in HoldsLive(g)' PROVE m \in HoldsLive(g)
    <3>1. m \in DOMAIN rows' /\ rows'[m].folder = g /\ ~rows'[m].trashed
      BY DEF HoldsLive
    <3> QED
      BY <1>1, <3>1, NullIsNoFolder DEF HoldsLive
  <2> QED
    BY <1>1, <2>1 DEF RowsOK
<1>2. CASE DropRow(j)
  <2>1. \A m \in DOMAIN rows' : m \in DOMAIN rows /\ rows'[m] = rows[m]
    BY <1>2 DEF DropRow, Without
  <2> QED
    BY <1>1, <2>1 DEF RowsOK
<1>3. CASE ClearFiles(j) \/ RemoveFolder(j)
  <2> DEFINE f == job[j].id
  <2>1. rows' = Orphaned(f)
    BY <1>3 DEF ClearFiles, RemoveFolder
  <2> HIDE DEF f
  <2>2. /\ RowsOK' /\ DOMAIN rows' = DOMAIN rows
        /\ \A m \in DOMAIN rows :
             /\ rows'[m].trashed = rows[m].trashed
             /\ rows'[m].folder = IF rows[m].folder = f THEN Null ELSE rows[m].folder
    BY <2>1, OrphanedSome
  <2>3. \A m \in DOMAIN rows' : DOMAIN rows'[m] = {"path", "folder", "trashed"}
    BY <2>2 DEF RowsOK
  <2> QED
    BY <1>1, <2>2, <2>3
<1>4. CASE UpdatePathPrefix(j)
  BY <1>1, <1>4, NoRowFollows DEF RowsOK
<1>5. CASE \E m \in Files : Trash(m)
  <2>1. PICK k \in Files : Trash(k)
    BY <1>5
  <2> DEFINE row == [rows[k] EXCEPT !.trashed = TRUE]
  <2>2. k \in DOMAIN rows /\ rows' = [rows EXCEPT ![k] = row]
    BY <2>1 DEF Trash, Live
  <2>3. DOMAIN row = {"path", "folder", "trashed"} /\ row.folder = rows[k].folder /\ row.trashed
    BY <2>2 DEF RowsOK
  <2> HIDE DEF row
  <2>4. \A m \in DOMAIN rows' : m \in DOMAIN rows /\ rows'[m] = IF m = k THEN row ELSE rows[m]
    BY <2>2
  <2> QED
    BY <1>1, <2>3, <2>4 DEF RowsOK
<1>6. CASE UNCHANGED rows
  BY <1>1, <1>6 DEF RowsOK
<1>7. \/ RecordUpload(j) \/ RepointRow(j) \/ DropRow(j) \/ ClearFiles(j) \/ RemoveFolder(j)
      \/ UpdatePathPrefix(j) \/ (\E m \in Files : Trash(m)) \/ (\E m \in Files : Restore(m))
      \/ UNCHANGED rows
  BY <1>0 DEF FolderRoutes, MediaRoutes, Proceed, Fail, fileVars, StartDelete, StartUpload,
              StartRefile, StartPurge, SaveFile, MoveFile, Unlink, ShiftDirectory
<1>8. CASE RecordUpload(j)
  BY <1>8, RecordUploadSteps
<1>9. CASE RepointRow(j)
  BY <1>9, RepointRowSteps
<1>10. CASE \E m \in Files : Restore(m)
  BY <1>10, RestoreSteps
<1> QED
  BY <1>2, <1>3, <1>4, <1>5, <1>6, <1>7, <1>8, <1>9, <1>10

LEMMA LateInvKept ==
  ASSUME JobsOK, TableOK, RowsOK, LateInv, MediaNext
  PROVE  LateInv'
<1>1. SUFFICES ASSUME NEW i \in Jobs, job'[i].at \in {"emptying", "removing"}
               PROVE  job'[i].id \in Folders /\ HoldsLive(job[i].id)' \subseteq job'[i].late
  BY DEF LateInv
<1>2. CASE Kept(i)
  <2> DEFINE g == job[i].id
  <2>1. g \in Folders /\ HoldsLive(g) \subseteq job[i].late
    BY <1>1, <1>2 DEF Kept, LateInv
  <2>2. g = job'[i].id
    BY <1>2 DEF Kept
  <2>3. ASSUME NEW m \in HoldsLive(job[i].id)' PROVE m \in job'[i].late
    <3>1. SUFFICES ASSUME NEW h \in Folders, h = job[i].id, h = job'[i].id, m \in HoldsLive(h)'
                   PROVE  m \in job'[i].late
      BY <2>1, <2>2, <2>3 DEF HoldsLive
    <3>2. m \in HoldsLive(h) \/ Told(h, m)
      BY <3>1, RowSteps
    <3> QED
      BY <1>1, <1>2, <2>1, <3>1, <3>2 DEF Told, Kept
  <2> QED
    BY <2>1, <2>2, <2>3
<1>3. CASE Comes(i)
  <2>1. ASSUME NEW f, StartDelete(i, f), job'[i].id = f
        PROVE  f \in Folders /\ \A m \in DOMAIN rows' : rows'[m].folder # f \/ rows'[m].trashed
    BY <2>1 DEF StartDelete, HoldsLive, fileVars, TableOK, Rooted
  <2>2. ASSUME ClearFiles(i), job'[i].id = job[i].id
        PROVE  /\ job'[i].id \in Folders
               /\ \A m \in DOMAIN rows' : rows'[m].folder # job'[i].id \/ rows'[m].trashed
    <3> DEFINE g == job[i].id
    <3>1. rows' = Orphaned(g) /\ g \in Folders
      BY <2>2 DEF ClearFiles, LateInv
    <3> HIDE DEF g
    <3>2. /\ DOMAIN rows' = DOMAIN rows
          /\ \A m \in DOMAIN rows :
               rows'[m].folder = IF rows[m].folder = g THEN Null ELSE rows[m].folder
      BY <3>1, OrphanedSome
    <3>3. \A m \in DOMAIN rows' : rows'[m].folder # g
      BY <3>1, <3>2, NullIsNoFolder
    <3> QED
      BY <2>2, <3>1, <3>3 DEF g
  <2>3. /\ job'[i].id \in Folders
        /\ \A m \in DOMAIN rows' : rows'[m].folder # job'[i].id \/ rows'[m].trashed
    BY <1>1, <1>3, <2>1, <2>2 DEF Comes
  <2> QED
    BY <2>3 DEF HoldsLive
<1> QED
  BY <1>1, <1>2, <1>3, EveryJobSteps DEF JobSteps, Watched

-----------------------------------------------------------------------------
(* What a step can do to the tree: nothing, or add, take away or move one  *)
(* folder.                                                                 *)
Agree(old, new, but) ==
  /\ DOMAIN new \ but = DOMAIN old \ but
  /\ \A x \in DOMAIN old \ but : new[x].parent = old[x].parent

Added(old, new, f, p) ==
  /\ f \in Folders \ DOMAIN old /\ p \in DOMAIN old \cup {Null}
  /\ f \in DOMAIN new /\ new[f].parent = p /\ Agree(old, new, {f})

Removed(old, new, f) ==
  /\ f \in DOMAIN old \ DOMAIN new /\ Agree(old, new, {f})
  /\ \A x \in DOMAIN old : old[x].parent # f

Moved(old, new, f, p) ==
  /\ f \in DOMAIN old /\ p \in DOMAIN old \cup {Null}
  /\ f \in DOMAIN new /\ new[f].parent = p /\ Agree(old, new, {f})

LEMMA TreesStayRooted ==
  ASSUME NEW old, Rooted(old), NEW new, NEW f, NEW p,
         Agree(old, new, {}) \/ Added(old, new, f, p) \/ Removed(old, new, f) \/ Moved(old, new, f, p)
  PROVE  Rooted(new)
<1>1. CASE Agree(old, new, {})
  BY <1>1 DEF Agree, Rooted
<1>2. CASE Added(old, new, f, p) \/ Moved(old, new, f, p)
  BY <1>2 DEF Agree, Added, Moved, Rooted
<1>3. CASE Removed(old, new, f)
  BY <1>3 DEF Agree, Removed, Rooted
<1> QED
  BY <1>1, <1>2, <1>3

LEMMA ForestKept ==
  ASSUME NEW old, Rooted(old), Forest(old), NEW new, NEW f, NEW p,
         Agree(old, new, {}) \/ Added(old, new, f, p) \/ Removed(old, new, f)
  PROVE  Forest(new)
<1>1. PICK rank : Ranked(old, rank)
  BY DEF Forest
<1>2. CASE Agree(old, new, {}) \/ Removed(old, new, f)
  <2> DEFINE less == [x \in DOMAIN new |-> rank[x]]
  <2>1. \A x \in DOMAIN new : x \in DOMAIN old /\ new[x].parent = old[x].parent
    BY <1>2 DEF Agree, Removed
  <2>2. less \in [DOMAIN new -> Nat]
    BY <1>1, <2>1 DEF Ranked
  <2>3. \A x \in DOMAIN new : new[x].parent # Null => new[x].parent \in DOMAIN new
    BY TreesStayRooted DEF Rooted
  <2>4. \A x \in DOMAIN new : new[x].parent # Null => less[new[x].parent] < less[x]
    BY <1>1, <2>1, <2>3 DEF Ranked
  <2> QED
    BY <2>2, <2>4 DEF Forest, Ranked
<1>3. CASE Added(old, new, f, p)
  <2> DEFINE base == IF p = Null THEN 0 ELSE rank[p] + 1
             more == [x \in DOMAIN new |-> IF x = f THEN base ELSE rank[x]]
  <2>1. /\ \A x \in DOMAIN new \ {f} : x \in DOMAIN old /\ new[x].parent = old[x].parent
        /\ f \in DOMAIN new /\ f \notin DOMAIN old /\ new[f].parent = p
        /\ p \in DOMAIN old \cup {Null}
    BY <1>3 DEF Agree, Added
  <2>2. base \in Nat /\ (p # Null => rank[p] \in Nat /\ rank[p] < base)
    BY <1>1, <2>1 DEF Ranked
  <2> HIDE DEF base
  <2>3. more \in [DOMAIN new -> Nat]
    BY <1>1, <2>1, <2>2 DEF Ranked
  <2>4. ASSUME NEW x \in DOMAIN new, new[x].parent # Null
        PROVE  more[new[x].parent] < more[x]
    <3>1. new[x].parent \in DOMAIN new
      BY <2>4, TreesStayRooted DEF Rooted
    <3>2. CASE x = f
      BY <2>1, <2>2, <2>4, <3>1, <3>2
    <3>3. CASE x # f
      <4>1. new[x].parent = old[x].parent /\ old[x].parent \in DOMAIN old
        BY <2>1, <2>4, <3>3 DEF Rooted
      <4> QED
        BY <1>1, <2>1, <2>4, <3>1, <3>3, <4>1 DEF Ranked
    <3> QED
      BY <3>2, <3>3
  <2> QED
    BY <2>3, <2>4 DEF Forest, Ranked
<1> QED
  BY <1>2, <1>3

(* A move out of the way of its own folder keeps a forest one: the part    *)
(* that moves is ranked above the target.                                  *)
LEMMA ForestMoved ==
  ASSUME NEW old, Rooted(old), Forest(old), NEW new, NEW f, NEW p, Moved(old, new, f, p),
         p # Null => Apart(old, f, p)
  PROVE  Forest(new)
<1>1. PICK rank : Ranked(old, rank)
  BY DEF Forest
<1>2. /\ DOMAIN new = DOMAIN old /\ f \in DOMAIN old /\ p \in DOMAIN old \cup {Null}
      /\ \A x \in DOMAIN old : new[x].parent = IF x = f THEN p ELSE old[x].parent
  BY DEF Moved, Agree
<1>3. Null \notin DOMAIN old
  BY NullIsNoFolder DEF Rooted
<1>4. CASE p = Null
  BY <1>1, <1>2, <1>4 DEF Forest, Ranked
<1>5. CASE p # Null
  <2>1. PICK part \in SUBSET DOMAIN old : f \in part /\ p \notin part /\ Closed(old, part)
    BY <1>5 DEF Apart
  <2> DEFINE lift == rank[p] + 1
             more == [x \in DOMAIN old |-> IF x \in part THEN rank[x] + lift ELSE rank[x]]
  <2>2. p \in DOMAIN old /\ rank[p] \in Nat /\ lift \in Nat /\ rank[p] < lift
    BY <1>1, <1>2, <1>5 DEF Ranked
  <2> HIDE DEF lift
  <2>3. \A x \in DOMAIN old : rank[x] \in Nat
    BY <1>1 DEF Ranked
  <2>4. more \in [DOMAIN new -> Nat]
    BY <1>2, <2>2, <2>3
  <2>5. ASSUME NEW x \in DOMAIN old, new[x].parent # Null
        PROVE  more[new[x].parent] < more[x]
    <3>1. CASE x = f
      BY <1>2, <2>1, <2>2, <2>3, <3>1
    <3>2. CASE x # f
      <4> DEFINE q == old[x].parent
      <4>1. new[x].parent = q /\ q \in DOMAIN old /\ rank[q] < rank[x]
        BY <1>1, <1>2, <2>5, <3>2 DEF Rooted, Ranked
      <4>2. q \in part => x \in part
        BY <2>1 DEF Closed
      <4> HIDE DEF q
      <4>3. rank[q] \in Nat /\ rank[x] \in Nat
        BY <2>3, <4>1
      <4> QED
        BY <2>2, <4>1, <4>2, <4>3
    <3> QED
      BY <3>1, <3>2
  <2> QED
    BY <1>2, <2>4, <2>5 DEF Forest, Ranked
<1> QED
  BY <1>4, <1>5

LEMMA ApartKept ==
  ASSUME NEW old, Rooted(old), NEW new, NEW g, NEW q,
         Agree(old, new, {}) \/ Added(old, new, g, q) \/ Removed(old, new, g),
         NEW f \in DOMAIN old \cap DOMAIN new, NEW p \in DOMAIN old, Apart(old, f, p)
  PROVE  Apart(new, f, p)
<1>1. PICK part \in SUBSET DOMAIN old : f \in part /\ p \notin part /\ Closed(old, part)
  BY DEF Apart
<1>2. CASE Agree(old, new, {})
  BY <1>1, <1>2 DEF Apart, Closed, Agree
<1>3. CASE Removed(old, new, g)
  <2> DEFINE less == part \cap DOMAIN new
  <2>1. f \in less /\ p \notin less
    BY <1>1
  <2>2. Closed(new, less)
    BY <1>1, <1>3 DEF Closed, Removed, Agree
  <2> QED
    BY <2>1, <2>2 DEF Apart
<1>4. CASE Added(old, new, g, q)
  <2> DEFINE more == part \cup (IF q \in part THEN {g} ELSE {})
  <2>1. g \notin DOMAIN old /\ DOMAIN new = DOMAIN old \cup {g} /\ new[g].parent = q
        /\ \A x \in DOMAIN old : new[x].parent = old[x].parent
    BY <1>4 DEF Added, Agree
  <2>2. more \in SUBSET DOMAIN new /\ f \in more /\ p \notin more
    BY <1>1, <2>1
  <2>3. q # g /\ \A x \in DOMAIN old : old[x].parent # g
    BY <1>4, <2>1, NullIsNoFolder DEF Rooted, Added
  <2>4. Closed(new, more)
    <3>1. SUFFICES ASSUME NEW x \in DOMAIN new, new[x].parent \in more PROVE x \in more
      BY DEF Closed
    <3>2. CASE x = g
      BY <2>1, <2>3, <3>1, <3>2
    <3>3. CASE x # g
      BY <1>1, <2>1, <2>3, <3>1, <3>3 DEF Closed
    <3> QED
      BY <3>2, <3>3
  <2> QED
    BY <2>2, <2>4 DEF Apart
<1> QED
  BY <1>2, <1>3, <1>4

-----------------------------------------------------------------------------
(* What the steps of the model do to the tree.                             *)
FolderAdded(j) ==
  /\ job[j].at = "creating" /\ Added(folders, folders', NewFolder, job[j].to)
  /\ NewFolder \notin bornFolders /\ NewFolder \in bornFolders'
  /\ ~crossed' => ~crossed /\ ~job[j].raced

FolderMoved(j) ==
  /\ job[j].at = "moving" /\ Moved(folders, folders', job[j].id, job[j].to)
  /\ ~crossed' => ~crossed /\ ~job[j].raced
  /\ \A i \in Jobs : job'[i].at \in {"creating", "moving"} => job'[i].raced

FolderKept == Agree(folders, folders', {}) \/ \E f : Removed(folders, folders', f)

FolderSteps ==
  \/ \E j \in Jobs : FolderAdded(j)
  \/ \E j \in Jobs : FolderMoved(j)
  \/ FolderKept /\ UNCHANGED crossed

FolderOK(f) == DOMAIN folders[f] = {"slug", "parent", "cms"}

LEMMA WriteFolderSteps ==
  ASSUME TableOK, NEW j \in Jobs, NEW cms, WriteFolder(j, cms)
  PROVE  /\ FolderAdded(j) /\ DOMAIN folders' \subseteq bornFolders'
         /\ bornFolders \subseteq bornFolders' /\ bornFolders' \subseteq Folders
         /\ \A f \in DOMAIN folders' : FolderOK(f)'
<1>1. NewFolder \in Folders /\ NewFolder \notin bornFolders
  <2>1. \E f : f \in Folders \ bornFolders
    BY DEF WriteFolder, TableOK
  <2> QED
    BY <2>1 DEF NewFolder
<1> DEFINE new == NewFolder
           row == [slug |-> job[j].slug, parent |-> job[j].to, cms |-> cms]
<1>2. folders' = [g \in DOMAIN folders \cup {new} |-> IF g = new THEN row ELSE folders[g]]
  BY DEF WriteFolder
<1>3. DOMAIN row = {"slug", "parent", "cms"} /\ row.parent = job[j].to
  OBVIOUS
<1> HIDE DEF row, new
<1>4. DOMAIN folders' = DOMAIN folders \cup {new}
      /\ \A g \in DOMAIN folders' : folders'[g] = IF g = new THEN row ELSE folders[g]
  BY <1>2
<1>5. new \in Folders /\ new \notin bornFolders /\ bornFolders' = bornFolders \cup {new}
  BY <1>1 DEF new, WriteFolder
<1>6. new \notin DOMAIN folders
  BY <1>5 DEF TableOK
<1>7. Added(folders, folders', new, job[j].to)
  BY <1>3, <1>4, <1>5, <1>6 DEF Added, Agree, WriteFolder
<1>8. ~crossed' => ~crossed /\ ~job[j].raced
  BY DEF WriteFolder
<1>9. \A f \in DOMAIN folders' : FolderOK(f)'
  BY <1>3, <1>4 DEF FolderOK, TableOK
<1> QED
  BY <1>4, <1>5, <1>7, <1>8, <1>9 DEF FolderAdded, TableOK, WriteFolder, new

LEMMA WriteNameSteps ==
  ASSUME TableOK, NEW j \in Jobs, WriteName(j)
  PROVE  /\ Agree(folders, folders', {}) /\ UNCHANGED <<bornFolders, crossed>>
         /\ \A f \in DOMAIN folders' : FolderOK(f)'
<1> DEFINE f == job[j].id
           row == [folders[f] EXCEPT !.slug = job[j].slug]
<1>1. f \in DOMAIN folders /\ folders' = [folders EXCEPT ![f] = row]
  BY DEF WriteName
<1>2. DOMAIN row = {"slug", "parent", "cms"} /\ row.parent = folders[f].parent
  BY <1>1 DEF TableOK
<1> HIDE DEF row, f
<1>3. DOMAIN folders' = DOMAIN folders
      /\ \A g \in DOMAIN folders : folders'[g] = IF g = f THEN row ELSE folders[g]
  BY <1>1
<1> QED
  BY <1>1, <1>2, <1>3 DEF Agree, FolderOK, TableOK, WriteName

LEMMA WriteParentMoves ==
  ASSUME JobsOK, TableOK, NEW j \in Jobs, WriteParent(j)
  PROVE  /\ FolderMoved(j) /\ UNCHANGED bornFolders /\ DOMAIN folders' = DOMAIN folders
         /\ \A f \in DOMAIN folders' : FolderOK(f)'
<1> DEFINE f == job[j].id  p == job[j].to
           row == [folders[f] EXCEPT !.parent = p]
<1>1. /\ f \in DOMAIN folders /\ p \in DOMAIN folders \cup {Null}
      /\ folders' = [folders EXCEPT ![f] = row]
  BY DEF WriteParent
<1>2. DOMAIN row = {"slug", "parent", "cms"} /\ row.parent = p
  BY <1>1 DEF TableOK
<1> HIDE DEF row, f, p
<1>3. DOMAIN folders' = DOMAIN folders
      /\ \A g \in DOMAIN folders : folders'[g] = IF g = f THEN row ELSE folders[g]
  BY <1>1
<1>4. Moved(folders, folders', f, p)
  BY <1>1, <1>2, <1>3 DEF Moved, Agree
<1>5. \A i \in Jobs : job'[i].at \in {"creating", "moving"} => job'[i].raced
  BY WriteParentSteps
<1>6. ~crossed' => ~crossed /\ ~job[j].raced
  BY DEF WriteParent
<1>7. \A g \in DOMAIN folders' : FolderOK(g)'
  BY <1>2, <1>3 DEF FolderOK, TableOK
<1> QED
  BY <1>3, <1>4, <1>5, <1>6, <1>7 DEF FolderMoved, WriteParent, f, p

LEMMA RemoveFolderSteps ==
  ASSUME TableOK, NEW j \in Jobs, RemoveFolder(j)
  PROVE  /\ \E f : Removed(folders, folders', f)
         /\ UNCHANGED <<bornFolders, crossed>> /\ DOMAIN folders' \subseteq DOMAIN folders
         /\ \A f \in DOMAIN folders' : FolderOK(f)'
<1> DEFINE f == job[j].id
<1>1. f \in DOMAIN folders /\ folders' = [x \in DOMAIN folders \ {f} |-> folders[x]]
  BY DEF RemoveFolder, Without
<1>2. \A x \in DOMAIN folders : folders[x].parent # f
  BY DEF RemoveFolder, Subfolders
<1> HIDE DEF f
<1>3. DOMAIN folders' = DOMAIN folders \ {f} /\ \A x \in DOMAIN folders' : folders'[x] = folders[x]
  BY <1>1
<1>4. Removed(folders, folders', f)
  BY <1>1, <1>2, <1>3 DEF Removed, Agree
<1> QED
  BY <1>3, <1>4 DEF FolderOK, TableOK, RemoveFolder

LEMMA TableSteps ==
  ASSUME JobsOK, TableOK, MediaNext
  PROVE  TableOK' /\ bornFolders \subseteq bornFolders' /\ FolderSteps
<1>0. PICK j \in Jobs : FolderRoutes(j) \/ MediaRoutes(j) \/ Proceed(j) \/ Fail(j)
  BY DEF MediaNext
<1>1. ASSUME FolderSteps, DOMAIN folders' \subseteq bornFolders', bornFolders' \subseteq Folders,
             \A f \in DOMAIN folders' : FolderOK(f)'
      PROVE  TableOK'
  <2>1. Rooted(folders')
    BY <1>1, TreesStayRooted DEF FolderSteps, FolderAdded, FolderMoved, FolderKept, TableOK
  <2>2. \A f \in DOMAIN folders' : DOMAIN folders'[f] = {"slug", "parent", "cms"}
    BY <1>1 DEF FolderOK
  <2> QED
    BY <1>1, <2>1, <2>2 DEF TableOK
<1>2. CASE \E cms \in Scopes : WriteFolder(j, cms)
  BY <1>1, <1>2, WriteFolderSteps DEF FolderSteps
<1>3. CASE WriteName(j)
  <2>1. DOMAIN folders' = DOMAIN folders
    BY <1>3, WriteNameSteps DEF Agree
  <2> QED
    BY <1>1, <1>3, <2>1, WriteNameSteps DEF FolderSteps, FolderKept, TableOK
<1>4. CASE WriteParent(j)
  BY <1>1, <1>4, WriteParentMoves DEF FolderSteps, TableOK
<1>5. CASE RemoveFolder(j)
  BY <1>1, <1>5, RemoveFolderSteps DEF FolderSteps, FolderKept, TableOK
<1>6. CASE UNCHANGED folderVars
  <2>1. Agree(folders, folders', {})
    BY <1>6 DEF folderVars, Agree
  <2> QED
    BY <1>6, <2>1 DEF folderVars, FolderSteps, FolderKept, TableOK
<1>7. \/ (\E cms \in Scopes : WriteFolder(j, cms)) \/ WriteName(j) \/ WriteParent(j)
      \/ RemoveFolder(j) \/ UNCHANGED folderVars
  BY <1>0 DEF FolderRoutes, MediaRoutes, Proceed, Fail, StartCreate, StartRename, StartMove,
              ReadChain, StartDelete, StartUpload, StartRefile, StartPurge, Trash, Restore,
              SaveFile, RecordUpload, MoveFile, RepointRow, Unlink, DropRow, ClearFiles,
              ShiftDirectory, UpdatePathPrefix
<1> QED
  BY <1>2, <1>3, <1>4, <1>5, <1>6, <1>7

-----------------------------------------------------------------------------
(* Levels and ancestors, as walks have them.                               *)
LEMMA LevelIsLength ==
  ASSUME NEW f
  PROVE  Level(f) = Length(Climb(f)) /\ Level(f)' = Length(Climb(f)')
BY DEF Level, Length

LEMMA AncestorsMet ==
  ASSUME NEW f, NEW g, g # Null
  PROVE  g \in Ancestors(f) <=> \E n \in 0 .. Size : n > 0 /\ Climb(f)[n] = g
<1> DEFINE up == Climb(f)
<1>1. DOMAIN up = 0 .. Size
  BY ClimbWalks, WalkSteps
<1>2. Ancestors(f) = {up[n] : n \in DOMAIN up \ {0}} \ {Null}
  BY DEF Ancestors
<1> HIDE DEF up
<1>3. \A n : n \in DOMAIN up \ {0} <=> n \in 0 .. Size /\ n > 0
  BY <1>1, SizeIsNat
<1>4. g \in Ancestors(f) <=> \E n \in DOMAIN up \ {0} : up[n] = g
  BY <1>2
<1>5. g \in Ancestors(f) <=> \E n \in 0 .. Size : n > 0 /\ up[n] = g
  BY <1>3, <1>4
<1> QED
  BY <1>5 DEF up

LEMMA LengthOfChild ==
  ASSUME NEW table, Rooted(table), Forest(table), NEW f \in DOMAIN table,
         NEW up, Walk(table, f, up), NEW on, Walk(table, table[f].parent, on)
  PROVE  Length(on) \in Nat /\ Length(up) = Length(on) + 1
<1>1. table[f].parent \in DOMAIN table \cup {Null} /\ f # Null
  BY NullIsNoFolder DEF Rooted
<1>2. up[Size] = Null /\ on[Size] = Null
  BY <1>1, WalkLeaves
<1> DEFINE k == Length(on)  l == Length(up)
<1>3. k \in 0 .. Size /\ \A n \in 0 .. Size : on[n] # Null <=> n < k
  BY <1>1, <1>2, WalkLength
<1>4. l \in 0 .. Size /\ \A n \in 0 .. Size : up[n] # Null <=> n < l
  BY <1>2, WalkLength
<1>5. up[0] = f /\ \A n \in 0 .. Size : n > 0 => up[n] = on[n - 1]
  BY WalkSteps, WalkFromParent
<1> HIDE DEF k, l
<1>6. k \in Nat /\ l \in Nat /\ Size > 0
  BY <1>1, <1>2, <1>3, <1>4, <1>5, SizeIsNat
<1>7. k < Size
  <2>1. Size - 1 \in 0 .. Size /\ on[Size - 1] = Null
    BY <1>2, <1>5, <1>6, SizeIsNat
  <2>2. ~(Size - 1 < k)
    BY <1>3, <2>1
  <2> QED
    BY <1>6, <2>2, SizeIsNat
<1>8. k < l
  <2>1. k \in 0 .. Size /\ (k > 0 => k - 1 \in 0 .. Size /\ k - 1 < k)
    BY <1>3, <1>6, SizeIsNat
  <2>2. up[k] # Null
    BY <1>1, <1>3, <1>5, <1>6, <2>1
  <2> QED
    BY <1>4, <2>1, <2>2
<1>9. ~(k + 1 < l)
  <2>1. k + 1 \in 0 .. Size /\ k + 1 > 0 /\ (k + 1) - 1 = k /\ k \in 0 .. Size
    BY <1>6, <1>7, SizeIsNat
  <2>2. up[k + 1] = on[k] /\ on[k] = Null
    BY <1>3, <1>5, <1>6, <2>1
  <2> QED
    BY <1>4, <2>1, <2>2
<1>10. k \in Nat /\ l = k + 1
  BY <1>6, <1>8, <1>9
<1> QED
  BY <1>10 DEF k, l

LEMMA LengthOfNull ==
  ASSUME NEW table, Rooted(table), Forest(table), NEW up, Walk(table, Null, up)
  PROVE  Length(up) = 0
<1>1. up[Size] = Null /\ up[0] = Null
  BY WalkLeaves, WalkSteps
<1>2. Length(up) \in 0 .. Size /\ (0 < Length(up) => up[0] # Null)
  BY <1>1, WalkLength, SizeIsNat
<1> QED
  BY <1>1, <1>2, SizeIsNat

LEMMA WalkAvoids ==
  ASSUME NEW table, NEW part, Null \notin part, Closed(table, part),
         NEW f, f \notin part, NEW up, Walk(table, f, up)
  PROVE  \A n \in 0 .. Size : up[n] \notin part
<1> DEFINE P == {n \in Nat : up[n] \notin part}
<1>1. 0 \in P
  BY WalkSteps
<1>2. ASSUME NEW n \in 0 .. Size, n > 0, n - 1 \in P PROVE n \in P
  <2>1. n \in Nat
    BY SizeIsNat
  <2>2. up[n] = IF up[n - 1] \in DOMAIN table THEN table[up[n - 1]].parent ELSE Null
    BY <1>2, WalkSteps
  <2> QED
    BY <1>2, <2>1, <2>2 DEF Closed
<1> HIDE DEF P
<1>3. \A n \in 0 .. Size : n \in P
  BY <1>1, <1>2, SizeIsNat, StepByStep
<1> QED
  BY <1>3 DEF P

(* A walk that meets nothing that has changed is the walk that it was.     *)
LEMMA LevelKept ==
  ASSUME NEW but, Agree(folders, folders', but), NEW f,
         \A n \in 0 .. Size : Climb(f)[n] \notin but
  PROVE  Climb(f)' = Climb(f) /\ Level(f)' = Level(f)
<1>1. Walk(folders, f, Climb(f)) /\ Walk(folders', f, Climb(f)')
  BY ClimbWalks
<1>2. ASSUME NEW old, NEW new, Agree(old, new, but), NEW up, Walk(old, f, up),
             NEW on, Walk(new, f, on), \A n \in 0 .. Size : up[n] \notin but
      PROVE  on = up
  <2>1. \A n \in 0 .. Size : up[n] \in DOMAIN old =>
          up[n] \in DOMAIN new /\ new[up[n]].parent = old[up[n]].parent
    BY <1>2 DEF Agree
  <2>2. \A n \in 0 .. Size : up[n] \notin DOMAIN old => up[n] \notin DOMAIN new
    BY <1>2 DEF Agree
  <2> QED
    BY <1>2, <2>1, <2>2, SameWalk
<1>3. Climb(f)' = Climb(f)
  BY <1>1, <1>2
<1> QED
  BY <1>3, LevelIsLength

LEMMA CheckedMoveIsApart ==
  ASSUME TableOK, Forest(folders), NEW f \in DOMAIN folders, NEW p \in DOMAIN folders,
         ~IsDescendant(f, p)
  PROVE  Apart(folders, f, p)
<1> DEFINE part == {x \in DOMAIN folders : f = x \/ f \in Ancestors(x)}
<1>1. f \in part /\ p \notin part
  BY DEF IsDescendant
<1>2. ASSUME NEW x \in DOMAIN folders, folders[x].parent \in part PROVE x \in part
  <2>1. SUFFICES ASSUME NEW q, q = folders[x].parent, q \in DOMAIN folders,
                        f = q \/ f \in Ancestors(q)
                 PROVE  f \in Ancestors(x)
    BY <1>2
  <2>2. Rooted(folders) /\ f # Null
    BY NullIsNoFolder DEF TableOK, Rooted
  <2>3. Walk(folders, x, Climb(x)) /\ Walk(folders, q, Climb(q))
    BY ClimbWalks
  <2>4. \A n \in 0 .. Size : n > 0 => Climb(x)[n] = Climb(q)[n - 1]
    BY <2>1, <2>3, WalkFromParent
  <2>5. Climb(q)[Size] = Null /\ Climb(q)[0] = q /\ Climb(x)[Size] = Null /\ Climb(x)[0] = x
    BY <2>1, <2>2, <2>3, WalkLeaves, WalkSteps
  <2>6. \E n \in 0 .. Size : n < Size /\ Climb(q)[n] = f
    <3>1. CASE f = q
      <4>1. x # Null
        BY NullIsNoFolder DEF Rooted, TableOK
      <4>2. 0 \in 0 .. Size /\ 0 < Size
        BY <2>5, <4>1, SizeIsNat
      <4> QED
        BY <2>5, <3>1, <4>2
    <3>2. CASE f \in Ancestors(q)
      <4>1. PICK n \in 0 .. Size : n > 0 /\ Climb(q)[n] = f
        BY <2>2, <3>2, AncestorsMet
      <4>2. n < Size
        BY <2>2, <2>5, <4>1, SizeIsNat
      <4> QED
        BY <4>1, <4>2
    <3> QED
      BY <2>1, <3>1, <3>2
  <2>7. PICK n \in 0 .. Size : n < Size /\ Climb(q)[n] = f
    BY <2>6
  <2>8. n + 1 \in 0 .. Size /\ n + 1 > 0 /\ (n + 1) - 1 = n
    BY <2>7, SizeIsNat
  <2>9. Climb(x)[n + 1] = f
    BY <2>4, <2>7, <2>8
  <2> QED
    BY <2>2, <2>8, <2>9, AncestorsMet
<1> HIDE DEF part
<1>3. Closed(folders, part)
  BY <1>2 DEF Closed
<1> QED
  BY <1>1, <1>3 DEF Apart, part

-----------------------------------------------------------------------------
(* The tree's invariant.                                                   *)
LEMMA TargetsBornKept ==
  ASSUME JobsOK, TableOK, TargetsBorn, MediaNext
  PROVE  TargetsBorn'
<1>1. bornFolders \subseteq bornFolders' /\ DOMAIN folders \subseteq bornFolders
  BY TableSteps DEF TableOK
<1>2. ASSUME NEW i \in Jobs
      PROVE  /\ job'[i].at \in {"creating", "moving"} => job'[i].to \in bornFolders' \cup {Null}
             /\ job'[i].at = "moving" => job'[i].id \in bornFolders'
  <2>1. CASE Kept(i)
    BY <1>1, <2>1 DEF Kept, TargetsBorn
  <2>2. CASE Comes(i)
    <3>1. ASSUME NEW s, NEW p, StartCreate(i, s, p) PROVE p \in bornFolders' \cup {Null}
      BY <1>1, <3>1 DEF StartCreate
    <3>2. ASSUME NEW f, NEW p, StartMove(i, f, p)
          PROVE  f \in bornFolders' /\ p \in bornFolders' \cup {Null}
      BY <1>1, <3>2 DEF StartMove
    <3> QED
      BY <2>2, <3>1, <3>2 DEF Comes
  <2> QED
    BY <2>1, <2>2, EveryJobSteps DEF JobSteps, Watched
<1> QED
  BY <1>2 DEF TargetsBorn

(* Requests that wait for the same as before.                              *)
LEMMA PendingKept ==
  ASSUME JobsOK, TableOK, TargetsBorn, MediaNext, NEW i \in Jobs, Kept(i),
         NEW place \in {"creating", "moving"}, Pending(i, place)'
  PROVE  /\ Pending(i, place) /\ job'[i].to = job[i].to /\ job'[i].id = job[i].id
         /\ job[i].to \in DOMAIN folders'
         /\ FolderKept \/ \E j \in Jobs : FolderAdded(j) /\ NewFolder # job[i].to
         /\ place = "moving" /\ job[i].id \in DOMAIN folders' => job[i].id \in DOMAIN folders
<1>1. /\ job'[i].at = place /\ ~job'[i].raced /\ job'[i].to \in DOMAIN folders'
      /\ job[i].at = place /\ ~job[i].raced /\ job'[i].to = job[i].to /\ job'[i].id = job[i].id
  BY DEF Pending, Kept
<1>2. job[i].to \in bornFolders \cup {Null} /\ (place = "moving" => job[i].id \in bornFolders)
  BY <1>1 DEF TargetsBorn
<1>3. Null \notin DOMAIN folders'
  BY TableSteps, NullIsNoFolder DEF TableOK, Rooted
<1>4. ASSUME NEW j \in Jobs, FolderMoved(j) PROVE FALSE
  BY <1>1, <1>4 DEF FolderMoved
<1>5. ASSUME NEW j \in Jobs, FolderAdded(j)
      PROVE  /\ job[i].to \in DOMAIN folders /\ NewFolder # job[i].to
             /\ place = "moving" /\ job[i].id \in DOMAIN folders' => job[i].id \in DOMAIN folders
  <2>1. job[i].to \in bornFolders
    BY <1>1, <1>2, <1>3
  <2>2. \A x \in DOMAIN folders' : x # NewFolder => x \in DOMAIN folders
    BY <1>5 DEF FolderAdded, Added, Agree
  <2>3. NewFolder \notin bornFolders
    BY <1>5 DEF FolderAdded
  <2> QED
    BY <1>1, <1>2, <2>1, <2>2, <2>3
<1>6. ASSUME FolderKept
      PROVE  /\ job[i].to \in DOMAIN folders
             /\ job[i].id \in DOMAIN folders' => job[i].id \in DOMAIN folders
  BY <1>1, <1>6 DEF FolderKept, Agree, Removed
<1> QED
  BY <1>1, <1>4, <1>5, <1>6, TableSteps DEF FolderSteps, Pending

LEMMA UnmetLevels ==
  ASSUME TableOK, FolderKept \/ (\E j \in Jobs : FolderAdded(j)),
         NEW f \in DOMAIN folders, f \in DOMAIN folders'
  PROVE  Level(f)' = Level(f)
<1>0. Rooted(folders) /\ f # Null /\ Walk(folders, f, Climb(f))
  BY ClimbWalks, NullIsNoFolder DEF TableOK, Rooted
<1>1. CASE Agree(folders, folders', {})
  BY <1>1, LevelKept
<1>2. ASSUME NEW g, Agree(folders, folders', {g}), g # f, g # Null,
             \A x \in DOMAIN folders : folders[x].parent # g
      PROVE  Level(f)' = Level(f)
  <2> DEFINE but == {g}
  <2>1. Null \notin but /\ f \notin but /\ Closed(folders, but)
    BY <1>2 DEF Closed
  <2>2. Agree(folders, folders', but)
    BY <1>2
  <2> HIDE DEF but
  <2>3. \A n \in 0 .. Size : Climb(f)[n] \notin but
    BY <1>0, <2>1, WalkAvoids
  <2> QED
    BY <2>2, <2>3, LevelKept
<1>3. ASSUME NEW g, Removed(folders, folders', g) PROVE Level(f)' = Level(f)
  BY <1>0, <1>2, <1>3, NullIsNoFolder DEF Removed, Rooted
<1>4. ASSUME NEW j \in Jobs, FolderAdded(j) PROVE Level(f)' = Level(f)
  <2> DEFINE g == NewFolder
  <2>1. Added(folders, folders', g, job[j].to) /\ g \in Folders \ DOMAIN folders
    BY <1>4 DEF FolderAdded, Added
  <2> HIDE DEF g
  <2>2. g # f /\ g # Null /\ \A x \in DOMAIN folders : folders[x].parent # g
    BY <1>0, <2>1, NullIsNoFolder DEF Rooted
  <2> QED
    BY <1>2, <2>1, <2>2 DEF Added
<1> QED
  BY <1>1, <1>3, <1>4 DEF FolderKept

LEMMA TreeInvKept ==
  ASSUME JobsOK, TableOK, TargetsBorn, TreeInv, MediaNext, ~crossed'
  PROVE  Forest(folders') /\ MovesKnow' /\ DepthsKnown'
<1>1. Rooted(folders) /\ TableOK' /\ FolderSteps /\ DOMAIN folders \subseteq bornFolders
  BY TableSteps DEF TableOK
<1>2. ~crossed /\ Forest(folders) /\ MovesKnow /\ DepthsKnown
  BY <1>1 DEF FolderSteps, FolderAdded, FolderMoved, TreeInv
<1>3. Forest(folders')
  <2>1. ASSUME NEW j \in Jobs, FolderMoved(j) PROVE Forest(folders')
    <3>1. Moved(folders, folders', job[j].id, job[j].to) /\ job[j].at = "moving" /\ ~job[j].raced
      BY <2>1 DEF FolderMoved
    <3>2. job[j].to # Null => Apart(folders, job[j].id, job[j].to)
      BY <1>2, <3>1 DEF MovesKnow, Pending, Moved
    <3> QED
      BY <1>1, <1>2, <3>1, <3>2, ForestMoved
  <2>2. ASSUME NEW j \in Jobs, FolderAdded(j) PROVE Forest(folders')
    BY <1>1, <1>2, <2>2, ForestKept DEF FolderAdded
  <2>3. CASE FolderKept
    BY <1>1, <1>2, <2>3, ForestKept DEF FolderKept
  <2> QED
    BY <1>1, <2>1, <2>2, <2>3 DEF FolderSteps
<1>4. ASSUME NEW i \in Jobs, Pending(i, "moving")', (job[i].id \in DOMAIN folders)'
      PROVE  Apart(folders', job'[i].id, job'[i].to)
  <2>1. CASE Kept(i)
    <3>1. /\ Pending(i, "moving") /\ job'[i].to = job[i].to /\ job'[i].id = job[i].id
          /\ job[i].to \in DOMAIN folders'
          /\ FolderKept \/ \E j \in Jobs : FolderAdded(j)
          /\ job[i].id \in DOMAIN folders' => job[i].id \in DOMAIN folders
      BY <1>4, <2>1, PendingKept
    <3>2. /\ Apart(folders, job[i].id, job[i].to)
          /\ job[i].id \in DOMAIN folders \cap DOMAIN folders' /\ job[i].to \in DOMAIN folders
      BY <1>2, <1>4, <3>1 DEF MovesKnow, Pending
    <3>3. \/ Agree(folders, folders', {})
          \/ \E g : Removed(folders, folders', g)
          \/ \E g, q : Added(folders, folders', g, q)
      BY <3>1 DEF FolderKept, FolderAdded
    <3>4. Apart(folders', job[i].id, job[i].to)
      BY <1>1, <3>2, <3>3, ApartKept
    <3> QED
      BY <3>1, <3>4
  <2>2. CASE Comes(i)
    <3>1. PICK f, p : StartMove(i, f, p) /\ job'[i].id = f /\ job'[i].to = p
      BY <1>4, <2>2 DEF Comes, Pending
    <3>2. UNCHANGED folders /\ f \in DOMAIN folders /\ p \in DOMAIN folders
      BY <1>4, <3>1 DEF StartMove, folderVars, Pending
    <3>3. ~IsDescendant(f, p)
      BY <1>1, <3>1, <3>2, NullIsNoFolder DEF StartMove, Rooted
    <3>4. Apart(folders, f, p)
      BY <1>2, <3>2, <3>3, CheckedMoveIsApart
    <3> QED
      BY <3>1, <3>2, <3>4
  <2> QED
    BY <1>4, <2>1, <2>2, EveryJobSteps DEF JobSteps, Watched, Pending
<1>5. ASSUME NEW i \in Jobs, NEW p, p = job'[i].to,
             Pending(i, "creating")' \/ Pending(i, "moving")'
      PROVE  Level(p)' < MaxDepth
  <2>0. p \in DOMAIN folders' /\ p # Null
    BY <1>1, <1>5, NullIsNoFolder DEF Pending, TableOK, Rooted
  <2>1. CASE Kept(i)
    <3>1. /\ Pending(i, "creating") \/ Pending(i, "moving")
          /\ job'[i].to = job[i].to
          /\ FolderKept \/ \E j \in Jobs : FolderAdded(j)
      BY <1>5, <2>1, PendingKept
    <3>2. p \in DOMAIN folders /\ Level(p) < MaxDepth
      BY <1>2, <1>5, <3>1 DEF DepthsKnown, Pending
    <3> QED
      BY <2>0, <3>1, <3>2, UnmetLevels
  <2>2. CASE Comes(i)
    <3>1. UNCHANGED folders /\ DepthAllows(p)
      BY <1>5, <2>2 DEF Comes, Pending, StartCreate, StartMove, folderVars
    <3>2. p \in DOMAIN folders /\ Level(p) < MaxDepth
      BY <2>0, <3>1 DEF DepthAllows
    <3>3. Agree(folders, folders', {})
      BY <3>1 DEF Agree
    <3> QED
      BY <2>0, <3>2, <3>3, UnmetLevels DEF FolderKept
  <2> QED
    BY <1>5, <2>1, <2>2, EveryJobSteps DEF JobSteps, Watched, Pending
<1>6. MovesKnow'
  BY <1>4 DEF MovesKnow
<1>7. DepthsKnown'
  BY <1>5 DEF DepthsKnown
<1> QED
  BY <1>3, <1>6, <1>7

-----------------------------------------------------------------------------
(* The invariant of the library.                                           *)
MediaInv ==
  JobsOK /\ TableOK /\ RowsOK /\ FilesInv /\ LateInv /\ TargetsBorn /\ TreeInv

LEMMA MediaInvAtFirst == MediaInit => MediaInv
<1> SUFFICES ASSUME MediaInit PROVE MediaInv
  OBVIOUS
<1>1. JobsOK /\ \A j \in Jobs : job[j].at = "idle"
  <2>1. job = [j \in Jobs |-> Idle]
    BY DEF MediaInit
  <2>2. \A j \in Jobs : job[j] = Idle
    BY <2>1
  <2>3. job = [j \in Jobs |-> job[j]]
    BY <2>1, <2>2
  <2> QED
    BY <2>2, <2>3, IdleFields DEF JobsOK
<1>2. DOMAIN folders = {} /\ DOMAIN rows = {} /\ bornFolders = {} /\ bornFiles = {}
  BY DEF MediaInit
<1>3. TableOK /\ RowsOK
  BY <1>2 DEF TableOK, RowsOK, Rooted
<1>4. FilesInv /\ LateInv /\ TargetsBorn /\ MovesKnow /\ DepthsKnown
  BY <1>1, <1>2 DEF FilesInv, LateInv, TargetsBorn, MovesKnow, DepthsKnown, Pending
<1>5. Forest(folders)
  <2>1. Ranked(folders, [f \in DOMAIN folders |-> 0])
    BY <1>2 DEF Ranked
  <2> QED
    BY <2>1 DEF Forest
<1> QED
  BY <1>1, <1>3, <1>4, <1>5 DEF MediaInv, TreeInv

LEMMA MediaInvKept == MediaInv /\ [MediaNext]_mediaVars => MediaInv'
<1> SUFFICES ASSUME MediaInv, [MediaNext]_mediaVars PROVE MediaInv'
  OBVIOUS
<1>1. CASE MediaNext
  <2>1. JobsOK' /\ TableOK' /\ RowsOK'
    BY <1>1, EveryJobSteps, TableSteps, RowSteps DEF MediaInv
  <2>2. FilesInv' /\ LateInv' /\ TargetsBorn'
    BY <1>1, FilesInvKept, LateInvKept, TargetsBornKept DEF MediaInv
  <2>3. TreeInv'
    BY <1>1, TreeInvKept DEF MediaInv, TreeInv
  <2> QED
    BY <2>1, <2>2, <2>3 DEF MediaInv
<1>2. CASE UNCHANGED mediaVars
  <2>1. /\ folders' = folders /\ bornFolders' = bornFolders /\ crossed' = crossed /\ job' = job
        /\ rows' = rows /\ bornFiles' = bornFiles /\ disk' = disk /\ purged' = purged
    BY <1>2 DEF mediaVars, folderVars, fileVars
  <2>2. JobsOK' /\ TableOK' /\ RowsOK' /\ FilesInv' /\ TargetsBorn'
    BY <2>1 DEF MediaInv, JobsOK, TableOK, RowsOK, FilesInv, TargetsBorn
  <2>3. LateInv'
    BY <2>1 DEF MediaInv, LateInv, HoldsLive
  <2>4. TreeInv'
    BY <2>1 DEF MediaInv, TreeInv, MovesKnow, DepthsKnown, Pending, Level, Climb
  <2> QED
    BY <2>2, <2>3, <2>4 DEF MediaInv
<1> QED
  BY <1>1, <1>2

LEMMA MediaInvAlways == MediaSpec => []MediaInv
BY MediaInvAtFirst, MediaInvKept, PTL DEF MediaSpec

(* Every row of media has its file on disk, or had it until a permanent    *)
(* deletion unlinked it: uploads, moves of files and of whole directories, *)
(* failures at any step and restores from the trash never lose one         *)
(* (MediaService, StorageService.moveFile).                                *)
THEOREM RowsKeepTheirFiles == MediaSpec => []FilesKept
<1>1. MediaInv => FilesKept
  BY DEF MediaInv, FilesInv, FilesKept
<1> QED
  BY <1>1, MediaInvAlways, PTL

(* Deleting a folder (MediaFoldersService.delete) takes the folder away    *)
(* from no live file but those that came to it after it was counted empty, *)
(* however many requests upload, refile and restore meanwhile.             *)
THEOREM LatecomersLoseTheirFolder == MediaSpec => EmptiedOfLatecomersOnly
<1>1. MediaInv =>
        \A m \in DOMAIN rows \cap DOMAIN rows', j \in Jobs :
          (/\ job[j].at \in {"emptying", "removing"} /\ job'[j].at # job[j].at
           /\ ~rows[m].trashed /\ rows[m].folder = job[j].id /\ rows'[m].folder = Null)
            => m \in job[j].late
  BY DEF MediaInv, LateInv, HoldsLive
<1> QED
  BY <1>1, MediaInvAlways, PTL DEF EmptiedOfLatecomersOnly

(* The folders are a forest, and every walk up their parents ends, as long *)
(* as no move is written between the check and the write of another: the   *)
(* check of move (isDescendant) is enough for any number of folders and of *)
(* requests in flight, creations and deletions among them.                 *)
THEOREM WalksEndUnlessMovesCross == MediaSpec => []CircleNeedsCrossedMoves
<1>1. MediaInv => CircleNeedsCrossedMoves
  <2> SUFFICES ASSUME MediaInv, ~crossed, NEW f \in DOMAIN folders PROVE WalkEnds(f)
    BY DEF CircleNeedsCrossedMoves
  <2>1. Climb(f)[Size] = Null
    BY ClimbWalks, WalkLeaves DEF MediaInv, TreeInv, TableOK
  <2> QED
    BY <2>1 DEF WalkEnds, Size
<1> QED
  BY <1>1, MediaInvAlways, PTL

LEMMA NewLevels ==
  ASSUME MediaInv, MediaNext, ~crossed', NEW f \in DOMAIN folders', Level(f)' > MaxDepth,
         f \in DOMAIN folders => ~(Level(f) > MaxDepth)
  PROVE  \E g \in Ancestors(f) : folders[g].parent # folders'[g].parent
<1>1. /\ Rooted(folders) /\ Rooted(folders') /\ FolderSteps
      /\ JobsOK /\ TableOK /\ TargetsBorn /\ TreeInv
  BY TableSteps DEF MediaInv, TableOK
<1>2. Forest(folders')
  BY <1>1, TreeInvKept
<1>3. Forest(folders) /\ ~crossed /\ MovesKnow /\ DepthsKnown
  BY <1>1 DEF FolderSteps, FolderAdded, FolderMoved, TreeInv
<1>4. MaxDepth \in Nat /\ MaxDepth > 0
  BY MaxDepthPositive
<1>5. ASSUME NEW p \in DOMAIN folders \cup {Null}, folders'[f].parent = p,
             p # Null => Level(p) < MaxDepth /\ Level(p)' = Level(p)
      PROVE  FALSE
  <2>1. Walk(folders', f, Climb(f)') /\ Walk(folders', p, Climb(p)')
    BY ClimbWalks
  <2>2. Level(f)' = Level(p)' + 1 /\ Level(p)' \in Nat
    BY <1>1, <1>2, <1>5, <2>1, LengthOfChild, LevelIsLength
  <2>3. CASE p = Null
    <3>1. Level(p)' = 0
      BY <1>1, <1>2, <2>1, <2>3, LengthOfNull, LevelIsLength
    <3> QED
      BY <1>4, <2>2, <3>1
  <2>4. CASE p # Null
    BY <1>4, <1>5, <2>2, <2>4
  <2> QED
    BY <2>3, <2>4
<1>6. ASSUME f \in DOMAIN folders, Level(f)' = Level(f) PROVE FALSE
  BY <1>6
<1>7. CASE FolderKept
  <2>1. f \in DOMAIN folders
    BY <1>7 DEF FolderKept, Agree, Removed
  <2> QED
    BY <1>1, <1>6, <1>7, <2>1, UnmetLevels
<1>8. ASSUME NEW j \in Jobs, FolderAdded(j) PROVE FALSE
  <2> DEFINE new == NewFolder
  <2>1. /\ Added(folders, folders', new, job[j].to)
        /\ job[j].at = "creating" /\ ~job[j].raced
    BY <1>8 DEF FolderAdded
  <2> HIDE DEF new
  <2>2. CASE f = new
    <3>1. job[j].to \in DOMAIN folders \cup {Null} /\ folders'[f].parent = job[j].to
      BY <2>1, <2>2 DEF Added
    <3>2. SUFFICES ASSUME NEW p, p = job[j].to PROVE FALSE
      OBVIOUS
    <3>3. ASSUME p # Null PROVE p \in DOMAIN folders /\ p \in DOMAIN folders' /\ Level(p) < MaxDepth
      <4>1. p \in DOMAIN folders
        BY <3>1, <3>2, <3>3
      <4>2. p \in DOMAIN folders'
        BY <2>1, <4>1 DEF Added, Agree
      <4> QED
        BY <1>3, <2>1, <3>2, <4>1, <4>2 DEF DepthsKnown, Pending
    <3>4. p # Null => Level(p)' = Level(p)
      BY <1>1, <1>8, <3>3, UnmetLevels
    <3> QED
      BY <1>5, <3>1, <3>2, <3>3, <3>4
  <2>3. CASE f # new
    <3>1. f \in DOMAIN folders
      BY <2>1, <2>3 DEF Added, Agree
    <3> QED
      BY <1>1, <1>6, <1>8, <3>1, UnmetLevels
  <2> QED
    BY <2>2, <2>3
<1>9. ASSUME NEW j \in Jobs, FolderMoved(j)
      PROVE  \E g \in Ancestors(f) : folders[g].parent # folders'[g].parent
  <2>0. SUFFICES ASSUME NEW g, g = job[j].id, NEW p, p = job[j].to
                 PROVE  \E h \in Ancestors(f) : folders[h].parent # folders'[h].parent
    OBVIOUS
  <2>1. /\ Moved(folders, folders', g, p) /\ job[j].at = "moving" /\ ~job[j].raced
        /\ f \in DOMAIN folders /\ g \in DOMAIN folders /\ g # Null
    BY <1>1, <1>9, <2>0, NullIsNoFolder DEF FolderMoved, Moved, Agree, Rooted
  <2>2. Agree(folders, folders', {g}) /\ folders'[g].parent = p /\ p \in DOMAIN folders \cup {Null}
    BY <2>1 DEF Moved
  <2>3. CASE f = g
    <3>1. ASSUME p # Null
          PROVE  p \in DOMAIN folders /\ Level(p) < MaxDepth /\ Apart(folders, g, p)
      BY <1>3, <2>0, <2>1, <2>2, <3>1 DEF DepthsKnown, MovesKnow, Pending
    <3>2. ASSUME p # Null PROVE Level(p)' = Level(p)
      <4>1. PICK part \in SUBSET DOMAIN folders :
              g \in part /\ p \notin part /\ Closed(folders, part)
        BY <3>1, <3>2 DEF Apart
      <4>2. Null \notin part /\ Walk(folders, p, Climb(p))
        BY <1>1, NullIsNoFolder, ClimbWalks DEF Rooted
      <4>3. \A n \in 0 .. Size : Climb(p)[n] \notin part
        BY <4>1, <4>2, WalkAvoids
      <4>4. \A n \in 0 .. Size : Climb(p)[n] \notin {g}
        BY <4>1, <4>3
      <4> QED
        BY <2>2, <4>4, LevelKept
    <3> QED
      BY <1>5, <2>2, <2>3, <3>1, <3>2
  <2>4. CASE f # g /\ g \notin Ancestors(f)
    <3>1. \A n \in 0 .. Size : Climb(f)[n] \notin {g}
      <4> TAKE n \in 0 .. Size
      <4>1. CASE n = 0
        <5>1. Walk(folders, f, Climb(f))
          BY ClimbWalks
        <5> QED
          BY <2>4, <4>1, <5>1, WalkSteps
      <4>2. CASE n > 0
        BY <2>1, <2>4, <4>2, AncestorsMet
      <4> QED
        BY <4>1, <4>2, SizeIsNat
    <3>2. Level(f)' = Level(f)
      BY <2>2, <3>1, LevelKept
    <3> QED
      BY <1>6, <2>1, <3>2
  <2>5. CASE g \in Ancestors(f)
    <3>1. SUFFICES ASSUME folders[g].parent = folders'[g].parent PROVE FALSE
      BY <2>5
    <3>2. Agree(folders, folders', {})
      BY <2>1, <2>2, <3>1 DEF Agree, Moved
    <3>3. Level(f)' = Level(f)
      BY <3>2, LevelKept
    <3> QED
      BY <1>6, <2>1, <3>3
  <2> QED
    BY <2>3, <2>4, <2>5
<1> QED
  BY <1>1, <1>7, <1>8, <1>9 DEF FolderSteps

(* As long as no move is written between the check and the write of        *)
(* another, a folder comes to lie below MAX_DEPTH only because a folder    *)
(* above it was moved: creating a folder and moving it are checked well    *)
(* enough, whatever is created, renamed and deleted meanwhile              *)
(* (assertDepth).                                                          *)
THEOREM DepthOutgrownByMovesOnly == MediaSpec => TooDeepOnlyUnderAMove
<1>1. MediaInv /\ [MediaNext]_mediaVars =>
        [\A f \in DOMAIN folders' :
           (Level(f)' > MaxDepth /\ ~crossed' /\ ~(f \in DOMAIN folders /\ Level(f) > MaxDepth))
             => \E g \in Ancestors(f) : folders[g].parent # folders'[g].parent]_mediaVars
  BY NewLevels
<1> QED
  BY <1>1, MediaInvAlways, PTL DEF MediaSpec, TooDeepOnlyUnderAMove
=============================================================================
