---------------------------- MODULE MCMediaLibrary ----------------------------
(* The library on small instances: two requests in flight over two folders *)
(* or over one folder and a file, and one at a time over four folders of   *)
(* one name.                                                               *)
EXTENDS MediaLibrary, TLC

Symmetry == Permutations(Jobs) \cup Permutations(Slugs)

OneAtATime == \A i, j \in Jobs : job[i].at # "idle" /\ job[j].at # "idle" => i = j

Names ==
  {folders[f].slug : f \in DOMAIN folders} \cup ({job[j].slug : j \in Jobs} \ {Null})

(* Directories can nest without end; two levels below a folder are enough. *)
ShortPaths == \A m \in DOMAIN disk : Len(disk[m]) <= 3

Bound ==
  /\ ShortPaths
  /\ \/ Cardinality(bornFolders) + Cardinality(bornFiles) <= 2
     \/ OneAtATime /\ bornFiles = {} /\ Cardinality(Names) = 1
=============================================================================
