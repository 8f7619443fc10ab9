---------------------------- MODULE RotationTurns ----------------------------
(***************************************************************************)
(* The fairness that docs/chat.md promises of the rotation, over the       *)
(* history of picks: nobody gets a second chat while somebody else who     *)
(* could have taken it is still waiting for a first one.                   *)
(***************************************************************************)
EXTENDS OperatorRotation

VARIABLES
  passedOver,  \* per operator, who was picked while it stood by, eligible and
               \* under capacity, since its own last turn
  alone        \* no two calls have been in flight at once: the promise is for
               \* calls that come one after the other

turnVars == <<vars, passedOver, alone>>

NoRecords == [o \in Operators |-> {}]

InitTurns ==
  /\ Init
  /\ passedOver = NoRecords /\ alone = TRUE

Picks(c) == call[c].at = "rotating" /\ rotation # << >> /\ Head(rotation) \in call[c].under

(* A pick passes over those who stood by once more; everyone else (picked, *)
(* at capacity or not eligible) starts afresh.                             *)
PickOne(c) ==
  LET who == Head(rotation) IN
    /\ Picks(c) /\ RotateOnce(c)
    /\ passedOver' = [o \in Operators |->
                        IF o \in call[c].under \ {who} THEN passedOver[o] \cup {who} ELSE {}]

(* Newcomers go to the front by right: they leave the others' records, and *)
(* whoever leaves the line gives up its claim.                             *)
SyncLine(c) ==
  /\ WriteMembers(c)
  /\ passedOver' = [o \in Operators |->
                      IF o \in ToRemove(c) \cup ToAdd(c) THEN {} ELSE passedOver[o] \ ToAdd(c)]

(* A call that begins while another is in flight ends the record keeping.  *)
Start(c) ==
  /\ PickNext(c) \/ Sync(c)
  /\ alone' = (\A d \in Calls \ {c} : call[d].at = "idle")
  /\ passedOver' = IF alone' THEN passedOver ELSE NoRecords

Otherwise(c) ==
  /\ \/ ReadMembers(c) \/ ReadLength(c) \/ RotateEmpty(c)
     \/ ~Picks(c) /\ RotateOnce(c)
  /\ UNCHANGED passedOver

AloneNext ==
  /\ alone
  /\ \E c \in Calls :
       \/ Start(c)
       \/ (PickOne(c) \/ SyncLine(c) \/ Otherwise(c)) /\ UNCHANGED alone

CrossedNext == ~alone /\ Next /\ UNCHANGED <<passedOver, alone>>

NextTurns == AloneNext \/ CrossedNext

TurnSpec == InitTurns /\ [][NextTurns]_turnVars

(* While one call runs at a time, a pick never goes to an operator who was *)
(* already picked while somebody still standing by, eligible and under     *)
(* capacity, was passed over (docs/chat.md: "nobody gets a second new chat *)
(* until everyone ahead of them in line has had a turn").                  *)
TurnsAreFair ==
  [][alone => \A c \in Calls : PickOne(c) =>
       \A o \in call[c].under : Head(rotation) \notin passedOver[o]]_turnVars

(* A pickNext that comes back with null has found nobody under capacity    *)
(* in line: "if nobody in that many pops is under capacity, nobody is".    *)
(* With two in flight a rotation of one moves what the other has to see.   *)
NullOnlyWhenAllBusy ==
  [][alone => \A c \in Calls :
       (call[c].picks /\ call'[c].at = "idle" /\ call[c].at # "idle" /\ answer'[c] = Nobody)
         => call[c].under \cap Range(rotation') = {}]_turnVars
=============================================================================
