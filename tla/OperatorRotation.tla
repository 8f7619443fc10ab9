--------------------------- MODULE OperatorRotation ---------------------------
(***************************************************************************)
(* The operator rotation of the chat: one Redis list whose head is the     *)
(* operator next in line, and the two operations of                        *)
(* OperatorRotationService that change it.  sync brings the list in line   *)
(* with a set of eligible operators; pickNext syncs and then rotates the   *)
(* list until an operator with spare capacity turns up.                    *)
(*                                                                         *)
(* The service keeps nothing in memory: every command is awaited, so the   *)
(* commands of several calls in flight interleave.  One command (LRANGE,   *)
(* the MULTI, LLEN, LMOVE) is one step here.                               *)
(***************************************************************************)
EXTENDS Integers, Sequences, FiniteSets, Functions

CONSTANTS
  Operators,   \* the operator ids
  Calls,       \* calls of sync and pickNext that can be in flight at once
  Nobody       \* the null answer

ASSUME OperatorsFinite == IsFiniteSet(Operators)
ASSUME NobodyIsNoOperator == Nobody \notin Operators

VARIABLES
  rotation,    \* the list chat:operator_rotation, head first
  call,        \* per call: where it stands and what it has read so far
  answer       \* per call: what its last pickNext returned

vars == <<rotation, call, answer>>

(* The orders in which eligible operators can be handed over: a Map's      *)
(* keys, so without repetition and in any order.                           *)
Orders ==
  {list \in UNION {[1 .. n -> Operators] : n \in 0 .. Cardinality(Operators)} :
     IsInjective(list)}

(* What LREM leaves: the list without the members of gone, in order.  The  *)
(* k-th entry left is the one with exactly k surviving places up to it.    *)
Survivors(list, gone) == {i \in DOMAIN list : list[i] \notin gone}

Rank(i, places) == Cardinality({j \in places : j <= i})

Without(list, gone) ==
  LET places == Survivors(list, gone)
  IN  [k \in 1 .. Cardinality(places) |->
         list[CHOOSE i \in places : Rank(i, places) = k]]

-----------------------------------------------------------------------------

Idle == [at |-> "idle", picks |-> FALSE, eligible |-> << >>, under |-> {},
         seen |-> {}, hops |-> 0]

Init ==
  /\ rotation = << >>
  /\ call = [c \in Calls |-> Idle]
  /\ answer = [c \in Calls |-> Nobody]

(* pickNext(eligibleIds, underCapacityIds); with nobody eligible it        *)
(* returns at once and touches nothing.                                    *)
PickNext(c) ==
  /\ call[c].at = "idle"
  /\ \E eligible \in Orders \ {<< >>} :
       \E under \in SUBSET Range(eligible) :
         call' = [call EXCEPT ![c] = [Idle EXCEPT !.at = "reading", !.picks = TRUE,
                                        !.eligible = eligible, !.under = under]]
  /\ answer' = [answer EXCEPT ![c] = Nobody]
  /\ UNCHANGED rotation

(* sync(eligibleIds), as broadcastQueue calls it on its own. *)
Sync(c) ==
  /\ call[c].at = "idle"
  /\ \E eligible \in Orders :
       call' = [call EXCEPT ![c] = [Idle EXCEPT !.at = "reading", !.eligible = eligible]]
  /\ answer' = [answer EXCEPT ![c] = Nobody]
  /\ UNCHANGED rotation

ReadMembers(c) ==
  /\ call[c].at = "reading"
  /\ call' = [call EXCEPT ![c].at = "writing", ![c].seen = Range(rotation)]
  /\ UNCHANGED <<rotation, answer>>

ToAdd(c) == Range(call[c].eligible) \ call[c].seen
ToRemove(c) == call[c].seen \ Range(call[c].eligible)

(* Mutants of Synced: LPUSH without the LREM before it, and a list rebuilt *)
(* from the callers' order instead of patched.                             *)
PushedUnguarded(c) ==
  Without(call[c].eligible, call[c].seen) \o Without(rotation, ToRemove(c))
RebuiltList(c) == call[c].eligible

(* The MULTI: LREM of who left, then LREM and LPUSH of each newcomer in    *)
(* reverse, which puts the newcomers in front in their own order.  Without *)
(* newcomers or leavers no MULTI is sent and the list stays as it is.      *)
Synced(c) ==
  Without(call[c].eligible, call[c].seen) \o Without(rotation, ToRemove(c) \cup ToAdd(c))

WriteMembers(c) ==
  /\ call[c].at = "writing"
  /\ rotation' = IF ToAdd(c) \cup ToRemove(c) = {} THEN rotation ELSE Synced(c)
  /\ call' = [call EXCEPT ![c] =
                 IF @.picks THEN [Idle EXCEPT !.at = "measuring", !.picks = TRUE, !.under = call[c].under]
                            ELSE Idle]
  /\ UNCHANGED answer

Return(c, who) ==
  /\ answer' = [answer EXCEPT ![c] = who]
  /\ call' = [call EXCEPT ![c] = Idle]

(* Mutant of ReadLength: one rotation too few. *)
ReadLengthShort(c) ==
  /\ call[c].at = "measuring"
  /\ IF Len(rotation) <= 1
       THEN Return(c, Nobody)
       ELSE /\ call' = [call EXCEPT ![c].at = "rotating", ![c].hops = Len(rotation) - 1]
            /\ UNCHANGED answer
  /\ UNCHANGED rotation

ReadLength(c) ==
  /\ call[c].at = "measuring"
  /\ IF rotation = << >>
       THEN Return(c, Nobody)
       ELSE /\ call' = [call EXCEPT ![c].at = "rotating", ![c].hops = Len(rotation)]
            /\ UNCHANGED answer
  /\ UNCHANGED rotation

(* Mutant of Rotated: the head is read and left where it is. *)
Peeked(list) == list

(* LMOVE of the list onto itself: the head becomes the tail. *)
Rotated(list) == Append(Tail(list), Head(list))

(* One LMOVE of pickNext's loop: the operator that was at the head is chosen if
   it is in the pool, otherwise the loop goes on until its attempts are used. *)
RotateOnce(c) ==
  /\ call[c].at = "rotating"
  /\ rotation # << >>
  /\ rotation' = Rotated(rotation)
  /\ IF Head(rotation) \in call[c].under
       THEN Return(c, Head(rotation))
       ELSE IF call[c].hops > 1
              THEN /\ call' = [call EXCEPT ![c].hops = @ - 1]
                   /\ UNCHANGED answer
              ELSE Return(c, Nobody)

(* A concurrent sync emptied the list. *)
RotateEmpty(c) ==
  /\ call[c].at = "rotating"
  /\ rotation = << >>
  /\ Return(c, Nobody)
  /\ UNCHANGED rotation

Step(c) ==
  \/ ReadMembers(c) \/ WriteMembers(c) \/ ReadLength(c) \/ RotateOnce(c) \/ RotateEmpty(c)

Next == \E c \in Calls : PickNext(c) \/ Sync(c) \/ Step(c)

Spec == Init /\ [][Next]_vars

-----------------------------------------------------------------------------

CallType ==
  [at : {"idle", "reading", "writing", "measuring", "rotating"},
   picks : BOOLEAN,
   eligible : Orders,
   under : SUBSET Operators,
   seen : SUBSET Operators,
   hops : Nat]

(* Every variable ranges over the values the service can hold. *)
TypeOK ==
  /\ rotation \in Seq(Operators)
  /\ call \in [Calls -> CallType]
  /\ answer \in [Calls -> Operators \cup {Nobody}]

(* No operator stands in line twice, whatever the order in which the       *)
(* commands of concurrent syncs reach Redis (the race the comment in sync  *)
(* describes): LREM before LPUSH makes the second add replace the first.   *)
NoOperatorTwice == IsInjective(rotation)

(* A sync disturbs the order of nobody but those it adds: of two operators *)
(* who were in line and stay, one gets ahead of the other only as a        *)
(* newcomer of that sync, or by the other's turn at the head (LMOVE).      *)
Before(list, a, b) ==
  \E i, j \in DOMAIN list : i < j /\ list[i] = a /\ list[j] = b

OvertakesOnlyAsNewcomer ==
  \A a, b \in Operators :
    (Before(rotation, a, b) /\ Before(rotation', b, a)) =>
      \/ rotation' = Rotated(rotation) /\ a = Head(rotation)
      \/ \E c \in Calls : call[c].at = "writing" /\ call'[c] # call[c] /\ b \in ToAdd(c)

OrderOfOthersKept == [][OvertakesOnlyAsNewcomer]_vars
=============================================================================
