------------------------- MODULE CollabGroupsProofs -------------------------
(***************************************************************************)
(* Theorems about CollabGroups, for any users, policies and updates and    *)
(* any number of groups, runners and failures: its type invariant, that    *)
(* only the named events lose an acknowledged update, and that it          *)
(* implements CollabDocument.                                              *)
(***************************************************************************)
EXTENDS CollabGroups, SequenceTheorems, TLAPS

(* Subscribers are those of the group there is, and a runner that is alone *)
(* enters a group only where there is none.                                *)
OneGroup ==
  /\ \A u \in Users : at[u] = "in" => open
  /\ MaxRunners = 1 => \A r \in Runners : ~Idle(r) => ~open

(* A runner has a document to enter when it has read one.                  *)
Blank == \A r \in Runners : runner[r].step # "enter" => runner[r].doc = {}

(* What is written over is in what is written: in the document of the      *)
(* group, and in a flush no reading has overtaken.                         *)
Covers ==
  /\ open => Readable \subseteq doc \cup excused
  /\ \A f \in flushes : ~f.overtaken => Readable \subseteq f.doc \cup excused

(* There is one such flush at most, and none beside a group or a runner    *)
(* that will enter one.                                                    *)
Latest ==
  /\ \A f, g \in flushes : ~f.overtaken /\ ~g.overtaken => f = g
  /\ \A f \in flushes : open \/ (\E r \in Runners : HasRead(r)) => f.overtaken

(* A flush that was overtaken brings nothing that is not excused or in the *)
(* document that is to be written after it.                                *)
Overtaken ==
  \A f \in flushes : f.overtaken =>
    /\ open => f.doc \subseteq doc \cup excused
    /\ \A g \in flushes : ~g.overtaken => f.doc \subseteq g.doc \cup excused

(* So does a runner that has read: the group it enters writes over nothing *)
(* that is not excused or in its document.                                 *)
ReadDocs ==
  \A r \in Runners : HasRead(r) =>
    /\ Readable \subseteq runner[r].doc \cup excused
    /\ \A f \in flushes : f.doc \subseteq runner[r].doc \cup excused

(* A snapshot is no newer than what would be read instead, and nothing that *)
(* redis may have is newer than what is kept.                              *)
SnapshotOld == snapshot \subseteq Readable \cup excused
VersionsOld == \A v \in versions : v \subseteq Kept \cup excused

LossInv ==
  /\ OneGroup /\ Blank /\ Covers /\ Latest /\ Overtaken /\ ReadDocs /\ SnapshotOld
  /\ VersionsOld /\ LossExplained
GroupsInv == TypeOK /\ LossInv

-----------------------------------------------------------------------------
(* What the channel of a runner holds stays a sequence of users.           *)
LEMMA CommandFacts ==
  ASSUME TypeOK, NEW r \in Runners
  PROVE  /\ \A u \in Users : Append(commands[r], u) \in Seq(Users)
         /\ commands[r] # <<>> => Head(commands[r]) \in Users /\ Tail(commands[r]) \in Seq(Users)
<1>1. commands[r] \in Seq(Users)
  BY DEF TypeOK
<1>2. QED
  BY <1>1, AppendProperties, HeadTailProperties

(* The user that fills in for nobody is a user.                            *)
LEMMA NobodyIsUser == Nobody \in Users /\ AtRest \in Runner /\ 1 \in Runners
BY GroupsAssumption DEF Nobody, AtRest, Runner, Runners

(* What can be read are updates.                                           *)
LEMMA ReadableType ==
  ASSUME TypeOK
  PROVE  Readable \subseteq Updates /\ get_latest_snapshot \subseteq Updates
BY DEF TypeOK, Readable, get_latest_snapshot

(* What is kept, element by element.                                       *)
KeptMembers ==
  \A x : x \in Kept <=>
    \/ open /\ x \in doc
    \/ \E f \in flushes : x \in f.doc
    \/ x \in Readable

(* It is the union of the three.                                           *)
LEMMA KeptIs == KeptMembers
<1> SUFFICES ASSUME NEW x
             PROVE  x \in Kept <=> \/ open /\ x \in doc
                                   \/ \E f \in flushes : x \in f.doc
                                   \/ x \in Readable
  BY DEF KeptMembers
<1> DEFINE InGroup == IF open THEN doc ELSE {}
           InFlush == UNION {f.doc : f \in flushes}
<1>1. x \in InGroup <=> open /\ x \in doc
  OBVIOUS
<1>2. x \in InFlush <=> \E f \in flushes : x \in f.doc
  OBVIOUS
<1>3. Kept = InGroup \cup InFlush \cup Readable
  BY DEF Kept
<1> HIDE DEF InGroup, InFlush
<1>4. QED
  BY <1>1, <1>2, <1>3

(* So it is after a step.                                                  *)
LEMMA KeptIsNext == KeptMembers'
BY KeptIs, PTL

(* What is kept are updates.                                               *)
LEMMA KeptType ==
  ASSUME TypeOK
  PROVE  Kept \subseteq Updates
<1>1. \A f \in flushes : f.doc \subseteq Updates
  BY DEF TypeOK, Flush
<1>2. doc \subseteq Updates
  BY DEF TypeOK
<1>3. QED
  BY <1>1, <1>2, KeptIs, ReadableType DEF KeptMembers

(* Overtaken flushes have the documents they had.                          *)
LEMMA OvertakeFacts ==
  ASSUME TypeOK, Overtake
  PROVE  /\ flushes' \subseteq Flush
         /\ \A g \in flushes' : g.overtaken /\ \E f \in flushes : f.doc = g.doc
         /\ \A f \in flushes : \E g \in flushes' : f.doc = g.doc
<1> DEFINE After(f) == [f EXCEPT !.overtaken = TRUE]
<1>1. \A f \in flushes : After(f) \in Flush /\ After(f).overtaken /\ After(f).doc = f.doc
  BY DEF TypeOK, Flush
<1>2. flushes' = {After(f) : f \in flushes}
  BY DEF Overtake
<1> HIDE DEF After
<1>3. \A g \in flushes' : \E f \in flushes : g = After(f)
  BY <1>2
<1>4. \A f \in flushes : After(f) \in flushes'
  BY <1>2
<1>5. flushes' \subseteq Flush
  BY <1>1, <1>3
<1>6. \A g \in flushes' : g.overtaken /\ \E f \in flushes : f.doc = g.doc
  BY <1>1, <1>3
<1>7. \A f \in flushes : \E g \in flushes' : f.doc = g.doc
  BY <1>1, <1>4
<1>8. QED
  BY <1>5, <1>6, <1>7

(* What joining adds to a client's document.                               *)
LEMMA LearnFacts ==
  ASSUME TypeOK, NEW u \in Users, NEW content \in SUBSET Updates, Learn(u, content)
  PROVE  /\ local' \in [Users -> SUBSET Updates]
         /\ \E reply \in {{}, content} : local' = [local EXCEPT ![u] = @ \cup reply]
         /\ \A v \in Users : local[v] \subseteq local'[v]
<1>1. local \in [Users -> SUBSET Updates]
  BY DEF TypeOK
<1>2. local = [local EXCEPT ![u] = @ \cup {}]
  BY <1>1
<1>3. \E reply \in {{}, content} : local' = [local EXCEPT ![u] = @ \cup reply]
  BY <1>2 DEF Learn
<1>4. PICK reply \in {{}, content} : local' = [local EXCEPT ![u] = local[u] \cup reply]
  BY <1>3
<1>5. reply \subseteq Updates
  BY <1>4
<1>6. local' \in [Users -> SUBSET Updates] /\ \A v \in Users : local[v] \subseteq local'[v]
  BY <1>1, <1>4, <1>5
<1>7. QED
  BY <1>3, <1>6

(* What a runner does when the sender of the first is forgotten is what    *)
(* some runner did, or nothing.                                            *)
LEMMA ForgetFacts ==
  ASSUME TypeOK, ForgetSender
  PROVE  /\ runner' \in [Runners -> Runner] /\ commands' \in [Runners -> Seq(Users)]
         /\ \A q \in Runners : runner'[q] = AtRest \/ \E p \in Runners : runner'[q] = runner[p]
<1>1. PICK r \in Runners : /\ commands' = [commands EXCEPT ![1] = <<>>, ![r] = commands[1]]
                          /\ runner' = [runner EXCEPT ![1] = AtRest, ![r] = runner[1]]
  BY DEF ForgetSender
<1>2. commands' \in [Runners -> Seq(Users)]
  <2>1. <<>> \in Seq(Users) /\ commands \in [Runners -> Seq(Users)] /\ commands[1] \in Seq(Users)
    BY NobodyIsUser DEF TypeOK
  <2> DEFINE S == Seq(Users)
  <2> HIDE DEF S
  <2>2. \A x, y \in S : \A c \in [Runners -> S] : [c EXCEPT ![1] = x, ![r] = y] \in [Runners -> S]
    OBVIOUS
  <2>3. QED
    BY <1>1, <2>1, <2>2 DEF S
<1>3. runner' \in [Runners -> Runner]
  BY <1>1, NobodyIsUser DEF TypeOK
<1>4. \A q \in Runners : runner'[q] \in {AtRest, runner[1], runner[q]}
  BY <1>1 DEF TypeOK
<1>5. QED
  BY <1>2, <1>3, <1>4, NobodyIsUser

-----------------------------------------------------------------------------
(* The type invariant, step by step.                                       *)
LEMMA TypeStep ==
  ASSUME TypeOK, [Next]_vars
  PROVE  TypeOK'
<1> USE GroupsAssumption DEF TypeOK, clientVars, groupVars, storageVars
<1>a. Nobody \in Users /\ AtRest \in Runner /\ 1 \in Runners
      /\ Readable \subseteq Updates /\ get_latest_snapshot \subseteq Updates
      /\ Kept \subseteq Updates
  BY NobodyIsUser, ReadableType, KeptType
<1>b. (UNION {f.doc : f \in flushes}) \subseteq Updates
  BY DEF Flush
<1>1. ASSUME NEW u \in Users, Open(u) PROVE TypeOK'
  <2>1. commands' \in [Runners -> Seq(Users)]
    BY <1>1, CommandFacts DEF Open
  <2>2. QED
    BY <1>1, <2>1 DEF Open
<1>2. ASSUME NEW u \in Users, Leave(u) \/ Rejoin(u) PROVE TypeOK'
  BY <1>2 DEF Leave, Rejoin
<1>3. ASSUME NEW u \in Users, NEW e \in Updates, Edit(u, e) PROVE TypeOK'
  BY <1>3 DEF Edit
<1>4. ASSUME NEW u \in Users, NEW e \in Updates, ApplyUpdate(u, e) PROVE TypeOK'
  BY <1>4 DEF ApplyUpdate
<1>5. ASSUME NEW u \in Users, Broadcast(u) PROVE TypeOK'
  BY <1>5 DEF Broadcast
<1>c. ASSUME NEW r \in Runners, Takes(r)
      PROVE  Head(commands[r]) \in Users /\ commands' \in [Runners -> Seq(Users)]
  BY <1>c, CommandFacts DEF Takes
<1>6. ASSUME NEW r \in Runners, HandleUnconnected(r) PROVE TypeOK'
  BY <1>6, <1>c DEF HandleUnconnected
<1>7. ASSUME NEW r \in Runners, HandleInGroup(r) PROVE TypeOK'
  <2>1. Head(commands[r]) \in Users /\ commands' \in [Runners -> Seq(Users)]
    BY <1>7, <1>c DEF HandleInGroup
  <2>2. local' \in [Users -> SUBSET Updates]
    BY <1>7, <2>1, LearnFacts DEF HandleInGroup
  <2>3. at' \in [Users -> {"away", "asking", "in", "dropped"}]
    BY <1>7 DEF HandleInGroup
  <2>4. QED
    BY <1>7, <2>1, <2>2, <2>3 DEF HandleInGroup
<1>8. ASSUME NEW r \in Runners, create_group(r) PROVE TypeOK'
  <2>1. Head(commands[r]) \in Users /\ commands' \in [Runners -> Seq(Users)]
    BY <1>8, <1>c DEF create_group
  <2>2. runner' \in [Runners -> Runner]
    BY <1>8, <2>1 DEF create_group, Runner
  <2>3. created' \in 0 .. MaxGroups
    BY <1>8 DEF create_group
  <2>4. QED
    BY <1>8, <2>1, <2>2, <2>3 DEF create_group
<1>d. ASSUME NEW r \in Runners, NEW content \in SUBSET Updates, Loads(r, content)
      PROVE  runner' \in [Runners -> Runner]
  <2>1. \A x \in Runner : [x EXCEPT !.step = "enter", !.doc = content] \in Runner
    BY DEF Runner
  <2>2. runner' = [runner EXCEPT ![r] = [runner[r] EXCEPT !.step = "enter", !.doc = content]]
    BY <1>d DEF Loads
  <2>3. QED
    BY <2>1, <2>2
<1>g. ASSUME NEW r \in Runners, NEW step \in {"insert", "enter"},
             runner' = [runner EXCEPT ![r].step = step]
      PROVE  runner' \in [Runners -> Runner]
  <2>1. \A x \in Runner : [x EXCEPT !.step = step] \in Runner
    BY DEF Runner
  <2>2. QED
    BY <1>g, <2>1
<1>e. ASSUME NEW r \in Runners PROVE runner[r].user \in Users /\ runner[r].doc \subseteq Updates
  BY DEF Runner
<1>9. ASSUME NEW r \in Runners, InitLoads(r) PROVE TypeOK'
  <2>1. excused' \subseteq Updates
    BY <1>9, <1>b DEF InitLoads, ExcuseFlushes, Excuse
  <2>2. runner' \in [Runners -> Runner] /\ flushes' \subseteq Flush
    BY <1>9, <1>d, OvertakeFacts DEF InitLoads
  <2>3. QED
    BY <1>9, <2>1, <2>2 DEF InitLoads
<1>10. ASSUME NEW r \in Runners, InitLoadsCached(r) PROVE TypeOK'
  <2>1. PICK content \in versions : Loads(r, content) /\ snapshot' \in {snapshot, content}
    BY <1>10 DEF InitLoadsCached
  <2>2. /\ runner' \in [Runners -> Runner] /\ flushes' \subseteq Flush
        /\ snapshot' \subseteq Updates /\ excused' \subseteq Updates
    BY <1>10, <1>a, <1>d, <2>1, OvertakeFacts DEF InitLoadsCached
  <2>3. faults' \in 0 .. MaxFaults
    BY <1>10 DEF InitLoadsCached, Fault
  <2>4. QED
    BY <1>10, <2>2, <2>3 DEF InitLoadsCached
<1>11. ASSUME NEW r \in Runners, InitRestores(r) PROVE TypeOK'
  <2>1. excused' \subseteq Updates
    BY <1>11, <1>b DEF InitRestores, ExcuseFlushes, Excuse
  <2>2. runner' \in [Runners -> Runner] /\ flushes' \subseteq Flush
    BY <1>11, <1>a, <1>d, OvertakeFacts DEF InitRestores
  <2>3. QED
    BY <1>11, <2>1, <2>2 DEF InitRestores
<1>12. ASSUME NEW r \in Runners, InitFails(r) PROVE TypeOK'
  <2>1. faults' \in 0 .. MaxFaults
    BY <1>12 DEF InitFails, Fault
  <2>2. runner' \in [Runners -> Runner] /\ flushes' \subseteq Flush /\ excused' \subseteq Updates
    BY <1>12, <1>a, <1>d, OvertakeFacts DEF InitFails
  <2>3. QED
    BY <1>12, <2>1, <2>2 DEF InitFails
<1>13. ASSUME NEW r \in Runners, InitFindsNone(r) PROVE TypeOK'
  <2>1. runner' \in [Runners -> Runner] /\ flushes' \subseteq Flush
    BY <1>13, <1>g, OvertakeFacts DEF InitFindsNone
  <2>2. excused' \subseteq Updates
    BY <1>13, <1>b DEF InitFindsNone, ExcuseFlushes, Excuse
  <2>3. QED
    BY <1>13, <2>1, <2>2 DEF InitFindsNone
<1>f. ASSUME NEW uid \in Users PROVE Policies(uid) \subseteq Users
  BY DEF Policies
<1>14. ASSUME NEW r \in Runners, insert_new_collab(r) PROVE TypeOK'
  <2>1. runner' \in [Runners -> Runner]
    BY <1>14, <1>g DEF insert_new_collab
  <2>2. /\ row' \in {"none", "ok", "bad"} /\ stored' \subseteq Updates /\ snapshot' \subseteq Updates
        /\ versions' \subseteq SUBSET Updates
        /\ writers' \subseteq Users /\ faults' \in 0 .. MaxFaults
    <3>1. CASE Store(runner[r].user, {}) /\ UNCHANGED faults
      BY <1>e, <1>f, <3>1 DEF Store
    <3>2. CASE Refuse(runner[r].user) /\ UNCHANGED faults
      BY <1>e, <1>f, <3>2 DEF Refuse
    <3>3. CASE Fault /\ UNCHANGED storageVars
      BY <3>3 DEF Fault
    <3>4. QED
      BY <1>14, <3>1, <3>2, <3>3 DEF insert_new_collab
  <2>3. QED
    BY <1>14, <2>1, <2>2 DEF insert_new_collab
<1>15. ASSUME NEW r \in Runners, InsertGroup(r) PROVE TypeOK'
  <2>1. /\ runner' \in [Runners -> Runner]
        /\ open' \in BOOLEAN /\ doc' \subseteq Updates /\ creator' \in Users
        /\ excused' \subseteq Updates
    BY <1>15, <1>a, <1>e DEF InsertGroup
  <2>2. local' \in [Users -> SUBSET Updates]
    BY <1>15, <1>e, LearnFacts DEF InsertGroup
  <2>3. at' \in [Users -> {"away", "asking", "in", "dropped"}]
    BY <1>15 DEF InsertGroup
  <2>4. QED
    BY <1>15, <2>1, <2>2, <2>3 DEF InsertGroup
<1>16. CASE RemoveInactiveGroup
  <2>1. flush \in Flush
    BY DEF flush, Flush
  <2>2. excused' \subseteq Updates
    BY <1>16 DEF RemoveInactiveGroup, Excuse
  <2>3. versions' \subseteq SUBSET Updates
    BY <1>16 DEF RemoveInactiveGroup
  <2>4. QED
    BY <1>16, <1>a, <2>1, <2>2, <2>3 DEF RemoveInactiveGroup
<1>17. CASE ForgetSender
  BY <1>17, ForgetFacts DEF ForgetSender
<1>18. ASSUME NEW f \in flushes, EndFlush(f) PROVE TypeOK'
  <2>1. f.doc \subseteq Updates /\ f.uid \in Users
    BY DEF Flush
  <2>2. CASE FlushWrites(f)
    <3>1. /\ row' = "ok" /\ stored' = f.doc /\ snapshot' = snapshot /\ writers' \subseteq Users
          /\ versions' \subseteq SUBSET Updates
      BY <2>1, <2>2, <1>f DEF FlushWrites, Store
    <3>2. excused' \subseteq Updates
      BY <2>2, <1>a DEF FlushWrites
    <3>3. QED
      BY <2>1, <2>2, <3>1, <3>2 DEF FlushWrites
  <2>3. CASE FlushRefused(f)
    <3>1. UNCHANGED <<row, stored, snapshot, versions>> /\ writers' \subseteq Users
      BY <2>1, <2>3, <1>f DEF FlushRefused, Refuse
    <3>2. excused' \subseteq Updates
      BY <2>1, <2>3 DEF FlushRefused, Excuse
    <3>3. QED
      BY <2>3, <3>1, <3>2 DEF FlushRefused
  <2>4. CASE FlushFails(f)
    BY <2>1, <2>4 DEF FlushFails, Fault, Excuse
  <2>5. QED
    BY <1>18, <2>2, <2>3, <2>4 DEF EndFlush
<1>19. CASE Corrupt
  BY <1>19 DEF Corrupt, Fault
<1>20. CASE Crash
  <2>1. /\ runner' \in [Runners -> Runner] /\ creator' \in Users
        /\ retiring' \in BOOLEAN
    BY <1>20, <1>a DEF Crash
  <2>2. commands' \in [Runners -> Seq(Users)]
    BY <1>20 DEF Crash
  <2>3. excused' \subseteq Updates
    BY <1>20, <1>a DEF Crash, Excuse
  <2>4. at' \in [Users -> {"away", "asking", "in", "dropped"}]
    BY <1>20 DEF Crash
  <2>5. faults' \in 0 .. MaxFaults
    BY <1>20 DEF Crash, Fault
  <2>6. open' \in BOOLEAN /\ doc' \subseteq Updates /\ flushes' \subseteq Flush
    BY <1>20 DEF Crash
  <2>7. QED
    BY <1>20, <2>1, <2>2, <2>3, <2>4, <2>5, <2>6 DEF Crash
<1>21. CASE UNCHANGED vars
  BY <1>21 DEF vars
<1>22. QED
  BY <1>1, <1>2, <1>3, <1>4, <1>5, <1>6, <1>7, <1>8, <1>9, <1>10, <1>11, <1>12, <1>13, <1>14,
     <1>15, <1>16, <1>17, <1>18, <1>19, <1>20, <1>21 DEF Next, Serve, HandleCommand, Initialize

-----------------------------------------------------------------------------
(* A step that drops nothing but what it excuses.                          *)
LEMMA GrownStep ==
  ASSUME LossInv, excused \subseteq excused', Kept \subseteq Kept' \cup excused',
         acked' \subseteq acked \cup Kept',
         \A v \in versions' : v \in versions \/ v \subseteq Kept' \cup excused'
  PROVE  LossExplained' /\ VersionsOld'
<1>1. LossExplained'
  BY DEF LossInv, LossExplained
<1>2. VersionsOld'
  BY DEF LossInv, VersionsOld
<1>3. QED
  BY <1>1, <1>2

(* Steps that leave documents and flushes alone.                           *)
LEMMA QuietStep ==
  ASSUME LossInv, OneGroup', Blank',
         UNCHANGED <<open, doc, flushes, row, stored, snapshot, versions, acked, excused>>,
         \A q \in Runners : HasRead(q)' =>
           \E p \in Runners : HasRead(p) /\ runner'[q].doc = runner[p].doc
  PROVE  LossInv'
<1>1. Readable' = Readable /\ Kept' = Kept
  BY DEF Readable, get_latest_snapshot, Kept
<1>2. Covers' /\ Latest' /\ Overtaken' /\ SnapshotOld'
  BY <1>1 DEF LossInv, Covers, Latest, Overtaken, SnapshotOld
<1>3. ReadDocs'
  BY <1>1 DEF LossInv, ReadDocs
<1>4. LossExplained' /\ VersionsOld'
  BY <1>1, GrownStep
<1>5. QED
  BY <1>2, <1>3, <1>4 DEF LossInv

(* So do those that leave the runners alone too.                           *)
LEMMA StillStep ==
  ASSUME LossInv, OneGroup',
         UNCHANGED <<runner, open, doc, flushes, row, stored, snapshot, versions, acked, excused>>
  PROVE  LossInv'
<1>1. Blank' /\ \A q \in Runners : HasRead(q)' =>
                  \E p \in Runners : HasRead(p) /\ runner'[q].doc = runner[p].doc
  BY DEF LossInv, Blank, HasRead
<1>2. QED
  BY <1>1, QuietStep

(* A reading overtakes every flush, and what they have and what was read   *)
(* has not is excused.                                                     *)
LEMMA ReadStep ==
  ASSUME GroupsInv, NEW r \in Runners, NEW content, NEW step \in {"insert", "enter"},
         runner[r].step = "load",
         runner' = [runner EXCEPT ![r] = [runner[r] EXCEPT !.step = step, !.doc = content]],
         step = "insert" => content = {},
         Overtake, UNCHANGED <<at, open, doc, versions, acked>>,
         snapshot' \subseteq Readable \cup excused',
         excused \subseteq excused',
         Readable \subseteq content \cup excused',
         \A f \in flushes : f.doc \subseteq content \cup excused',
         Readable' \subseteq Readable \cup excused',
         Readable \subseteq Readable' \cup excused'
  PROVE  LossInv'
<1> USE DEF GroupsInv, LossInv
<1>1. /\ runner'[r].step = step /\ runner'[r].doc = content
      /\ \A q \in Runners \ {r} : runner'[q] = runner[q]
  BY DEF TypeOK, Runner
<1>2. OneGroup' /\ Blank'
  BY <1>1 DEF OneGroup, Blank, Idle
<1>3. /\ \A g \in flushes' : g.overtaken /\ \E f \in flushes : f.doc = g.doc
      /\ \A f \in flushes : \E g \in flushes' : f.doc = g.doc
  BY OvertakeFacts
<1>4. Covers' /\ Latest'
  BY <1>3 DEF Covers, Latest
<1>5. Overtaken'
  <2>1. open => \A f \in flushes : f.doc \subseteq doc \cup excused
    BY DEF Latest, Overtaken
  <2>2. QED
    BY <1>3, <2>1 DEF Overtaken
<1>6. ReadDocs'
  <2> SUFFICES ASSUME NEW q \in Runners, HasRead(q)'
               PROVE  /\ Readable' \subseteq runner'[q].doc \cup excused'
                      /\ \A f \in flushes' : f.doc \subseteq runner'[q].doc \cup excused'
    BY DEF ReadDocs
  <2>1. CASE q = r
    BY <1>1, <1>3, <2>1
  <2>2. CASE q # r
    <3>1. HasRead(q) /\ runner'[q].doc = runner[q].doc
      BY <1>1, <2>2 DEF HasRead
    <3>2. QED
      BY <1>3, <3>1 DEF ReadDocs
  <2>3. QED
    BY <2>1, <2>2
<1>7. SnapshotOld'
  BY DEF SnapshotOld
<1>8. Kept \subseteq Kept' \cup excused'
  <2> SUFFICES ASSUME NEW x \in Kept, x \notin excused' PROVE x \in Kept'
    OBVIOUS
  <2>1. (open' /\ x \in doc') \/ (\E g \in flushes' : x \in g.doc) \/ x \in Readable'
    BY <1>3, KeptIs DEF KeptMembers
  <2>2. QED
    BY <2>1, KeptIsNext DEF KeptMembers
<1>9. LossExplained' /\ VersionsOld'
  BY <1>8, GrownStep
<1>10. QED
  BY <1>2, <1>4, <1>5, <1>6, <1>7, <1>9

(* The insertion of a group excuses what it replaces.                      *)
LEMMA InsertGroupStep ==
  ASSUME GroupsInv, NEW r \in Runners, InsertGroup(r)
  PROVE  LossInv'
<1> USE DEF GroupsInv, LossInv
<1>1. /\ runner[r].step = "enter" /\ runner' = [runner EXCEPT ![r] = AtRest]
      /\ open' /\ doc' = runner[r].doc
      /\ excused' = IF open THEN excused \cup (doc \ runner[r].doc) ELSE excused
      /\ UNCHANGED <<flushes, row, stored, snapshot, versions, acked>>
  BY DEF InsertGroup, storageVars
<1>2. /\ runner'[r] = AtRest /\ \A q \in Runners \ {r} : runner'[q] = runner[q]
      /\ Readable' = Readable /\ excused \subseteq excused'
      /\ open => doc \subseteq doc' \cup excused'
  BY <1>1 DEF TypeOK, Readable, get_latest_snapshot
<1>3. /\ Readable \subseteq doc' \cup excused'
      /\ \A f \in flushes : f.overtaken /\ f.doc \subseteq doc' \cup excused'
  BY <1>1, <1>2 DEF ReadDocs, Latest, HasRead
<1>4. OneGroup'
  <2>1. MaxRunners = 1 => \A q \in Runners : q = r
    BY DEF Runners
  <2>2. QED
    BY <1>1, <1>2, <2>1 DEF OneGroup, Idle, AtRest
<1>5. Blank'
  BY <1>2 DEF Blank, AtRest
<1>6. Covers' /\ Latest' /\ Overtaken'
  BY <1>1, <1>2, <1>3 DEF Covers, Latest, Overtaken
<1>7. ReadDocs'
  <2>1. \A q \in Runners : HasRead(q)' => HasRead(q) /\ runner'[q] = runner[q]
    BY <1>2 DEF HasRead, AtRest
  <2>2. QED
    BY <1>1, <1>2, <2>1 DEF ReadDocs
<1>8. SnapshotOld'
  BY <1>1, <1>2 DEF SnapshotOld
<1>9. Kept \subseteq Kept' \cup excused'
  BY <1>1, <1>2, KeptIs, KeptIsNext DEF KeptMembers
<1>10. LossExplained' /\ VersionsOld'
  BY <1>1, <1>2, <1>9, GrownStep
<1>11. QED
  BY <1>4, <1>5, <1>6, <1>7, <1>8, <1>10

(* A flush that ends without writing: what it had is excused.              *)
LEMMA EndStep ==
  ASSUME GroupsInv, NEW f \in flushes, flushes' = flushes \ {f},
         UNCHANGED <<at, runner, open, doc, row, stored, snapshot, versions, acked>>,
         Excuse(f.doc)
  PROVE  LossInv'
<1> USE DEF GroupsInv, LossInv
<1>1. Readable' = Readable
  BY DEF Readable, get_latest_snapshot
<1>2. excused \subseteq excused' /\ f.doc \subseteq Readable \cup excused'
  BY DEF Excuse
<1>3. OneGroup' /\ Blank' /\ Latest'
  BY DEF OneGroup, Blank, Latest, HasRead, Idle
<1>4. Covers' /\ Overtaken' /\ SnapshotOld'
  BY <1>1, <1>2 DEF Covers, Overtaken, SnapshotOld
<1>5. ReadDocs'
  BY <1>1, <1>2 DEF ReadDocs, HasRead
<1>6. Kept \subseteq Kept' \cup excused'
  BY <1>1, <1>2, KeptIs, KeptIsNext DEF KeptMembers
<1>7. LossExplained' /\ VersionsOld'
  BY <1>2, <1>6, GrownStep
<1>8. QED
  BY <1>3, <1>4, <1>5, <1>7

(* A flush that writes: it covers what it replaces, or that is excused.    *)
LEMMA WriteStep ==
  ASSUME GroupsInv, NEW f \in flushes, FlushWrites(f)
  PROVE  LossInv'
<1> USE DEF GroupsInv, LossInv
<1>0. /\ flushes' = flushes \ {f}
      /\ UNCHANGED <<at, runner, open, doc, snapshot, acked>>
      /\ excused' = IF f.overtaken THEN excused \cup (Readable \ f.doc) ELSE excused
      /\ row' = "ok" /\ stored' = f.doc /\ versions' = versions \cup {f.doc}
  BY DEF FlushWrites, Store, clientVars, groupVars
<1>1. Readable' = f.doc
  BY <1>0 DEF Readable
<1>2. excused \subseteq excused' /\ Readable \subseteq f.doc \cup excused'
  BY <1>0 DEF Covers
<1>3. OneGroup' /\ Blank' /\ Latest'
  BY <1>0 DEF OneGroup, Blank, Latest, HasRead, Idle
<1>4. Covers'
  <2>1. open => f.doc \subseteq doc \cup excused
    BY DEF Latest, Overtaken
  <2>2. \A g \in flushes' : ~g.overtaken => f.doc \subseteq g.doc \cup excused
    BY <1>0 DEF Latest, Overtaken
  <2>3. QED
    BY <1>0, <1>1, <1>2, <2>1, <2>2 DEF Covers
<1>5. Overtaken' /\ SnapshotOld'
  BY <1>0, <1>1, <1>2 DEF Overtaken, SnapshotOld
<1>6. ReadDocs'
  BY <1>0, <1>1, <1>2 DEF ReadDocs, HasRead
<1>7. Kept \subseteq Kept' \cup excused' /\ f.doc \subseteq Kept'
  BY <1>0, <1>1, <1>2, KeptIs, KeptIsNext DEF KeptMembers
<1>8. LossExplained' /\ VersionsOld'
  BY <1>0, <1>2, <1>7, GrownStep
<1>9. QED
  BY <1>3, <1>4, <1>5, <1>6, <1>8

(* The removal of the group: its document moves to the latest flush, or to *)
(* one that a runner which has read by now overtakes.                      *)
LEMMA RemoveStep ==
  ASSUME GroupsInv, RemoveInactiveGroup
  PROVE  LossInv'
<1> USE DEF GroupsInv, LossInv
<1>0. /\ open /\ ~open' /\ flushes' = flushes \cup {flush}
      /\ UNCHANGED <<at, runner, row, stored, snapshot, acked>>
      /\ versions' = versions \cup {doc}
      /\ IF flush.overtaken THEN Excuse(doc) ELSE UNCHANGED excused
      /\ \A u \in Users : at[u] # "in"
  BY DEF RemoveInactiveGroup, Subscribers, clientVars
<1>1. /\ flush.doc = doc /\ (flush.overtaken <=> \E r \in Runners : HasRead(r))
      /\ Readable' = Readable
  BY <1>0 DEF flush, Readable, get_latest_snapshot
<1>2. \A f \in flushes : f.overtaken /\ f.doc \subseteq doc \cup excused
  BY <1>0 DEF Latest, Overtaken
<1>3. flush.overtaken => doc \subseteq Readable \cup excused'
  BY <1>0 DEF Excuse
<1>4. excused \subseteq excused'
  BY <1>0 DEF Excuse
<1>5. OneGroup' /\ Blank'
  BY <1>0 DEF OneGroup, Blank, Idle
<1>6. Covers'
  BY <1>0, <1>1, <1>2, <1>4 DEF Covers
<1>7. Latest'
  BY <1>0, <1>1, <1>2 DEF Latest, HasRead
<1>8. Overtaken' /\ SnapshotOld'
  BY <1>0, <1>1, <1>2, <1>4 DEF Overtaken, SnapshotOld
<1>9. ReadDocs'
  <2> SUFFICES ASSUME NEW r \in Runners, HasRead(r)
               PROVE  /\ Readable \subseteq runner[r].doc \cup excused'
                      /\ \A f \in flushes' : f.doc \subseteq runner[r].doc \cup excused'
    BY <1>0, <1>1 DEF ReadDocs, HasRead
  <2>1. Readable \subseteq runner[r].doc \cup excused'
    BY <1>4 DEF ReadDocs
  <2>2. flush.doc \subseteq runner[r].doc \cup excused'
    BY <1>1, <1>3, <1>4, <2>1
  <2>3. QED
    BY <1>0, <1>4, <2>1, <2>2 DEF ReadDocs
<1>10. Kept \subseteq Kept' \cup excused' /\ doc \subseteq Kept'
  BY <1>0, <1>1, KeptIs, KeptIsNext DEF KeptMembers
<1>11. LossExplained' /\ VersionsOld'
  BY <1>0, <1>4, <1>10, GrownStep
<1>12. QED
  BY <1>5, <1>6, <1>7, <1>8, <1>9, <1>11

(* insert_new_collab: what it may write over is excused.                   *)
LEMMA InsertNewStep ==
  ASSUME GroupsInv, NEW r \in Runners, insert_new_collab(r)
  PROVE  LossInv'
<1> USE DEF GroupsInv, LossInv
<1>0. /\ runner[r].step = "insert" /\ runner' = [runner EXCEPT ![r].step = "enter"]
      /\ UNCHANGED <<at, open, doc, flushes, acked, excused>>
  BY DEF insert_new_collab, clientVars, groupVars
<1>1. runner'[r].step = "enter" /\ runner'[r].doc = {} /\ \A q \in Runners \ {r} : runner'[q] = runner[q]
  BY <1>0 DEF Blank, TypeOK, Runner
<1>2. Readable \subseteq excused /\ \A f \in flushes : f.doc \subseteq excused /\ f.overtaken
  BY <1>0 DEF ReadDocs, Blank, Latest, HasRead
<1>3. snapshot' = snapshot /\ Readable' \subseteq excused /\ versions' \subseteq versions \cup {{}}
  <2>1. CASE Store(runner[r].user, {})
    BY <2>1 DEF Store, Readable
  <2>2. CASE UNCHANGED <<row, stored, snapshot, versions>>
    BY <1>2, <2>2 DEF Readable, get_latest_snapshot
  <2>3. QED
    BY <2>1, <2>2 DEF insert_new_collab, Refuse, storageVars
<1>4. OneGroup' /\ Blank'
  BY <1>0, <1>1 DEF OneGroup, Blank, Idle
<1>5. Covers' /\ Latest' /\ Overtaken' /\ SnapshotOld'
  BY <1>0, <1>2, <1>3 DEF Covers, Latest, Overtaken, SnapshotOld
<1>6. ReadDocs'
  BY <1>0, <1>2, <1>3 DEF ReadDocs
<1>7. Kept \subseteq Kept' \cup excused'
  BY <1>0, <1>2, KeptIs, KeptIsNext DEF KeptMembers
<1>8. LossExplained' /\ VersionsOld'
  BY <1>0, <1>3, <1>7, GrownStep
<1>9. QED
  BY <1>4, <1>5, <1>6, <1>8

(* CollabStoragePlugin::init, however it ends.                             *)
LEMMA InitStep ==
  ASSUME GroupsInv, NEW r \in Runners,
         \/ InitLoads(r) \/ InitLoadsCached(r) \/ InitRestores(r) \/ InitFails(r) \/ InitFindsNone(r)
  PROVE  LossInv'
<1> USE DEF GroupsInv, LossInv
<1>a. /\ \A f \in flushes : f.doc \subseteq (UNION {g.doc : g \in flushes})
      /\ Readable \subseteq Kept /\ \A f \in flushes : f.doc \subseteq Kept
  BY KeptIs DEF KeptMembers
<1>b. \A content : Loads(r, content) =>
        /\ runner[r].step = "load"
        /\ runner' = [runner EXCEPT ![r] = [runner[r] EXCEPT !.step = "enter", !.doc = content]]
  BY DEF Loads
<1>1. CASE InitLoads(r)
  <2>1. /\ row = "ok" /\ Loads(r, stored) /\ Overtake /\ ExcuseFlushes
        /\ snapshot' \in {snapshot, stored} /\ UNCHANGED <<at, open, doc, row, stored, versions, acked>>
    BY <1>1 DEF InitLoads, clientVars, groupVars
  <2>2. Readable = stored /\ Readable' = stored
    BY <2>1 DEF Readable
  <2>3. snapshot' \subseteq Readable \cup excused
    BY <2>1, <2>2 DEF SnapshotOld
  <2>4. excused \subseteq excused' /\ \A f \in flushes : f.doc \subseteq stored \cup excused'
    BY <2>1, <2>2, <1>a DEF ExcuseFlushes, Excuse
  <2>5. QED
    BY <2>1, <2>2, <2>3, <2>4, <1>b, ReadStep
<1>2. CASE InitLoadsCached(r)
  <2>1. PICK content \in versions : Loads(r, content) /\ snapshot' \in {snapshot, content}
    BY <1>2 DEF InitLoadsCached
  <2>2. /\ Overtake /\ excused' = excused \cup Kept
        /\ UNCHANGED <<at, open, doc, row, stored, versions, acked>>
    BY <1>2 DEF InitLoadsCached, clientVars, groupVars
  <2>3. content \subseteq excused' /\ snapshot \subseteq excused' /\ Readable \subseteq excused'
    BY <1>a, <2>2 DEF VersionsOld, SnapshotOld
  <2>4. Readable' \subseteq Readable \cup excused' /\ snapshot' \subseteq excused'
    BY <2>1, <2>2, <2>3 DEF Readable, get_latest_snapshot
  <2>5. QED
    BY <2>1, <2>2, <2>3, <2>4, <1>a, <1>b, ReadStep
<1>3. CASE InitRestores(r)
  <2>1. /\ row = "bad" /\ Loads(r, get_latest_snapshot) /\ Overtake /\ ExcuseFlushes
        /\ UNCHANGED <<at, open, doc, row, stored, snapshot, versions, acked>>
    BY <1>3 DEF InitRestores, clientVars, groupVars, storageVars
  <2>2. Readable = get_latest_snapshot /\ Readable' = Readable
    BY <2>1 DEF Readable, get_latest_snapshot
  <2>3. snapshot' \subseteq Readable \cup excused
    BY <2>1 DEF SnapshotOld
  <2>4. excused \subseteq excused' /\ \A f \in flushes : f.doc \subseteq get_latest_snapshot \cup excused'
    BY <2>1, <2>2, <1>a DEF ExcuseFlushes, Excuse
  <2>5. QED
    BY <2>1, <2>2, <2>3, <2>4, <1>b, ReadStep
<1>4. CASE InitFails(r)
  <2>1. /\ Loads(r, {}) /\ Overtake /\ excused' = excused \cup Kept
        /\ UNCHANGED <<at, open, doc, row, stored, snapshot, versions, acked>>
    BY <1>4 DEF InitFails, clientVars, groupVars, storageVars
  <2>2. Readable' = Readable /\ snapshot' \subseteq Readable \cup excused
    BY <2>1 DEF Readable, get_latest_snapshot, SnapshotOld
  <2>3. QED
    BY <2>1, <2>2, <1>a, <1>b, ReadStep
<1>5. CASE InitFindsNone(r)
  <2>1. /\ runner[r].step = "load" /\ row = "none"
        /\ runner' = [runner EXCEPT ![r].step = "insert"] /\ Overtake /\ ExcuseFlushes
        /\ UNCHANGED <<at, open, doc, row, stored, snapshot, versions, acked>>
    BY <1>5 DEF InitFindsNone, clientVars, groupVars, storageVars
  <2>2. runner' = [runner EXCEPT ![r] = [runner[r] EXCEPT !.step = "insert", !.doc = {}]]
    <3>1. \A x \in Runner : x.doc = {} =>
            [x EXCEPT !.step = "insert"] = [x EXCEPT !.step = "insert", !.doc = {}]
      BY DEF Runner
    <3>2. runner[r] \in Runner /\ runner[r].doc = {}
      BY <2>1 DEF TypeOK, Blank
    <3>3. QED
      BY <2>1, <3>1, <3>2
  <2>3. Readable = {} /\ Readable' = {} /\ snapshot' \subseteq Readable \cup excused
    BY <2>1 DEF Readable, SnapshotOld
  <2>4. excused \subseteq excused' /\ \A f \in flushes : f.doc \subseteq excused'
    BY <2>1, <2>3, <1>a DEF ExcuseFlushes, Excuse
  <2>5. QED
    BY <2>1, <2>2, <2>3, <2>4, ReadStep
<1>6. QED
  BY <1>1, <1>2, <1>3, <1>4, <1>5

(* One step per action.                                                    *)
LEMMA LossStep ==
  ASSUME GroupsInv, [Next]_vars
  PROVE  LossInv'
<1> USE DEF GroupsInv, LossInv
<1>1. ASSUME NEW u \in Users, Open(u) \/ Leave(u) \/ Rejoin(u) PROVE LossInv'
  <2>1. /\ OneGroup'
        /\ UNCHANGED <<runner, open, doc, flushes, row, stored, snapshot, versions, acked, excused>>
    BY <1>1 DEF Open, Leave, Rejoin, OneGroup, Idle, TypeOK, groupVars, storageVars
  <2>2. QED
    BY <2>1, StillStep
<1>2. ASSUME NEW u \in Users, Broadcast(u) \/ \E e \in Updates : Edit(u, e) PROVE LossInv'
  <2>1. /\ OneGroup'
        /\ UNCHANGED <<runner, open, doc, flushes, row, stored, snapshot, versions, acked, excused>>
    BY <1>2 DEF Broadcast, Edit, OneGroup, Idle, groupVars, storageVars
  <2>2. QED
    BY <2>1, StillStep
<1>3. ASSUME NEW u \in Users, NEW e \in Updates, ApplyUpdate(u, e) PROVE LossInv'
  <2>1. /\ open /\ doc' = doc \cup {e} /\ acked' = acked \cup {e}
        /\ UNCHANGED <<at, runner, open, flushes, row, stored, snapshot, versions, excused>>
    BY <1>3 DEF ApplyUpdate, OneGroup, clientVars, storageVars
  <2>2. Readable' = Readable
    BY <2>1 DEF Readable, get_latest_snapshot
  <2>3. OneGroup' /\ Blank' /\ Covers' /\ Latest' /\ Overtaken' /\ SnapshotOld'
    BY <2>1, <2>2 DEF OneGroup, Blank, Idle, HasRead, Covers, Latest, Overtaken, SnapshotOld
  <2>4. ReadDocs'
    BY <2>1, <2>2 DEF ReadDocs, HasRead
  <2>5. Kept \cup {e} \subseteq Kept'
    BY <2>1, <2>2, KeptIs, KeptIsNext DEF KeptMembers
  <2>6. LossExplained' /\ VersionsOld'
    BY <2>1, <2>5, GrownStep
  <2>7. QED
    BY <2>3, <2>4, <2>6
<1>4. ASSUME NEW r \in Runners, HandleCommand(r) PROVE LossInv'
  <2>1. UNCHANGED <<open, doc, flushes, row, stored, snapshot, versions, acked, excused>>
    BY <1>4 DEF HandleCommand, HandleUnconnected, HandleInGroup, create_group, groupVars, storageVars
  <2>2. CASE UNCHANGED runner
    <3>1. OneGroup'
      BY <1>4, <2>1, <2>2 DEF HandleCommand, HandleUnconnected, HandleInGroup, create_group,
                              OneGroup, Idle, clientVars
    <3>2. QED
      BY <2>1, <2>2, <3>1, StillStep
  <2>3. CASE create_group(r)
    <3>1. /\ runner' = [runner EXCEPT ![r] = [step |-> "load", user |-> Head(commands[r]), doc |-> {}]]
          /\ UNCHANGED at /\ ~open
      BY <2>3 DEF create_group, clientVars
    <3>2. /\ runner'[r].step = "load" /\ runner'[r].doc = {}
          /\ \A q \in Runners \ {r} : runner'[q] = runner[q]
      BY <3>1 DEF TypeOK
    <3>3. OneGroup' /\ Blank'
      BY <2>1, <3>1, <3>2 DEF OneGroup, Blank, Idle
    <3>4. \A q \in Runners : HasRead(q)' =>
            \E p \in Runners : HasRead(p) /\ runner'[q].doc = runner[p].doc
      BY <3>2 DEF HasRead
    <3>5. QED
      BY <2>1, <3>3, <3>4, QuietStep
  <2>4. QED
    BY <1>4, <2>2, <2>3 DEF HandleCommand, HandleUnconnected, HandleInGroup
<1>5. CASE ForgetSender
  <2>1. \A q \in Runners : runner'[q] = AtRest \/ \E p \in Runners : runner'[q] = runner[p]
    BY <1>5, ForgetFacts
  <2>2. UNCHANGED <<at, open, doc, flushes, row, stored, snapshot, versions, acked, excused>>
    BY <1>5 DEF ForgetSender, clientVars, groupVars, storageVars
  <2>3. OneGroup' /\ Blank'
    BY <2>1, <2>2 DEF OneGroup, Blank, Idle, AtRest
  <2>4. \A q \in Runners : HasRead(q)' =>
          \E p \in Runners : HasRead(p) /\ runner'[q].doc = runner[p].doc
    BY <2>1 DEF HasRead, AtRest
  <2>5. QED
    BY <2>2, <2>3, <2>4, QuietStep
<1>6. ASSUME NEW f \in flushes, FlushRefused(f) \/ FlushFails(f) PROVE LossInv'
  <2>1. /\ flushes' = flushes \ {f} /\ Excuse(f.doc)
        /\ UNCHANGED <<at, runner, open, doc, row, stored, snapshot, versions, acked>>
    BY <1>6 DEF FlushRefused, FlushFails, Refuse, clientVars, groupVars, storageVars
  <2>2. QED
    BY <2>1, EndStep
<1>7. CASE Corrupt
  <2>1. /\ row = "ok" /\ row' = "bad" /\ excused' = excused \cup (stored \ get_latest_snapshot)
        /\ UNCHANGED <<at, runner, open, doc, flushes, stored, snapshot, versions, acked>>
    BY <1>7 DEF Corrupt, clientVars, groupVars
  <2>2. Readable = stored /\ Readable' = get_latest_snapshot /\ get_latest_snapshot \subseteq snapshot
    BY <2>1 DEF Readable, get_latest_snapshot
  <2>3. /\ excused \subseteq excused' /\ Readable \subseteq Readable' \cup excused'
        /\ Readable' \subseteq Readable \cup excused
    BY <2>1, <2>2 DEF SnapshotOld
  <2>4. OneGroup' /\ Blank' /\ Latest'
    BY <2>1 DEF OneGroup, Blank, Idle, HasRead, Latest
  <2>5. Covers' /\ Overtaken' /\ SnapshotOld'
    BY <2>1, <2>3 DEF Covers, Overtaken, SnapshotOld
  <2>6. ReadDocs'
    BY <2>1, <2>3 DEF ReadDocs, HasRead
  <2>7. Kept \subseteq Kept' \cup excused'
    BY <2>1, <2>3, KeptIs, KeptIsNext DEF KeptMembers
  <2>8. LossExplained' /\ VersionsOld'
    BY <2>1, <2>3, <2>7, GrownStep
  <2>9. QED
    BY <2>4, <2>5, <2>6, <2>8
<1>8. CASE Crash
  <2>1. /\ at' = [u \in Users |-> "away"] /\ runner' = [r \in Runners |-> AtRest]
        /\ ~open' /\ flushes' = {}
        /\ excused' = excused \cup (Kept \ Readable)
        /\ UNCHANGED <<row, stored, snapshot, versions, acked>>
    BY <1>8 DEF Crash, Excuse, storageVars
  <2>2. Readable' = Readable
    BY <2>1 DEF Readable, get_latest_snapshot
  <2>3. OneGroup' /\ Blank' /\ Covers' /\ Latest' /\ Overtaken' /\ ReadDocs' /\ SnapshotOld'
    BY <2>1, <2>2 DEF OneGroup, Blank, Idle, AtRest, HasRead, Covers, Latest, Overtaken, ReadDocs, SnapshotOld
  <2>4. Readable \subseteq Kept'
    BY <2>2, KeptIsNext DEF KeptMembers
  <2>5. LossExplained' /\ VersionsOld'
    BY <2>1, <2>4, GrownStep
  <2>6. QED
    BY <2>3, <2>5
<1>9. CASE UNCHANGED vars
  <2>1. /\ OneGroup'
        /\ UNCHANGED <<runner, open, doc, flushes, row, stored, snapshot, versions, acked, excused>>
    BY <1>9 DEF vars, clientVars, groupVars, storageVars, OneGroup, Idle
  <2>2. QED
    BY <2>1, StillStep
<1>10. ASSUME NEW r \in Runners, Initialize(r) PROVE LossInv'
  BY <1>10, InitStep, InsertNewStep, InsertGroupStep DEF Initialize
<1>11. CASE Next
  BY <1>1, <1>2, <1>3, <1>4, <1>5, <1>6, <1>7, <1>8, <1>10, <1>11, WriteStep, RemoveStep
     DEF Next, Serve, EndFlush
<1>12. QED
  BY <1>9, <1>11

(* The inductive invariant holds.                                          *)
LEMMA Invariance == Spec => []GroupsInv
<1>1. Init => GroupsInv
  <2> SUFFICES ASSUME Init PROVE GroupsInv
    OBVIOUS
  <2>1. TypeOK
    <3>1. /\ runner \in [Runners -> Runner] /\ creator \in Users
          /\ retiring \in BOOLEAN
      BY NobodyIsUser DEF Init
    <3>0. commands \in [Runners -> Seq(Users)]
      BY DEF Init
    <3>2. created \in 0 .. MaxGroups /\ faults \in 0 .. MaxFaults
      BY GroupsAssumption DEF Init
    <3>3. /\ at \in [Users -> {"away", "asking", "in", "dropped"}]
          /\ local \in [Users -> SUBSET Updates]
      BY DEF Init
    <3>4. open \in BOOLEAN /\ doc \subseteq Updates /\ flushes \subseteq Flush
          /\ snapshot \subseteq Updates /\ excused \subseteq Updates /\ writers \subseteq Users
      BY GroupsAssumption DEF Init
    <3>5. /\ row \in {"none", "ok", "bad"} /\ stored \subseteq Updates /\ acked \subseteq Updates
          /\ versions \subseteq SUBSET Updates
      BY GroupsAssumption DEF Init
    <3>6. QED
      BY <3>0, <3>1, <3>2, <3>3, <3>4, <3>5 DEF TypeOK
  <2>2. \A r \in Runners : runner[r] = AtRest
    BY DEF Init
  <2>3. OneGroup /\ Blank /\ Covers /\ Latest /\ Overtaken /\ ReadDocs /\ SnapshotOld
    BY <2>2 DEF Init, AtRest, OneGroup, Blank, HasRead, Covers, Latest, Overtaken, ReadDocs, SnapshotOld
  <2>4. acked = Readable /\ \A v \in versions : v \subseteq Readable
    BY DEF Init, Readable
  <2>5. LossExplained /\ VersionsOld
    BY <2>4, KeptIs DEF KeptMembers, LossExplained, VersionsOld
  <2>6. QED
    BY <2>1, <2>3, <2>5 DEF GroupsInv, LossInv
<1>2. GroupsInv /\ [Next]_vars => GroupsInv'
  BY TypeStep, LossStep DEF GroupsInv
<1>3. QED
  BY <1>1, <1>2, PTL DEF Spec

(* The variables of the group, its plugin, the runners and the storage     *)
(* keep their types, whatever fails and whoever joins.                     *)
THEOREM TypeCorrect == Spec => []TypeOK
<1>1. GroupsInv => TypeOK
  BY DEF GroupsInv
<1>2. QED
  BY <1>1, Invariance, PTL

(* However many runners load the document and enter groups at once, and    *)
(* however the detached flushes of these groups interleave with the loads  *)
(* of the next ones, only the events LossExplained names lose an           *)
(* acknowledged update.                                                    *)
THEOREM OnlyNamedLosses == Spec => []LossExplained
<1>1. GroupsInv => LossExplained
  BY DEF GroupsInv, LossInv
<1>2. QED
  BY <1>1, Invariance, PTL

-----------------------------------------------------------------------------
(* Groups that come and go implement CollabDocument.                       *)

(* Nothing is in the group, a runner, a flush or the storage that nobody   *)
(* made.                                                                   *)
Originated ==
  /\ doc \subseteq Shared!Everything
  /\ \A r \in Runners : runner[r].doc \subseteq Shared!Everything
  /\ stored \subseteq Shared!Everything /\ snapshot \subseteq Shared!Everything
  /\ \A v \in versions : v \subseteq Shared!Everything
  /\ \A f \in flushes : f.doc \subseteq Shared!Everything

DocumentInv == GroupsInv /\ Originated

(* What was made, element by element.                                      *)
LEMMA EverythingIs ==
  \A x : x \in Shared!Everything <=> x \in Original \/ \E u \in Users : x \in local[u]
BY DEF Shared!Everything

(* A step in which no client forgets anything.                             *)
LEMMA EverythingKept ==
  ASSUME \A u \in Users : local[u] \subseteq local'[u]
  PROVE  Shared!Everything \subseteq Shared!Everything'
BY DEF Shared!Everything

(* What a plugin reads was made.                                           *)
LEMMA ReadableOriginated ==
  ASSUME Originated
  PROVE  Readable \subseteq Shared!Everything /\ get_latest_snapshot \subseteq Shared!Everything
BY DEF Originated, Readable, get_latest_snapshot

(* A step whose documents are of what was there, or were made.             *)
LEMMA OriginatedKept ==
  ASSUME Originated, Shared!Everything \subseteq Shared!Everything',
         doc' \subseteq Shared!Everything',
         \A r \in Runners : runner'[r].doc \in {{}, runner[r].doc} \/ runner'[r].doc \subseteq Shared!Everything',
         stored' \subseteq Shared!Everything', snapshot' \subseteq Shared!Everything',
         \A v \in versions' : v \subseteq Shared!Everything',
         \A g \in flushes' : g.doc \subseteq Shared!Everything'
  PROVE  Originated'
BY DEF Originated

(* A step that leaves all but the clients' documents alone.                *)
LEMMA OriginatedStays ==
  ASSUME Originated, UNCHANGED <<doc, runner, stored, snapshot, versions, flushes>>,
         \A u \in Users : local[u] \subseteq local'[u]
  PROVE  Originated'
BY EverythingKept DEF Originated

(* The steps of the clients.                                               *)
LEMMA ClientImplements ==
  ASSUME DocumentInv, NEW u \in Users,
         \/ Open(u) \/ Leave(u) \/ Broadcast(u) \/ Rejoin(u)
         \/ \E e \in Updates : Edit(u, e) \/ ApplyUpdate(u, e)
  PROVE  /\ [Shared!DocumentNext]_(Shared!documentVars)
         /\ Originated'
<1>1. /\ TypeOK /\ Originated
      /\ at \in [Users -> {"away", "asking", "in", "dropped"}] /\ local \in [Users -> SUBSET Updates]
      /\ doc \subseteq Updates
      /\ UNCHANGED <<runner, flushes, stored, snapshot, versions>>
  BY DEF DocumentInv, GroupsInv, TypeOK, Open, Leave, Broadcast, Rejoin, Edit, ApplyUpdate, storageVars
<1>2. CASE Open(u)
  <2>1. UNCHANGED <<local, doc>> /\ Subscribers' = Subscribers
    BY <1>1, <1>2 DEF Open, groupVars, Subscribers
  <2>2. QED
    BY <1>1, <2>1, OriginatedStays DEF Shared!documentVars
<1>3. CASE Leave(u)
  <2>1. UNCHANGED <<local, doc>> /\ Subscribers' = Subscribers \ {u}
    BY <1>1, <1>3 DEF Leave, groupVars, Subscribers
  <2>2. Shared!Leave(u)
    BY <2>1 DEF Shared!Leave
  <2>3. QED
    BY <1>1, <2>1, <2>2, OriginatedStays DEF Shared!DocumentNext
<1>4. CASE Broadcast(u)
  <2>1. /\ UNCHANGED <<doc, at>> /\ u \in Subscribers
        /\ local' = [local EXCEPT ![u] = @ \cup doc]
    BY <1>4 DEF Broadcast, groupVars, Subscribers
  <2>2. Subscribers' = Subscribers
    BY <2>1 DEF Subscribers
  <2>3. Shared!Learn(u)
    BY <2>1, <2>2 DEF Shared!Learn
  <2>4. \A v \in Users : local[v] \subseteq local'[v]
    BY <1>1, <2>1
  <2>5. QED
    BY <1>1, <2>1, <2>3, <2>4, OriginatedStays DEF Shared!DocumentNext
<1>5. CASE Rejoin(u)
  <2>1. UNCHANGED <<local, doc>> /\ Subscribers' = Subscribers \cup {u}
    BY <1>1, <1>5 DEF Rejoin, groupVars, Subscribers
  <2>2. local' = [local EXCEPT ![u] = @ \cup {}]
    BY <1>1, <2>1
  <2>3. Shared!Join(u)
    BY <2>1, <2>2 DEF Shared!Join
  <2>4. QED
    BY <1>1, <2>1, <2>3, OriginatedStays DEF Shared!DocumentNext
<1>6. ASSUME NEW e \in Updates, Edit(u, e)
      PROVE  Shared!DocumentNext /\ Originated'
  <2>1. /\ UNCHANGED <<doc, at>>
        /\ local' = [local EXCEPT ![u] = @ \cup {e}]
        /\ e \notin Shared!Everything
    BY <1>6, EverythingIs DEF Edit, groupVars
  <2>2. Subscribers' = Subscribers
    BY <2>1 DEF Subscribers
  <2>3. Shared!Make(u, e)
    BY <2>1, <2>2 DEF Shared!Make
  <2>4. \A v \in Users : local[v] \subseteq local'[v]
    BY <1>1, <2>1
  <2>5. QED
    BY <1>1, <2>1, <2>3, <2>4, OriginatedStays DEF Shared!DocumentNext
<1>7. ASSUME NEW e \in Updates, ApplyUpdate(u, e)
      PROVE  Shared!DocumentNext /\ Originated'
  <2>1. UNCHANGED <<at, local>> /\ e \in local[u] /\ doc' = doc \cup {e}
    BY <1>7 DEF ApplyUpdate, clientVars
  <2>2. Subscribers' = Subscribers /\ Shared!Everything' = Shared!Everything
    BY <2>1 DEF Subscribers, Shared!Everything
  <2>3. Shared!Accept(u)
    BY <2>1, <2>2 DEF Shared!Accept
  <2>4. doc' \subseteq Shared!Everything
    BY <1>1, <2>1, EverythingIs DEF Originated
  <2>5. QED
    BY <1>1, <2>2, <2>3, <2>4, OriginatedKept DEF Shared!DocumentNext, Originated
<1>8. QED
  BY <1>2, <1>3, <1>4, <1>5, <1>6, <1>7

(* The commands of a runner.                                               *)
LEMMA CommandImplements ==
  ASSUME DocumentInv, NEW r \in Runners, HandleCommand(r)
  PROVE  /\ [Shared!DocumentNext]_(Shared!documentVars)
         /\ Originated'
<1>1. TypeOK /\ Originated /\ doc \subseteq Updates /\ local \in [Users -> SUBSET Updates]
  BY DEF DocumentInv, GroupsInv, TypeOK
<1>2. CASE HandleUnconnected(r) \/ create_group(r)
  <2>1. UNCHANGED <<at, local, doc, flushes, stored, snapshot, versions>>
    BY <1>2 DEF HandleUnconnected, create_group, clientVars, groupVars, storageVars
  <2>2. \A q \in Runners : runner'[q].doc \in {{}, runner[q].doc}
    <3>1. CASE UNCHANGED runner
      BY <3>1
    <3>2. CASE create_group(r)
      BY <1>1, <3>2 DEF create_group, TypeOK
    <3>3. QED
      BY <1>2, <3>1, <3>2 DEF HandleUnconnected
  <2>3. Subscribers' = Subscribers /\ Shared!Everything' = Shared!Everything
    BY <2>1 DEF Subscribers, Shared!Everything
  <2>4. QED
    BY <1>1, <2>1, <2>2, <2>3, OriginatedKept DEF Shared!documentVars, Originated
<1>3. CASE HandleInGroup(r)
  <2> DEFINE user == Head(commands[r])
  <2>1. user \in Users
    BY <1>1, <1>3, CommandFacts DEF HandleInGroup, Takes
  <2>2. /\ UNCHANGED <<doc, runner, flushes, stored, snapshot, versions>>
        /\ at' = [at EXCEPT ![user] = "in"] /\ Learn(user, doc)
    BY <1>3 DEF HandleInGroup, groupVars, storageVars
  <2>3. Subscribers' = Subscribers \cup {user}
    BY <1>1, <2>1, <2>2 DEF TypeOK, Subscribers
  <2>4. /\ \E reply \in {{}, doc} : local' = [local EXCEPT ![user] = @ \cup reply]
        /\ \A v \in Users : local[v] \subseteq local'[v]
    BY <1>1, <2>1, <2>2, LearnFacts
  <2>5. Shared!Join(user)
    BY <2>2, <2>3, <2>4 DEF Shared!Join
  <2>6. QED
    BY <1>1, <2>1, <2>2, <2>4, <2>5, OriginatedStays DEF Shared!DocumentNext
<1>4. QED
  BY <1>2, <1>3 DEF HandleCommand

(* Who is subscribed after a group was entered.                            *)
LEMMA InsertGroupFacts ==
  ASSUME GroupsInv, NEW r \in Runners, InsertGroup(r)
  PROVE  /\ Subscribers = {} \/ MaxRunners > 1
         /\ Subscribers' \subseteq {runner[r].user} /\ runner[r].user \in Users
<1>1. TypeOK /\ OneGroup /\ ~Idle(r) /\ MaxRunners \in Nat \ {0}
  BY GroupsAssumption DEF GroupsInv, LossInv, InsertGroup, Idle
<1>2. Subscribers = {} \/ MaxRunners > 1
  BY <1>1 DEF OneGroup, Subscribers
<1>3. runner[r].user \in Users
  BY <1>1 DEF TypeOK, Runner
<1>4. \A u \in Users \ {runner[r].user} : at'[u] # "in"
  BY <1>1 DEF InsertGroup, TypeOK
<1>5. QED
  BY <1>2, <1>3, <1>4 DEF Subscribers

(* The group that is entered is loaded for one user at most.               *)
LEMMA InsertGroupImplements ==
  ASSUME DocumentInv, NEW r \in Runners, InsertGroup(r)
  PROVE  Shared!DocumentNext /\ Originated'
<1> DEFINE user == runner[r].user
<1>1. TypeOK /\ Originated /\ GroupsInv /\ local \in [Users -> SUBSET Updates]
  BY DEF DocumentInv, GroupsInv, TypeOK
<1>2. /\ doc' = runner[r].doc /\ runner' = [runner EXCEPT ![r] = AtRest]
      /\ Learn(user, runner[r].doc) \/ UNCHANGED local
      /\ UNCHANGED <<flushes, stored, snapshot, versions>>
  BY DEF InsertGroup, storageVars
<1>3. /\ Subscribers = {} \/ MaxRunners > 1
      /\ Subscribers' \subseteq {user} /\ user \in Users
  BY <1>1, InsertGroupFacts
<1>4. doc' \in SUBSET Shared!Everything /\ doc' \subseteq Updates
  BY <1>1, <1>2 DEF Originated, TypeOK, Runner
<1>5. /\ \E reply \in {{}, doc'} : local' = [local EXCEPT ![user] = @ \cup reply]
      /\ \A v \in Users : local[v] \subseteq local'[v]
  <2>1. CASE Learn(user, runner[r].doc)
    BY <1>1, <1>2, <1>3, <1>4, <2>1, LearnFacts
  <2>2. CASE UNCHANGED local
    <3>1. local' = [local EXCEPT ![user] = @ \cup {}]
      BY <1>1, <2>2
    <3>2. QED
      BY <2>2, <3>1
  <2>3. QED
    BY <1>2, <2>1, <2>2
<1>6. Shared!Load(user)
  BY <1>3, <1>4, <1>5 DEF Shared!Load
<1>7. Shared!DocumentNext
  BY <1>3, <1>6 DEF Shared!DocumentNext
<1>8. \A q \in Runners : runner'[q].doc \in {{}, runner[q].doc}
  BY <1>1, <1>2 DEF TypeOK, AtRest
<1>9. Shared!Everything \subseteq Shared!Everything'
  BY <1>5, EverythingKept
<1>10. QED
  BY <1>1, <1>2, <1>4, <1>7, <1>8, <1>9, OriginatedKept DEF Originated

(* Reading and inserting the row, which no client sees.                    *)
LEMMA InitImplements ==
  ASSUME DocumentInv, NEW r \in Runners, Initialize(r), ~InsertGroup(r)
  PROVE  UNCHANGED Shared!documentVars /\ Originated'
<1>1. TypeOK /\ Originated
  BY DEF DocumentInv, GroupsInv
<1>2. UNCHANGED <<at, local, doc>>
  BY DEF Initialize, InitLoads, InitLoadsCached, InitRestores, InitFails, InitFindsNone,
         insert_new_collab, clientVars, groupVars
<1>3. UNCHANGED Shared!documentVars /\ Shared!Everything' = Shared!Everything
  BY <1>2 DEF Shared!documentVars, Shared!Everything, Subscribers
<1>4. \A g \in flushes' : \E f \in flushes : f.doc = g.doc
  <2>1. Overtake \/ flushes' = flushes
    BY DEF Initialize, InitLoads, InitLoadsCached, InitRestores, InitFails, InitFindsNone,
           insert_new_collab
  <2>2. QED
    BY <1>1, <2>1, OvertakeFacts
<1>5. /\ Readable \subseteq Shared!Everything /\ get_latest_snapshot \subseteq Shared!Everything
      /\ stored \subseteq Shared!Everything /\ snapshot \subseteq Shared!Everything
      /\ \A v \in versions : v \subseteq Shared!Everything
      /\ \A f \in flushes : f.doc \subseteq Shared!Everything
  BY <1>1, ReadableOriginated DEF Originated
<1>6. ASSUME NEW content, content \subseteq Shared!Everything, Loads(r, content)
      PROVE  \A q \in Runners : runner'[q].doc = runner[q].doc \/ runner'[q].doc \subseteq Shared!Everything
  <2>1. runner' = [runner EXCEPT ![r] = [runner[r] EXCEPT !.step = "enter", !.doc = content]]
    BY <1>6 DEF Loads
  <2>2. \A x \in Runner : [x EXCEPT !.step = "enter", !.doc = content].doc = content
    BY DEF Runner
  <2>3. QED
    BY <1>1, <1>6, <2>1, <2>2 DEF TypeOK
<1>7. ASSUME NEW step, runner' = [runner EXCEPT ![r].step = step]
      PROVE  \A q \in Runners : runner'[q].doc = runner[q].doc
  <2>1. \A x \in Runner : [x EXCEPT !.step = step].doc = x.doc
    BY DEF Runner
  <2>2. QED
    BY <1>1, <1>7, <2>1 DEF TypeOK
<1>8. /\ \A q \in Runners : runner'[q].doc = runner[q].doc \/ runner'[q].doc \subseteq Shared!Everything
      /\ stored' \subseteq Shared!Everything /\ snapshot' \subseteq Shared!Everything
      /\ \A v \in versions' : v \subseteq Shared!Everything
  <2>1. CASE InitLoads(r)
    BY <1>5, <1>6, <2>1 DEF InitLoads
  <2>2. CASE InitLoadsCached(r)
    <3>1. PICK content \in versions : Loads(r, content) /\ snapshot' \in {snapshot, content}
      BY <2>2 DEF InitLoadsCached
    <3>2. UNCHANGED <<stored, versions>>
      BY <2>2 DEF InitLoadsCached
    <3>3. QED
      BY <1>5, <1>6, <3>1, <3>2
  <2>3. CASE InitRestores(r)
    BY <1>5, <1>6, <2>3 DEF InitRestores, storageVars
  <2>4. CASE InitFails(r)
    BY <1>5, <1>6, <2>4 DEF InitFails, storageVars
  <2>5. CASE InitFindsNone(r)
    BY <1>5, <1>7, <2>5 DEF InitFindsNone, storageVars
  <2>6. CASE insert_new_collab(r)
    <3>1. \/ stored' = {} /\ versions' = versions \cup {{}} /\ UNCHANGED snapshot
          \/ UNCHANGED <<stored, snapshot, versions>>
      BY <2>6 DEF insert_new_collab, Store, Refuse, storageVars
    <3>2. runner' = [runner EXCEPT ![r].step = "enter"]
      BY <2>6 DEF insert_new_collab
    <3>3. QED
      BY <1>5, <1>7, <3>1, <3>2
  <2>7. QED
    BY <2>1, <2>2, <2>3, <2>4, <2>5, <2>6 DEF Initialize
<1>9. Originated'
  BY <1>1, <1>2, <1>3, <1>4, <1>5, <1>8, OriginatedKept DEF Originated
<1>10. QED
  BY <1>3, <1>9

(* The steps that close the document, and those of the storage.            *)
LEMMA ServerImplements ==
  ASSUME DocumentInv,
         \/ RemoveInactiveGroup \/ ForgetSender \/ Corrupt \/ Crash
         \/ \E f \in flushes : EndFlush(f)
  PROVE  /\ [Shared!DocumentNext]_(Shared!documentVars)
         /\ Originated'
<1>1. TypeOK /\ Originated
  BY DEF DocumentInv, GroupsInv
<1>2. UNCHANGED local
  BY DEF RemoveInactiveGroup, ForgetSender, Corrupt, Crash, EndFlush, FlushWrites, FlushRefused,
         FlushFails, clientVars
<1>3. Shared!Everything' = Shared!Everything
  BY <1>2 DEF Shared!Everything
<1>4. CASE RemoveInactiveGroup
  <2>1. /\ doc' = {} /\ flushes' = flushes \cup {flush} /\ flush.doc = doc
        /\ versions' = versions \cup {doc}
        /\ Subscribers = {} /\ UNCHANGED <<at, runner, stored, snapshot>>
    BY <1>4 DEF RemoveInactiveGroup, flush, clientVars
  <2>2. Subscribers' = {}
    BY <2>1 DEF Subscribers
  <2>3. Shared!Close
    BY <1>2, <2>1, <2>2 DEF Shared!Close
  <2>4. QED
    BY <1>1, <1>3, <2>1, <2>3, OriginatedKept DEF Shared!DocumentNext, Originated
<1>5. CASE Crash
  <2>1. /\ doc' = {} /\ flushes' = {} /\ Subscribers' = {} /\ UNCHANGED <<stored, snapshot, versions>>
        /\ \A r \in Runners : runner'[r].doc = {}
    BY <1>5 DEF Crash, storageVars, Subscribers, AtRest
  <2>2. Shared!Close
    BY <1>2, <2>1 DEF Shared!Close
  <2>3. QED
    BY <1>1, <1>3, <2>1, <2>2, OriginatedKept DEF Shared!DocumentNext, Originated
<1>6. CASE Corrupt
  <2>1. UNCHANGED <<at, doc, runner, flushes, stored, snapshot, versions>>
    BY <1>6 DEF Corrupt, clientVars, groupVars
  <2>2. Subscribers' = Subscribers
    BY <2>1 DEF Subscribers
  <2>3. QED
    BY <1>1, <1>2, <2>1, <2>2, OriginatedStays DEF Shared!documentVars
<1>7. ASSUME NEW f \in flushes, EndFlush(f)
      PROVE  UNCHANGED Shared!documentVars /\ Originated'
  <2>1. /\ UNCHANGED <<at, doc, runner, snapshot>> /\ flushes' = flushes \ {f}
        /\ \/ stored' = f.doc /\ versions' = versions \cup {f.doc}
           \/ UNCHANGED <<stored, versions>>
    BY <1>7 DEF EndFlush, FlushWrites, FlushRefused, FlushFails, Store, Refuse, clientVars,
                groupVars, storageVars
  <2>2. Subscribers' = Subscribers
    BY <2>1 DEF Subscribers
  <2>3. QED
    BY <1>1, <1>2, <1>3, <2>1, <2>2, OriginatedKept DEF Shared!documentVars, Originated
<1>8. CASE ForgetSender
  <2>1. UNCHANGED <<at, doc, flushes, stored, snapshot, versions>>
    BY <1>8 DEF ForgetSender, clientVars, groupVars, storageVars
  <2>2. \A q \in Runners : runner'[q].doc = {} \/ \E p \in Runners : runner'[q].doc = runner[p].doc
    <3>1. AtRest.doc = {}
      BY DEF AtRest
    <3>2. QED
      BY <1>1, <1>8, <3>1, ForgetFacts
  <2>3. Subscribers' = Subscribers
    BY <2>1 DEF Subscribers
  <2>4. QED
    BY <1>1, <1>2, <1>3, <2>1, <2>2, <2>3, OriginatedKept DEF Shared!documentVars, Originated
<1>9. QED
  BY <1>4, <1>5, <1>6, <1>7, <1>8

(* The strengthened invariant, and every step's image.                     *)
LEMMA NextImplements ==
  DocumentInv /\ GroupsInv' /\ [Next]_vars
    => [Shared!DocumentNext]_(Shared!documentVars) /\ DocumentInv'
<1> SUFFICES ASSUME DocumentInv, [Next]_vars
             PROVE  [Shared!DocumentNext]_(Shared!documentVars) /\ Originated'
  BY DEF DocumentInv
<1>1. CASE UNCHANGED vars
  <2>1. UNCHANGED <<at, local, doc, runner, flushes, stored, snapshot, versions>>
    BY <1>1 DEF vars, clientVars, groupVars, storageVars
  <2>2. QED
    BY <2>1, OriginatedStays DEF DocumentInv, Subscribers, Shared!documentVars
<1>2. ASSUME NEW r \in Runners, Initialize(r)
      PROVE  [Shared!DocumentNext]_(Shared!documentVars) /\ Originated'
  BY <1>2, InsertGroupImplements, InitImplements
<1>3. CASE Next
  BY <1>2, <1>3, ClientImplements, CommandImplements, ServerImplements DEF Next, Serve
<1>4. QED
  BY <1>1, <1>3

(* However groups of one collab follow or replace one another, loads fail  *)
(* or find something old, flushes are refused, overtaken or lost and the   *)
(* row stops to decode: a document goes back only when nobody subscribes   *)
(* to it, or in a step that drops everybody but the client a second runner *)
(* loads it for; no client loses an update, only subscribers learn of      *)
(* those of others, and none was made by nobody (AllGroup::create_group    *)
(* and tick, CollabStoragePlugin::init and flush).                         *)
THEOREM GroupsImplementDocument == Spec => ImplementsDocument
<1>1. Init => Shared!DocumentInit /\ Originated
  <2> SUFFICES ASSUME Init PROVE Shared!DocumentInit /\ Originated
    OBVIOUS
  <2>1. /\ stored \subseteq Original /\ snapshot = {} /\ doc = {} /\ flushes = {} /\ Subscribers = {}
        /\ \A v \in versions : v \subseteq Original
        /\ \A r \in Runners : runner[r].doc = {}
    BY DEF Init, Subscribers, AtRest
  <2>2. Originated
    BY <2>1, EverythingIs DEF Originated
  <2>3. Shared!DocumentInit
    BY <2>1 DEF Init, Shared!DocumentInit
  <2>4. QED
    BY <2>2, <2>3
<1>2. GroupsInv /\ Originated => DocumentInv
  BY DEF DocumentInv
<1>3. QED
  BY <1>1, <1>2, Invariance, NextImplements, PTL
  DEF Spec, ImplementsDocument, Shared!DocumentSpec

(* While anybody stays subscribed, no command of a runner, no load, no     *)
(* flush and no tick takes an update out of the group's document; only the *)
(* insertion of a second runner's group does, which leaves no subscriber   *)
(* but the one it was loaded for (AllGroup::create_group, remove_group,    *)
(* tick).                                                                  *)
THEOREM DocumentGrowsWhileSubscribed == Spec => SubscribedDocumentGrows
<1> DEFINE Grows == Subscribers \cap Subscribers' # {} =>
                      \/ doc \subseteq doc'
                      \/ /\ MaxRunners > 1
                         /\ \E r \in Runners : InsertGroup(r) /\ Subscribers' = {runner[r].user}
<1>1. GroupsInv /\ [Next]_vars => Grows
  <2> SUFFICES ASSUME GroupsInv, [Next]_vars PROVE Grows
    OBVIOUS
  <2>1. ASSUME NEW r \in Runners, InsertGroup(r) PROVE Grows
    <3>1. /\ Subscribers = {} \/ MaxRunners > 1
          /\ Subscribers' \subseteq {runner[r].user}
      BY <2>1, InsertGroupFacts
    <3>2. Subscribers \cap Subscribers' # {} => MaxRunners > 1 /\ Subscribers' = {runner[r].user}
      BY <3>1
    <3>3. QED
      BY <2>1, <3>2
  <2>2. CASE RemoveInactiveGroup \/ Crash
    <3>1. Subscribers = {} \/ Subscribers' = {}
      BY <2>2 DEF RemoveInactiveGroup, Crash, Subscribers
    <3>2. QED
      BY <3>1
  <2>3. ASSUME NEW u \in Users,
               \/ Open(u) \/ Leave(u) \/ Broadcast(u) \/ Rejoin(u)
               \/ \E e \in Updates : Edit(u, e) \/ ApplyUpdate(u, e)
        PROVE  doc \subseteq doc'
    BY <2>3 DEF Open, Leave, Broadcast, Rejoin, Edit, ApplyUpdate, groupVars
  <2>4. ASSUME NEW r \in Runners, HandleCommand(r) \/ Initialize(r), ~InsertGroup(r)
        PROVE  doc \subseteq doc'
    BY <2>4 DEF HandleCommand, HandleUnconnected, HandleInGroup, create_group, Initialize, InitLoads,
                InitLoadsCached, InitRestores, InitFails, InitFindsNone, insert_new_collab, groupVars
  <2>5. CASE ForgetSender \/ Corrupt \/ UNCHANGED vars \/ \E f \in flushes : EndFlush(f)
    BY <2>5 DEF ForgetSender, Corrupt, EndFlush, FlushWrites, FlushRefused, FlushFails, groupVars, vars
  <2>6. QED
    BY <2>1, <2>2, <2>3, <2>4, <2>5 DEF Next, Serve
<1>2. QED
  BY <1>1, Invariance, PTL DEF Spec, SubscribedDocumentGrows
=============================================================================
