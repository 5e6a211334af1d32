---------------------------- MODULE BackupsProofs ----------------------------
(***************************************************************************)
(* What snapshots, pruning and restoration guarantee although nothing      *)
(* locks them, for any number of processes, seconds and operations.        *)
(*                                                                         *)
(* The heart of the first part: the Keep newest snapshots are never given  *)
(* up, so that what has once been listed for pruning keeps its Keep newer  *)
(* ones (NewerStay).  That of the second: everybody who gets in the way of *)
(* a process leaves a mark on it (touched, hit, robbed, missed, swapped).  *)
(***************************************************************************)
EXTENDS Backups, FiniteSetTheorems, TLAPS

LEMMA FewIds == IsFiniteSet(Id)
<1> USE BackupsAssumption
<1>1. IsFiniteSet(0..MaxTime)
  BY FS_Interval
<1>2. IsFiniteSet(Reason \cup {PreRestore})
  BY FS_AddElement
<1>3. QED
  BY <1>1, <1>2, FS_Product DEF Id

\* Names are pairs of numbers, sorted like words.
LEMMA NewerOrder ==
  ASSUME NEW i \in Id, NEW j \in Id, NEW k \in Id
  PROVE  ~Newer(i, i) /\ (Newer(i, j) /\ Newer(j, k) => Newer(i, k))
<1>1. \A n \in Id : n[1] \in 0..MaxTime /\ n[2] \in Reason \cup {PreRestore}
  BY DEF Id
<1>2. (\A m \in 0..MaxTime : m \in Nat) /\ (\A m \in Reason \cup {PreRestore} : m \in Nat)
  BY BackupsAssumption DEF PreRestore
<1>3. \A n \in Id : n[1] \in Nat /\ n[2] \in Nat
  BY <1>1, <1>2
<1>4. QED
  BY <1>3 DEF Newer

LEMMA FewNewer ==
  ASSUME NEW S \in SUBSET Id, NEW i \in Id, NEW T \in SUBSET {j \in S : Newer(j, i)}
  PROVE  /\ Cardinality(T) \in Nat
         /\ Cardinality({j \in S : Newer(j, i)}) \in Nat
         /\ Cardinality(T) <= Cardinality({j \in S : Newer(j, i)})
<1>1. IsFiniteSet({j \in S : Newer(j, i)})
  BY FewIds, FS_Subset
<1>2. IsFiniteSet(T) /\ Cardinality(T) <= Cardinality({j \in S : Newer(j, i)})
  BY <1>1, FS_Subset
<1>3. QED
  BY <1>1, <1>2, FS_CardinalityType

\* One snapshot k is removed, and only for Keep newer ones: whatever had Keep newer
\* ones still has, perhaps those that k had.
LEMMA NewerStay ==
  ASSUME NEW S \in SUBSET Id, NEW T \in SUBSET Id, NEW k \in Id, NEW i \in Id,
         S \ {k} \subseteq T,
         k \in S \ T => Cardinality({j \in S : Newer(j, k)}) >= Keep,
         Cardinality({j \in S : Newer(j, i)}) >= Keep
  PROVE  Cardinality({j \in T : Newer(j, i)}) >= Keep
<1> USE BackupsAssumption
<1>1. CASE k \in S \ T /\ Newer(k, i)
  <2>1. {j \in S : Newer(j, k)} \subseteq {j \in T : Newer(j, i)}
    <3> SUFFICES ASSUME NEW j \in S, Newer(j, k) PROVE j \in T /\ Newer(j, i)
      OBVIOUS
    <3>1. j # k
      BY NewerOrder
    <3>2. Newer(j, i)
      BY <1>1, NewerOrder
    <3>3. QED
      BY <3>1, <3>2
  <2>2. QED
    BY <1>1, <2>1, FewNewer
<1>2. CASE ~(k \in S \ T /\ Newer(k, i))
  <2>1. {j \in S : Newer(j, i)} \subseteq {j \in T : Newer(j, i)}
    BY <1>2
  <2>2. QED
    BY <2>1, FewNewer
<1>3. QED
  BY <1>1, <1>2

LEMMA Initially == Init => IInv
<1> SUFFICES ASSUME Init PROVE IInv
  OBVIOUS
<1> USE BackupsAssumption, NoneAssumption DEF Init
<1>1. Start \in Roots /\ Start \in Files /\ Empty \in Files /\ NoId \in Id
  BY DEF Start, Roots, Files, Empty, Content, NoId, Id, PreRestore
<1>2. Old \in Snapshot
  BY <1>1 DEF Old, Snapshot
<1>3. PICK old \in SUBSET ({0} \X Reason) :
        snaps = [i \in Id |-> IF i \in old THEN Old ELSE None]
  OBVIOUS
<1>4. TypeOK
  BY <1>1, <1>2, <1>3 DEF TypeOK, Content, Steps
<1>5. SnapshotsWhole
  BY <1>1, <1>3 DEF SnapshotsWhole, Published, Old, Start
<1>6. QED
  BY <1>4, <1>5
  DEF IInv, ListedOld, PrunesAlone, RootKept, CopyKept, MadeKept, ChosenKept, AppliedKept,
      Active

-----------------------------------------------------------------------------
(* Steps that leave the published snapshots and the lists alone.           *)

\* As long as nothing is published or removed, these parts stay.
LEMMA SameSnapshots ==
  ASSUME SnapshotsWhole, ListedOld, UNCHANGED <<snaps, todo>>
  PROVE  SnapshotsWhole' /\ ListedOld'
  BY DEF SnapshotsWhole, ListedOld, Published, NewerThan

\* Whoever is at work has its mark.
LEMMA TouchMarks ==
  ASSUME TypeOK, NEW others \in SUBSET Proc, NEW x \in Part, Touch(others, x)
  PROVE  /\ touched' \in [Proc -> SUBSET Part]
         /\ \A q \in Proc : /\ touched[q] \subseteq touched'[q]
                            /\ q \in others /\ Active(q) => x \in touched'[q]
                            /\ q \notin others => touched'[q] = touched[q]
  BY DEF Touch, TypeOK

LEMMA EditKeeps ==
  ASSUME IInv, EditFirst \/ EditSecond
  PROVE  IInv'
<1> USE BackupsAssumption DEF IInv, EditFirst, EditSecond, work
<1>1. PICK x \in Part : Touch(Proc, x) /\ \A y \in Part \ {x} : root'[y] = root[y]
  BY DEF TypeOK, Roots, Part
<1>2. /\ touched' \in [Proc -> SUBSET Part]
      /\ \A q \in Proc : /\ touched[q] \subseteq touched'[q]
                         /\ Active(q) => x \in touched'[q]
  BY <1>1, TouchMarks
<1>3. TypeOK'
  <2>1. root' \in Roots /\ edit' \in Content /\ edits' \in Content
    BY DEF TypeOK, Roots, Content, Part
  <2>2. QED
    BY <1>2, <2>1 DEF TypeOK
<1>4. SnapshotsWhole' /\ ListedOld'
  BY SameSnapshots
<1>5. PrunesAlone' /\ ChosenKept'
  BY DEF PrunesAlone, ChosenKept, Active
<1>6. RootKept'
  BY <1>1, <1>2 DEF RootKept, Active
<1>7. AppliedKept'
  BY <1>1, <1>2 DEF AppliedKept, Active
<1>8. CopyKept'
  BY <1>2 DEF CopyKept, Sound
<1>9. MadeKept'
  BY <1>2 DEF MadeKept, Sound
<1>10. QED
  BY <1>3, <1>4, <1>5, <1>6, <1>7, <1>8, <1>9

LEMMA EnterKeeps ==
  ASSUME IInv, NEW p \in Proc,
         (\E r \in Reason : Backup(p, r)) \/ (\E i \in Id : Restore(p, i))
  PROVE  IInv'
<1> USE BackupsAssumption, NoneAssumption DEF IInv
<1> DEFINE Entered(source, content, name) ==
      /\ id' = [id EXCEPT ![p] = name]
      /\ Enter(p, source, content)
      /\ source # None => snaps[source] # None /\ snaps[source].files = content
<1>1. PICK source \in Id \cup {None}, content \in Files, name \in Id :
        Entered(source, content, name)
  <2> SUFFICES \E source \in Id \cup {None}, content \in Files, name \in Id :
                 Entered(source, content, name)
    OBVIOUS
  <2>1. CASE \E r \in Reason : Backup(p, r)
    <3>1. PICK r \in Reason : Backup(p, r)
      BY <2>1
    <3>2. <<0, r>> \in Id /\ Empty \in Files
      BY DEF Id, Empty, Files
    <3>3. Entered(None, Empty, <<0, r>>)
      BY <3>1 DEF Backup
    <3>4. QED
      BY <3>2, <3>3
  <2>2. CASE \E i \in Id : Restore(p, i)
    <3>1. PICK i \in Id : Restore(p, i)
      BY <2>2
    <3>2. <<0, PreRestore>> \in Id
      BY DEF Id
    <3>3. snaps[i].files \in Files
      BY <3>1 DEF Restore, TypeOK, Snapshot
    <3>4. Entered(i, snaps[i].files, <<0, PreRestore>>)
      BY <3>1 DEF Restore
    <3>5. QED
      BY <3>2, <3>3, <3>4
  <2>3. QED
    BY <2>1, <2>2
<1> USE <1>1 DEF Enter, Goto, files
<1>2. TypeOK'
  BY DEF TypeOK, Steps
<1>3. SnapshotsWhole' /\ ListedOld'
  BY SameSnapshots
<1>4. PrunesAlone' /\ ChosenKept'
  BY DEF PrunesAlone, ChosenKept, Active, TypeOK
<1>5. RootKept' /\ AppliedKept'
  BY DEF RootKept, AppliedKept, Active, TypeOK
<1>6. CopyKept'
  BY DEF CopyKept, Sound, TypeOK
<1>7. MadeKept'
  BY DEF MadeKept, Sound, TypeOK
<1>8. QED
  BY <1>2, <1>3, <1>4, <1>5, <1>6, <1>7

\* Whoever loses its temporary directory has its mark.
LEMMA PrepareKeeps ==
  ASSUME IInv, NEW p \in Proc, Prepare(p)
  PROVE  IInv'
<1> USE BackupsAssumption, NoneAssumption DEF IInv, Prepare, Goto, files
<1>1. TypeOK'
  <2>1. \A i \in Id, n \in 0..MaxTime : <<n, i[2]>> \in Id
    BY DEF Id
  <2>2. clock' \in 0..MaxTime
    BY DEF TypeOK
  <2>3. id' \in [Proc -> Id]
    BY <2>1, <2>2 DEF TypeOK
  <2>4. temp' \in [Proc -> Files \cup {None}] /\ hit' \in [Proc -> BOOLEAN]
    BY DEF TypeOK, Active
  <2>5. QED
    BY <2>2, <2>3, <2>4 DEF TypeOK, Steps
<1>2. SnapshotsWhole' /\ ListedOld'
  BY SameSnapshots
<1>3. PrunesAlone' /\ ChosenKept' /\ RootKept' /\ AppliedKept'
  BY DEF PrunesAlone, ChosenKept, RootKept, AppliedKept, Active, TypeOK
<1>4. CopyKept'
  <2> SUFFICES ASSUME NEW q \in Proc, pc'[q] \in {"copy", "publish"}, Sound(q)'
               PROVE  /\ temp'[q] # None
                      /\ pc'[q] = "publish" => left'[q] = {}
                      /\ \A x \in Part \ left'[q] :
                           /\ temp'[q][x] # None
                           /\ x \notin touched'[q] => temp'[q][x] = before'[q][x]
    BY DEF CopyKept
  <2>1. CASE q = p
    BY <2>1 DEF TypeOK, Empty, Files
  <2>2. CASE q # p
    <3>1. pc[q] = pc'[q] /\ left[q] = left'[q] /\ Active(q) /\ Sound(q)
      BY <2>2 DEF TypeOK, Active, Sound
    <3>2. temp[q] # None
      BY <3>1 DEF CopyKept
    <3>3. temp'[q] = temp[q]
      BY <2>2, <3>1, <3>2 DEF Sound
    <3>4. QED
      BY <3>1, <3>3 DEF CopyKept
  <2>3. QED
    BY <2>1, <2>2
<1>5. MadeKept'
  BY DEF MadeKept, Sound, TypeOK
<1>6. QED
  BY <1>1, <1>2, <1>3, <1>4, <1>5

LEMMA CopyKeeps ==
  ASSUME IInv, NEW p \in Proc, Copy(p)
  PROVE  IInv'
<1> USE BackupsAssumption, NoneAssumption DEF IInv, Copy, Goto, files, history
<1>1. PICK x \in left[p] :
        /\ left' = [left EXCEPT ![p] = @ \ {x}]
        /\ \/ /\ temp' = [temp EXCEPT ![p] = [Held(p) EXCEPT ![x] = root[x]]]
              /\ UNCHANGED skipped
           \/ /\ temp' \in {temp, [temp EXCEPT ![p] = Held(p)]}
              /\ skipped' = [skipped EXCEPT ![p] = TRUE]
        /\ Goto(p, AfterCopy(p, x))
  OBVIOUS
<1>2. x \in Part /\ root[x] \in Content /\ root[x] # None
  BY DEF TypeOK, Roots, Content
<1>3. Held(p) \in Files
  BY DEF Held, TypeOK, Empty, Files
<1>4. TypeOK'
  <2>1. [Held(p) EXCEPT ![x] = root[x]] \in Files
    BY <1>2, <1>3 DEF Files
  <2>2. temp' \in [Proc -> Files \cup {None}]
    BY <1>1, <1>3, <2>1 DEF TypeOK
  <2>3. skipped' \in [Proc -> BOOLEAN] /\ left' \in [Proc -> SUBSET Part]
    BY <1>1 DEF TypeOK
  <2>4. pc' \in [Proc -> Steps]
    BY <1>1 DEF TypeOK, AfterCopy, Steps
  <2>5. QED
    BY <2>2, <2>3, <2>4 DEF TypeOK
<1>5. SnapshotsWhole' /\ ListedOld'
  BY SameSnapshots
<1>6. pc[p] = "copy" /\ pc' = [pc EXCEPT ![p] = AfterCopy(p, x)]
      /\ AfterCopy(p, x) \in {"copy", "publish"}
  BY <1>1 DEF AfterCopy
<1>7. PrunesAlone' /\ ChosenKept' /\ RootKept' /\ AppliedKept'
  BY <1>1, <1>6 DEF PrunesAlone, ChosenKept, RootKept, AppliedKept, Active, TypeOK
<1>8. CopyKept'
  <2> SUFFICES ASSUME NEW q \in Proc, pc'[q] \in {"copy", "publish"}, Sound(q)'
               PROVE  /\ temp'[q] # None
                      /\ pc'[q] = "publish" => left'[q] = {}
                      /\ \A y \in Part \ left'[q] :
                           /\ temp'[q][y] # None
                           /\ y \notin touched'[q] => temp'[q][y] = before'[q][y]
    BY DEF CopyKept
  <2>1. CASE q = p
    <3>1. skipped' = skipped /\ Sound(p)
      BY <1>1, <2>1 DEF Sound, TypeOK
    <3>2. temp' = [temp EXCEPT ![p] = [Held(p) EXCEPT ![x] = root[x]]]
      BY <1>1, <2>1 DEF Sound, TypeOK
    <3>3. Held(p) = temp[p] /\ temp[p] \in Files
      BY <1>6, <3>1 DEF CopyKept, Held, TypeOK
    <3>4. temp'[p] = [temp[p] EXCEPT ![x] = root[x]] /\ temp'[p] \in Files
      BY <1>2, <3>2, <3>3 DEF TypeOK, Files
    <3>5. x \notin touched[p] => root[x] = before[p][x]
      BY <1>2, <1>6 DEF RootKept, Active
    <3>6. left'[p] = left[p] \ {x}
      BY <1>1 DEF TypeOK
    <3>7. pc'[p] = "publish" => left'[p] = {}
      BY <1>6, <3>6 DEF AfterCopy, TypeOK
    <3>8. ASSUME NEW y \in Part \ left'[p]
          PROVE  temp'[p][y] # None /\ (y \notin touched[p] => temp'[p][y] = before[p][y])
      <4>1. CASE y = x
        BY <1>2, <3>3, <3>4, <3>5, <4>1 DEF Files
      <4>2. CASE y # x
        BY <1>6, <3>1, <3>3, <3>4, <3>6, <4>2 DEF CopyKept, Files
      <4>3. QED
        BY <4>1, <4>2
    <3>9. QED
      BY <2>1, <3>4, <3>7, <3>8
  <2>2. CASE q # p
    BY <1>1, <1>6, <2>2 DEF CopyKept, Sound, TypeOK
  <2>3. QED
    BY <2>1, <2>2
<1>9. MadeKept'
  BY <1>1, <1>6 DEF MadeKept, Sound, TypeOK
<1>10. QED
  BY <1>4, <1>5, <1>7, <1>8, <1>9

-----------------------------------------------------------------------------
(* Steps that publish, list or prune.                                      *)

\* A process that is over keeps nothing, and the others keep theirs.
LEMMA EndsKeeps ==
  ASSUME IInv, NEW p \in Proc, Ends(p), UNCHANGED <<files, clock, snaps>>,
         \/ temp' = temp
         \/ temp' = [temp EXCEPT ![p] = None]
  PROVE  IInv'
<1> USE BackupsAssumption DEF IInv, Ends, Goto, files
<1>1. TypeOK'
  <2>1. Start \in Roots /\ Empty \in Files /\ NoId \in Id
    BY DEF Start, Roots, Content, Empty, Files, NoId, Id
  <2>2. temp' \in [Proc -> Files \cup {None}]
    BY DEF TypeOK
  <2>3. QED
    BY <2>1, <2>2 DEF TypeOK, Steps
<1>2. SnapshotsWhole' /\ ListedOld'
  BY DEF SnapshotsWhole, ListedOld, Published, NewerThan, TypeOK
<1>3. PrunesAlone' /\ ChosenKept' /\ RootKept' /\ AppliedKept'
  BY DEF PrunesAlone, ChosenKept, RootKept, AppliedKept, Active, TypeOK
<1>4. CopyKept' /\ MadeKept'
  BY DEF CopyKept, MadeKept, Sound, TypeOK
<1>5. QED
  BY <1>2, <1>1, <1>3, <1>4

\* Only a name that is not in use is published, with what CopyKept promises; who
\* restores by that name is marked.
LEMMA PublishKeeps ==
  ASSUME IInv, NEW p \in Proc, Publish(p)
  PROVE  IInv'
<1> USE BackupsAssumption, NoneAssumption DEF IInv, files, work
<1>1. CASE ~(temp[p] # None /\ snaps[id[p]] = None)
  <2>1. Ends(p) /\ UNCHANGED <<files, clock, snaps>> /\ temp' = [temp EXCEPT ![p] = None]
    BY <1>1 DEF Publish, AfterFailure
  <2>2. QED
    BY <2>1, EndsKeeps
<1>2. CASE temp[p] # None /\ snaps[id[p]] = None
  <2>1. /\ temp[p] # None /\ snaps[id[p]] = None
        /\ pc[p] = "publish" /\ temp' = [temp EXCEPT ![p] = None]
        /\ snaps' = [snaps EXCEPT ![id[p]] = Made(p)]
        /\ swapped' = [q \in Proc |-> swapped[q] \/ (Active(q) /\ from[q] = id[p])]
        /\ pc' = [pc EXCEPT ![p] = IF from[p] = None THEN "list" ELSE "check"]
        /\ UNCHANGED <<files, clock, work, before, wanted, touched, hit, robbed, missed>>
    BY <1>2 DEF Publish, Goto, Prunes, AfterBackup
  <2>2. Made(p) \in Snapshot
    BY <2>1 DEF Made, Snapshot, TypeOK, Sound
  <2>3. TypeOK'
    <3>1. snaps' \in [Id -> Snapshot \cup {None}] /\ pc' \in [Proc -> Steps]
      BY <2>1, <2>2 DEF TypeOK, Steps
    <3>2. temp' \in [Proc -> Files \cup {None}] /\ swapped' \in [Proc -> BOOLEAN]
      BY <2>1 DEF TypeOK, Active
    <3>3. QED
      BY <2>1, <3>1, <3>2 DEF TypeOK
  <2>4. \A i \in Id : snaps[i] # None => snaps'[i] = snaps[i]
    BY <2>1 DEF TypeOK
  <2>5. Sound(p) => \A x \in Part : /\ temp[p][x] # None
                                    /\ x \notin touched[p] => temp[p][x] = before[p][x]
    BY <2>1 DEF CopyKept
  <2>6. Sound(p) /\ touched[p] = {} => temp[p] = before[p]
    <3> SUFFICES ASSUME Sound(p), touched[p] = {} PROVE temp[p] = before[p]
      OBVIOUS
    <3>1. \A x \in Part : temp[p][x] = before[p][x]
      BY <2>5
    <3>2. temp[p] \in Files /\ before[p] \in Roots
      BY <2>1 DEF TypeOK
    <3>3. QED
      BY <3>1, <3>2 DEF Files, Roots
  <2>7. SnapshotsWhole'
    <3> SUFFICES ASSUME NEW i \in Id, snaps'[i] # None
                 PROVE  /\ snaps'[i].sound => \A x \in Part : snaps'[i].files[x] # None
                        /\ snaps'[i].was # None => snaps'[i].files = snaps'[i].was
      BY DEF SnapshotsWhole, Published
    <3>1. CASE snaps'[i] = snaps[i]
      BY <3>1 DEF SnapshotsWhole, Published
    <3>2. CASE snaps'[i] = Made(p)
      BY <2>5, <2>6, <3>2 DEF Made
    <3>3. QED
      BY <2>1, <3>1, <3>2 DEF TypeOK
  <2>8. ListedOld'
    <3> SUFFICES ASSUME NEW q \in Proc, NEW i \in todo[q]
                 PROVE  Cardinality(NewerThan(i)') >= Keep
      BY <2>1 DEF ListedOld
    <3>1. i \in Id /\ Published \subseteq Published' /\ Published' \subseteq Id
      BY <2>4 DEF TypeOK, Published
    <3>2. Cardinality({j \in Published : Newer(j, i)}) >= Keep
      BY DEF ListedOld, NewerThan
    <3>3. Cardinality({j \in Published' : Newer(j, i)}) >= Keep
      BY <3>1, <3>2, NewerStay
    <3>4. QED
      BY <3>3 DEF NewerThan
  <2>9. \A q \in Proc : swapped[q] => swapped'[q]
    BY <2>1
  <2>10. PrunesAlone' /\ RootKept' /\ AppliedKept'
    BY <2>1, <2>9 DEF PrunesAlone, RootKept, AppliedKept, Active, TypeOK
  <2>11. ChosenKept'
    <3> SUFFICES ASSUME NEW q \in Proc, Active(q)', from[q] # None, ~swapped'[q], NEW x \in Part
                 PROVE  \/ snaps'[from[q]] # None /\ snaps'[from[q]].files[x] = wanted[q][x]
                        \/ /\ x \in missed[q] \/ wanted[q][x] = None
                           /\ snaps'[from[q]] # None => snaps'[from[q]].files[x] = None
      BY <2>1 DEF ChosenKept
    <3>1. Active(q) /\ from[q] \in Id /\ from[q] # id[p] /\ ~swapped[q]
      BY <2>1 DEF Active, TypeOK
    <3>2. snaps'[from[q]] = snaps[from[q]]
      BY <2>1, <3>1 DEF TypeOK
    <3>3. QED
      BY <3>1, <3>2 DEF ChosenKept
  <2>12. CopyKept'
    BY <2>1 DEF CopyKept, Sound, TypeOK
  <2>13. MadeKept'
    <3> SUFFICES ASSUME NEW q \in Proc, from[q] # None, pc'[q] \in {"check", "apply", "done"},
                        Sound(q), ~robbed[q]
                 PROVE  /\ snaps'[id[q]] # None
                        /\ \A x \in Part \ touched[q] : snaps'[id[q]].files[x] = before[q][x]
      BY <2>1 DEF MadeKept, Sound
    <3>1. id[q] \in Id
      BY DEF TypeOK
    <3>2. CASE q = p
      <4>1. snaps'[id[p]] = Made(p) /\ Made(p) # None /\ Made(p).files = temp[p]
        BY <2>1, <2>2, <3>1, <3>2 DEF TypeOK, Made
      <4>2. QED
        BY <2>5, <3>2, <4>1
    <3>3. CASE q # p
      BY <2>1, <2>4, <3>1, <3>3 DEF MadeKept, TypeOK
    <3>4. QED
      BY <3>2, <3>3
  <2>14. QED
    BY <2>3, <2>7, <2>8, <2>10, <2>11, <2>12, <2>13
<1>3. QED
  BY <1>1, <1>2

LEMMA ListKeeps ==
  ASSUME IInv, NEW p \in Proc, ListOld(p)
  PROVE  IInv'
<1> USE BackupsAssumption DEF IInv, ListOld, Goto, files, history
<1>1. TypeOK'
  <2>1. Surplus(Published) \in SUBSET Id
    BY DEF Surplus, Published
  <2>2. QED
    BY <2>1 DEF TypeOK, Steps
<1>2. SnapshotsWhole'
  BY DEF SnapshotsWhole, Published
<1>3. ListedOld'
  BY DEF ListedOld, Surplus, NewerThan, Published, TypeOK
<1>4. PrunesAlone' /\ ChosenKept' /\ RootKept' /\ AppliedKept'
  BY DEF PrunesAlone, ChosenKept, RootKept, AppliedKept, Active, TypeOK
<1>5. CopyKept' /\ MadeKept'
  BY DEF CopyKept, MadeKept, Sound, TypeOK
<1>6. QED
  BY <1>1, <1>2, <1>3, <1>4, <1>5

\* A snapshot is pruned for Keep newer ones, and whoever works with it is marked.
LEMMA PruneKeeps ==
  ASSUME IInv, NEW p \in Proc, PruneFile(p) \/ PruneDir(p)
  PROVE  IInv'
<1> USE BackupsAssumption, NoneAssumption DEF IInv, files
<1> DEFINE Less(k, x) == [files |-> [snaps[k].files EXCEPT ![x] = None],
                          sound |-> FALSE, was |-> None]
           Marks(k, x) == missed' = [q \in Proc |-> IF q # p /\ Active(q) /\ from[q] = k
                                                  THEN missed[q] \cup {x} ELSE missed[q]]
           Fewer(k) == /\ snaps[k] # None /\ UNCHANGED todo
                       /\ \E x \in Part : /\ snaps' = [snaps EXCEPT ![k] = Less(k, x)]
                                          /\ Marks(k, x)
           Removed(k) == /\ snaps[k] # None /\ snaps[k].files = Empty /\ UNCHANGED missed
                         /\ snaps' = [snaps EXCEPT ![k] = None]
                         /\ todo' = [todo EXCEPT ![p] = @ \ {k}]
<1>1. PICK k \in Oldest(todo[p]) : Robs(p, k) /\ (Fewer(k) \/ Removed(k))
  <2>1. CASE PruneFile(p)
    <3>1. PICK k \in Oldest(todo[p]), x \in Part :
            /\ snaps[k] # None /\ Robs(p, k) /\ Marks(k, x) /\ UNCHANGED todo
            /\ snaps' = [snaps EXCEPT ![k] = [files |-> [@.files EXCEPT ![x] = None],
                                             sound |-> FALSE, was |-> None]]
      BY <2>1 DEF PruneFile, work
    <3>2. k \in Id
      BY DEF Oldest, TypeOK
    <3>3. snaps' = [snaps EXCEPT ![k] = Less(k, x)]
      BY <3>1, <3>2 DEF TypeOK
    <3>4. QED
      BY <3>1, <3>3
  <2>2. CASE PruneDir(p)
    BY <2>2 DEF PruneDir
  <2>3. QED
    BY <2>1, <2>2
<1>2. /\ pc[p] = "prune" /\ pc' = pc
      /\ UNCHANGED <<root, edit, edits, clock, temp, from, id, left, skipped, before, wanted,
                     touched, hit, swapped>>
  BY DEF PruneFile, PruneDir, work
<1>3. k \in todo[p] /\ k \in Id /\ from[p] = None /\ snaps[k] # None
  BY <1>1, <1>2 DEF Oldest, TypeOK, PrunesAlone
<1>4. \A x \in Part : Less(k, x) \in Snapshot
  BY <1>3 DEF TypeOK, Snapshot, Files
<1>5. TypeOK'
  <2>1. snaps' \in [Id -> Snapshot \cup {None}]
    <3>1. CASE snaps' = [snaps EXCEPT ![k] = None]
      BY <3>1 DEF TypeOK
    <3>2. ASSUME NEW x \in Part, snaps' = [snaps EXCEPT ![k] = Less(k, x)]
          PROVE  snaps' \in [Id -> Snapshot \cup {None}]
      <4>1. Less(k, x) \in Snapshot
        BY <1>4, <3>2
      <4> HIDE DEF Less
      <4>2. QED
        BY <3>2, <4>1 DEF TypeOK
    <3>3. QED
      BY <1>1, <3>1, <3>2
  <2>2. todo' \in [Proc -> SUBSET Id]
    BY <1>1 DEF TypeOK
  <2>3. robbed' \in [Proc -> BOOLEAN]
    BY <1>1 DEF Robs
  <2>4. missed' \in [Proc -> SUBSET Part]
    <3>1. CASE UNCHANGED missed
      BY <3>1 DEF TypeOK
    <3>2. ASSUME NEW x \in Part, Marks(k, x) PROVE missed' \in [Proc -> SUBSET Part]
      BY <3>2 DEF TypeOK
    <3>3. QED
      BY <1>1, <3>1, <3>2
  <2>5. QED
    BY <1>2, <2>1, <2>2, <2>3, <2>4 DEF TypeOK
<1>6. \A i \in Id \ {k} : snaps'[i] = snaps[i]
  BY <1>1 DEF TypeOK
<1>7. snaps'[k] = None \/ \E x \in Part : snaps'[k] = Less(k, x)
  BY <1>1, <1>3 DEF TypeOK
<1>8. SnapshotsWhole'
  <2> SUFFICES ASSUME NEW i \in Id, snaps'[i] # None
               PROVE  /\ snaps'[i].sound => \A x \in Part : snaps'[i].files[x] # None
                      /\ snaps'[i].was # None => snaps'[i].files = snaps'[i].was
    BY DEF SnapshotsWhole, Published
  <2>1. CASE snaps'[i] = snaps[i]
    BY <2>1 DEF SnapshotsWhole, Published
  <2>2. CASE \E x \in Part : snaps'[i] = Less(k, x)
    BY <2>2
  <2>3. QED
    BY <1>6, <1>7, <2>1, <2>2
<1>9. ListedOld'
  <2> SUFFICES ASSUME NEW q \in Proc, NEW i \in todo'[q]
               PROVE  Cardinality(NewerThan(i)') >= Keep
    BY DEF ListedOld
  <2>1. i \in todo[q] /\ i \in Id
    BY <1>1 DEF TypeOK
  <2>2. Published \ {k} \subseteq Published' /\ Published' \subseteq Id /\ Published \subseteq Id
    BY <1>6 DEF Published
  <2>3. /\ Cardinality({j \in Published : Newer(j, i)}) >= Keep
        /\ Cardinality({j \in Published : Newer(j, k)}) >= Keep
    BY <1>3, <2>1 DEF ListedOld, NewerThan
  <2>4. Cardinality({j \in Published' : Newer(j, i)}) >= Keep
    <3> HIDE DEF IInv, Fewer, Removed
    <3>1. k \in Id
      BY <1>3
    <3>2. Published \in SUBSET Id /\ Published' \in SUBSET Id
      BY <2>2
    <3>3. k \in Published \ Published' => Cardinality({j \in Published : Newer(j, k)}) >= Keep
      BY <2>3
    <3>4. QED
      BY <2>1, <2>2, <2>3, <3>1, <3>2, <3>3, NewerStay, ZenonT(60)
  <2>5. QED
    BY <2>4 DEF NewerThan
<1>10. PrunesAlone' /\ RootKept'
  BY <1>2 DEF PrunesAlone, RootKept, Active
\* The others keep what they have, unless they are marked.
<1>11. \A q \in Proc : /\ robbed[q] => robbed'[q]
                       /\ q # p /\ Active(q) /\ ~robbed'[q] /\ id[q] \in Id =>
                            snaps'[id[q]] = snaps[id[q]]
  BY <1>1, <1>6 DEF Robs, Has
<1>12. \A q \in Proc : missed[q] \subseteq missed'[q]
  <2>1. CASE UNCHANGED missed
    BY <2>1
  <2>2. ASSUME NEW x \in Part, Marks(k, x) PROVE \A q \in Proc : missed[q] \subseteq missed'[q]
    BY <2>2
  <2>3. QED
    BY <1>1, <2>1, <2>2
<1>13. ChosenKept'
  <2> SUFFICES ASSUME NEW q \in Proc, Active(q), from[q] # None, ~swapped[q], NEW y \in Part
               PROVE  \/ snaps'[from[q]] # None /\ snaps'[from[q]].files[y] = wanted[q][y]
                      \/ /\ y \in missed'[q] \/ wanted[q][y] = None
                         /\ snaps'[from[q]] # None => snaps'[from[q]].files[y] = None
    BY <1>2 DEF ChosenKept, Active
  <2>1. q # p /\ from[q] \in Id
    BY <1>3 DEF TypeOK
  <2>2. \/ snaps[from[q]] # None /\ snaps[from[q]].files[y] = wanted[q][y]
        \/ /\ y \in missed[q] \/ wanted[q][y] = None
           /\ snaps[from[q]] # None => snaps[from[q]].files[y] = None
    BY DEF ChosenKept
  <2>3. CASE from[q] # k
    BY <1>6, <1>12, <2>1, <2>2, <2>3
  <2>4. CASE from[q] = k /\ Removed(k)
    <3>1. snaps[k].files[y] = None /\ snaps'[k] = None
      BY <1>3, <2>4 DEF TypeOK, Empty
    <3>2. QED
      BY <1>3, <1>12, <2>2, <2>4, <3>1
  <2>5. ASSUME from[q] = k, NEW x \in Part, snaps' = [snaps EXCEPT ![k] = Less(k, x)], Marks(k, x)
        PROVE  \/ snaps'[k] # None /\ snaps'[k].files[y] = wanted[q][y]
               \/ /\ y \in missed'[q] \/ wanted[q][y] = None
                  /\ snaps'[k] # None => snaps'[k].files[y] = None
    <3>1. snaps'[k] = Less(k, x) /\ Less(k, x) # None
      BY <1>3, <1>4, <2>5 DEF TypeOK
    <3>2. snaps[k].files \in Files
      BY <1>3 DEF TypeOK, Snapshot
    <3>3. snaps'[k].files[y] = IF y = x THEN None ELSE snaps[k].files[y]
      BY <3>1, <3>2 DEF Files
    <3>4. x \in missed'[q]
      BY <2>1, <2>5
    <3>5. CASE y = x
      BY <3>3, <3>4, <3>5
    <3>6. CASE y # x
      <4> HIDE DEF Less, Marks
      <4>1. QED
        BY <1>3, <1>12, <2>2, <2>5, <3>1, <3>3, <3>6
    <3>7. QED
      BY <3>5, <3>6
  <2>6. QED
    BY <1>1, <2>3, <2>4, <2>5
<1>14. MadeKept'
  <2> SUFFICES ASSUME NEW q \in Proc, from[q] # None, pc[q] \in {"check", "apply", "done"},
                      Sound(q), ~robbed'[q]
               PROVE  /\ snaps'[id[q]] # None
                      /\ \A x \in Part \ touched[q] : snaps'[id[q]].files[x] = before[q][x]
    BY <1>2 DEF MadeKept, Sound
  <2>1. q # p /\ Active(q) /\ ~robbed[q] /\ id[q] \in Id
    BY <1>3, <1>11 DEF Active, TypeOK
  <2>2. QED
    BY <1>11, <2>1 DEF MadeKept
<1>15. AppliedKept'
  BY <1>2, <1>12 DEF AppliedKept
<1>16. CopyKept'
  BY <1>2 DEF CopyKept, Sound
<1>17. QED
  BY <1>5, <1>8, <1>9, <1>10, <1>13, <1>14, <1>15, <1>16

-----------------------------------------------------------------------------
(* Steps of a restoration, and the end.                                    *)

LEMMA TurnKeeps ==
  ASSUME IInv, NEW p \in Proc, PruneDone(p) \/ (CheckSource(p) /\ ~Ends(p))
  PROVE  IInv'
<1> USE BackupsAssumption
    DEF IInv, PruneDone, CheckSource, Goto, files, work, history
<1>1. TypeOK'
  BY DEF TypeOK, AfterBackup, Steps
<1>2. SnapshotsWhole' /\ ListedOld'
  BY SameSnapshots
<1>3. /\ pc' = [pc EXCEPT ![p] = pc'[p]] /\ UNCHANGED history
      /\ \/ pc[p] = "prune" /\ from[p] = None /\ pc'[p] = "done" /\ left' = left
         \/ /\ pc[p] = "check" /\ from[p] # None /\ pc'[p] = "apply"
            /\ left' = [left EXCEPT ![p] = Part]
  BY DEF PrunesAlone, AfterBackup, TypeOK
<1>4. PrunesAlone' /\ ChosenKept' /\ RootKept'
  BY <1>3 DEF PrunesAlone, ChosenKept, RootKept, Active, TypeOK
<1>5. AppliedKept'
  <2> SUFFICES ASSUME NEW q \in Proc, from[q] # None, pc'[q] \in {"apply", "done"}, ~swapped[q],
                      NEW x \in Part \ touched[q]
               PROVE  /\ root[x] \in {wanted[q][x], before[q][x]}
                      /\ pc'[q] = "apply" /\ x \in left'[q] => root[x] = before[q][x]
                      /\ /\ wanted[q][x] # None /\ x \notin missed[q]
                         /\ x \notin left'[q] \/ pc'[q] = "done"
                         => root[x] = wanted[q][x]
    BY <1>3 DEF AppliedKept
  <2>1. CASE q = p
    <3>1. pc[p] = "check" /\ pc'[p] = "apply" /\ x \in left'[p]
      BY <1>3, <2>1 DEF TypeOK
    <3>2. root[x] = before[p][x]
      BY <2>1, <3>1 DEF RootKept, Active
    <3>3. QED
      BY <2>1, <3>1, <3>2
  <2>2. CASE q # p
    BY <1>3, <2>2 DEF AppliedKept, TypeOK
  <2>3. QED
    BY <2>1, <2>2
<1>6. CopyKept' /\ MadeKept'
  BY <1>3 DEF CopyKept, MadeKept, Sound, TypeOK
<1>7. QED
  BY <1>1, <1>2, <1>4, <1>5, <1>6

\* The file that is replaced holds what was chosen, whatever was pruned.
LEMMA ApplyKeeps ==
  ASSUME IInv, NEW p \in Proc, Apply(p)
  PROVE  IInv'
<1> USE BackupsAssumption, NoneAssumption DEF IInv, Apply, files
<1>1. PICK x \in left[p] \cap Found(p) :
        /\ root' = [root EXCEPT ![x] = snaps[from[p]].files[x]]
        /\ left' = [left EXCEPT ![p] = @ \ {x}]
        /\ Touch(Proc \ {p}, x)
  OBVIOUS
<1>2. x \in Part /\ snaps[from[p]] # None /\ snaps[from[p]].files[x] # None
  BY <1>1 DEF Found
<1>3. /\ touched' \in [Proc -> SUBSET Part]
      /\ touched'[p] = touched[p]
      /\ \A q \in Proc : /\ touched[q] \subseteq touched'[q]
                         /\ q # p /\ Active(q) => x \in touched'[q]
  <2>1. Proc \ {p} \in SUBSET Proc /\ TypeOK
    OBVIOUS
  <2>2. QED
    BY <1>1, <1>2, <2>1, TouchMarks
<1>4. TypeOK'
  <2>1. root' \in Roots
    <3>1. from[p] \in Id
      BY DEF PrunesAlone, TypeOK
    <3>2. snaps[from[p]] \in Snapshot
      BY <1>2, <3>1 DEF TypeOK
    <3>3. snaps[from[p]].files[x] \in Content
      BY <1>2, <3>2 DEF Snapshot, Files
    <3>4. QED
      BY <1>1, <3>3 DEF TypeOK, Roots
  <2>2. left' \in [Proc -> SUBSET Part]
    BY <1>1 DEF TypeOK
  <2>3. QED
    BY <1>3, <2>1, <2>2 DEF TypeOK
<1>5. SnapshotsWhole' /\ ListedOld'
  BY SameSnapshots
<1>6. PrunesAlone' /\ ChosenKept'
  BY DEF PrunesAlone, ChosenKept, Active
<1>7. \A y \in Part \ {x} : root'[y] = root[y]
  BY <1>1 DEF TypeOK, Roots
<1>8. RootKept'
  BY <1>3, <1>7 DEF RootKept, Active
<1>9. CopyKept' /\ MadeKept'
  BY <1>1, <1>3 DEF CopyKept, MadeKept, Sound, TypeOK
<1>10. AppliedKept'
  <2> SUFFICES ASSUME NEW q \in Proc, from[q] # None, pc[q] \in {"apply", "done"}, ~swapped[q],
                      NEW y \in Part \ touched'[q]
               PROVE  /\ root'[y] \in {wanted[q][y], before[q][y]}
                      /\ pc[q] = "apply" /\ y \in left'[q] => root'[y] = before[q][y]
                      /\ /\ wanted[q][y] # None /\ y \notin missed[q]
                         /\ y \notin left'[q] \/ pc[q] = "done"
                         => root'[y] = wanted[q][y]
    BY DEF AppliedKept
  <2>1. y \notin touched[q]
    BY <1>3
  <2>2. CASE q # p
    <3>1. y # x /\ left'[q] = left[q]
      BY <1>1, <1>3, <2>2 DEF Active, TypeOK
    <3>2. QED
      BY <1>7, <2>1, <3>1 DEF AppliedKept
  <2>3. CASE q = p /\ y = x
    <3>1. snaps[from[p]].files[x] = wanted[p][x]
      BY <1>2, <2>3 DEF ChosenKept, Active
    <3>2. root'[x] = wanted[p][x] /\ x \notin left'[p]
      BY <1>1, <1>2, <3>1 DEF TypeOK, Roots
    <3>3. QED
      BY <2>3, <3>2
  <2>4. CASE q = p /\ y # x
    <3>1. root'[y] = root[y] /\ (y \in left'[p] <=> y \in left[p])
      BY <1>1, <1>7, <2>4 DEF TypeOK
    <3>2. QED
      BY <2>1, <2>4, <3>1 DEF AppliedKept
  <2>5. QED
    BY <2>2, <2>3, <2>4
<1>11. QED
  BY <1>4, <1>5, <1>6, <1>8, <1>9, <1>10

\* What the walk has lost stays as it was.
LEMMA MissKeeps ==
  ASSUME IInv, NEW p \in Proc, ApplyMisses(p)
  PROVE  IInv'
<1> USE BackupsAssumption DEF IInv, ApplyMisses, files
<1>1. PICK x \in left[p] \cap Found(p) :
        /\ left' = [left EXCEPT ![p] = @ \ {x}]
        /\ missed' = [missed EXCEPT ![p] = @ \cup {x}]
  OBVIOUS
<1>2. TypeOK'
  BY <1>1 DEF TypeOK, Found
<1>3. SnapshotsWhole' /\ ListedOld'
  BY SameSnapshots
<1>4. PrunesAlone' /\ RootKept' /\ CopyKept' /\ MadeKept'
  BY <1>1 DEF PrunesAlone, RootKept, CopyKept, MadeKept, Active, Sound, TypeOK
<1>5. \A q \in Proc : /\ missed[q] \subseteq missed'[q]
                      /\ \A y \in Part : y \in left[q] \/ y \notin left'[q]
                      /\ \A y \in Part : y \in left[q] /\ y \notin left'[q] => y \in missed'[q]
  BY <1>1 DEF TypeOK
<1>6. ChosenKept'
  BY <1>5 DEF ChosenKept, Active
<1>7. AppliedKept'
  BY <1>5 DEF AppliedKept
<1>8. QED
  BY <1>2, <1>3, <1>4, <1>6, <1>7

\* When the walk finds nothing more, what is left was never in the snapshot, or was
\* pruned by others.
LEMMA RestoredKeeps ==
  ASSUME IInv, NEW p \in Proc, Restored(p)
  PROVE  IInv'
<1> USE BackupsAssumption, NoneAssumption DEF IInv, Restored, Goto, files, work, history
<1>1. TypeOK'
  BY DEF TypeOK, Steps
<1>2. SnapshotsWhole' /\ ListedOld'
  BY SameSnapshots
<1>3. PrunesAlone' /\ ChosenKept' /\ RootKept'
  BY DEF PrunesAlone, ChosenKept, RootKept, Active, TypeOK
<1>4. CopyKept' /\ MadeKept'
  BY DEF CopyKept, MadeKept, Sound, TypeOK
<1>5. AppliedKept'
  <2> SUFFICES ASSUME NEW q \in Proc, from[q] # None, pc'[q] \in {"apply", "done"}, ~swapped[q],
                      NEW x \in Part \ touched[q]
               PROVE  /\ root[x] \in {wanted[q][x], before[q][x]}
                      /\ pc'[q] = "apply" /\ x \in left[q] => root[x] = before[q][x]
                      /\ /\ wanted[q][x] # None /\ x \notin missed[q]
                         /\ x \notin left[q] \/ pc'[q] = "done"
                         => root[x] = wanted[q][x]
    BY DEF AppliedKept
  <2>1. CASE q = p
    <3>1. pc[p] = "apply" /\ pc'[p] = "done"
      BY DEF TypeOK
    <3>2. root[x] \in {wanted[p][x], before[p][x]}
      BY <2>1, <3>1 DEF AppliedKept
    <3>3. ASSUME wanted[p][x] # None, x \notin missed[p] PROVE x \notin left[p]
      <4>1. snaps[from[p]] # None /\ snaps[from[p]].files[x] = wanted[p][x]
        BY <2>1, <3>1, <3>3 DEF ChosenKept, Active
      <4>2. x \in Found(p)
        BY <3>3, <4>1 DEF Found
      <4>3. QED
        BY <4>2
    <3>4. QED
      BY <2>1, <3>1, <3>2, <3>3 DEF AppliedKept
  <2>2. CASE q # p
    BY <2>2 DEF AppliedKept, TypeOK
  <2>3. QED
    BY <2>1, <2>2
<1>6. QED
  BY <1>1, <1>2, <1>3, <1>4, <1>5

-----------------------------------------------------------------------------
(* The theorems.                                                           *)

\* The inductive invariant holds in every state that can be reached, in particular
\* the type invariant.
THEOREM Invariant == Spec => []IInv
<1>1. Init => IInv
  BY Initially
<1>2. IInv /\ [Next]_vars => IInv'
  <2> SUFFICES ASSUME IInv, [Next]_vars PROVE IInv'
    OBVIOUS
  <2>1. CASE EditFirst \/ EditSecond
    BY <2>1, EditKeeps
  <2>2. ASSUME NEW p \in Proc, (\E r \in Reason : Backup(p, r)) \/ (\E i \in Id : Restore(p, i))
        PROVE  IInv'
    BY <2>2, EnterKeeps
  <2>3. ASSUME NEW p \in Proc, Step(p) PROVE IInv'
    <3>1. CASE Prepare(p) \/ Copy(p) \/ Publish(p) \/ ListOld(p)
      BY <3>1, PrepareKeeps, CopyKeeps, PublishKeeps, ListKeeps
    <3>2. CASE PruneFile(p) \/ PruneDir(p) \/ PruneDone(p)
      BY <3>2, PruneKeeps, TurnKeeps
    <3>3. CASE PruneFails(p) \/ ApplyFails(p)
      BY <3>3, EndsKeeps DEF PruneFails, ApplyFails
    <3>4. CASE CheckSource(p)
      BY <3>4, EndsKeeps, TurnKeeps DEF CheckSource
    <3>5. CASE Apply(p) \/ ApplyMisses(p) \/ Restored(p)
      BY <3>5, ApplyKeeps, MissKeeps, RestoredKeeps
    <3>6. QED
      BY <2>3, <3>1, <3>2, <3>3, <3>4, <3>5 DEF Step
  <2>4. ASSUME NEW p \in Proc, Exit(p) PROVE IInv'
    BY <2>4, EndsKeeps DEF Exit
  <2>5. CASE UNCHANGED vars
    BY <2>5
    DEF vars, files, work, history, IInv, TypeOK, SnapshotsWhole, ListedOld, PrunesAlone,
        RootKept, CopyKept, MadeKept, ChosenKept, AppliedKept, Published, NewerThan,
        Active, Sound
  <2>6. QED
    BY <2>1, <2>2, <2>3, <2>4, <2>5 DEF Next
<1>3. QED
  BY <1>1, <1>2, PTL DEF Spec

\* A snapshot that nobody prunes is complete and of one moment, although backups,
\* restorations and operations take no lock against each other (backup.rs:126).
THEOREM SnapshotsAreWhole == Spec => []SnapshotsWhole
<1>1. IInv => SnapshotsWhole
  BY DEF IInv
<1>2. QED
  BY <1>1, Invariant, PTL

\* A restoration that reports success has, file by file, put back what it was asked
\* for or left what was there, and the latter only after an error of its own walk or
\* for another one's pruning: the backup it makes first never prunes its source, and
\* no other snapshot is mixed in.
THEOREM RestorationsAreWhole == Spec => []RestoreWhole
<1>1. IInv => RestoreWhole
  BY DEF IInv, AppliedKept, RestoreWhole
<1>2. QED
  BY <1>1, Invariant, PTL

\* A restoration replaces nothing before there is a snapshot to go back to.
THEOREM RestorationsCanBeUndone == Spec => []UndoPossible
<1>1. IInv => UndoPossible
  BY DEF IInv, MadeKept, UndoPossible
<1>2. QED
  BY <1>1, Invariant, PTL

\* However many processes prune at once, none gives up one of the Keep newest
\* snapshots.
THEOREM NewestAreKept == Spec => KeepsNewest
<1> DEFINE Given == \A i \in Published :
                      snaps'[i] # snaps[i] => Cardinality(NewerThan(i)) >= Keep
<1>1. IInv /\ [Next]_vars => [Given]_snaps
  <2> SUFFICES ASSUME IInv, [Next]_vars, snaps' # snaps PROVE Given
    OBVIOUS
  <2>1. PICK p \in Proc : Publish(p) \/ PruneFile(p) \/ PruneDir(p)
    BY DEF Next, Step, EditFirst, EditSecond, Backup, Restore, Enter, Prepare, Copy, ListOld,
           PruneFails, PruneDone, CheckSource, Apply, ApplyMisses, ApplyFails, Restored, Exit,
           vars
  <2> SUFFICES ASSUME NEW i \in Published, snaps'[i] # snaps[i]
               PROVE  Cardinality(NewerThan(i)) >= Keep
    OBVIOUS
  <2>2. i \in Id /\ snaps[i] # None
    BY DEF Published
  <2>3. CASE Publish(p)
    BY <2>2, <2>3 DEF Publish, IInv, TypeOK
  <2>4. CASE PruneFile(p) \/ PruneDir(p)
    <3>1. PICK k \in Oldest(todo[p]) : \A j \in Id \ {k} : snaps'[j] = snaps[j]
      BY <2>4 DEF PruneFile, PruneDir, IInv, TypeOK, Oldest
    <3>2. i = k /\ k \in todo[p]
      BY <2>2, <3>1 DEF Oldest
    <3>3. QED
      BY <3>2 DEF IInv, ListedOld
  <2>5. QED
    BY <2>1, <2>3, <2>4
<1>2. QED
  BY <1>1, Invariant, PTL DEF Spec, KeepsNewest
=============================================================================
