--------------------------- MODULE CronJobsProofs ---------------------------
(***************************************************************************)
(* The jobs that keep something.                                           *)
(*                                                                         *)
(* Base backups, for any number of scripts, backups to retain and lists    *)
(* that are out of date: every moment of the last days that could ever be  *)
(* restored still can; if no two backups are made at once, no delta loses  *)
(* its full backup and as many backups are left as are to be retained.     *)
(*                                                                         *)
(* Logs, for a circle of files of any length: what is uploaded under a     *)
(* date is the log of that day.                                            *)
(***************************************************************************)
EXTENDS CronJobs, FiniteSetTheorems, TLAPS

-----------------------------------------------------------------------------
(* Backups and their names *)

Typed(b) == b.name \in Nat /\ b.time \in Nat /\ b.full \in Nat /\ b.full <= b.name

\* The full backup that the backup b needs, or is, was completed.
HasFull(b) == \E f \in completed : f.name = b.full /\ f.full = f.name

\* Names are given once, and an archive holds what was completed.
NameInv ==
    /\ now \in Nat /\ started \in Nat
    /\ pc \in [Runs -> {"idle", "push", "list", "choose", "delete"}]
    /\ DOMAIN pushing = Runs /\ DOMAIN records = Runs /\ DOMAIN BEFORE = Runs
    /\ archive \subseteq completed
    /\ \A b \in completed :
         Typed(b) /\ 0 < b.name /\ b.name <= started /\ b.time <= now /\ HasFull(b)
    /\ \A b, c \in completed : b.name = c.name => b = c
    /\ \A r \in Runs : pc[r] = "push" =>
         /\ pushing[r] \in [name : Nat, time : Nat, full : Nat]
         /\ 0 < pushing[r].name /\ pushing[r].name <= started
         /\ pushing[r].full <= pushing[r].name
         /\ \A b \in completed : b.name # pushing[r].name
         /\ pushing[r].full = pushing[r].name \/ HasFull(pushing[r])
    /\ \A r, s \in Runs : pc[r] = "push" /\ pc[s] = "push" /\ r # s =>
         pushing[r].name # pushing[s].name

\* A script that is about to delete has found an old enough backup, however long ago.
ListInv ==
    \A r \in Runs :
      /\ records[r] \subseteq completed
      /\ pc[r] = "delete" => \E b \in completed : b.name = BEFORE[r] /\ Aged(b, now)

\* Nothing was ever deleted, or one old backup with its full one is left and
\* whatever was deleted had been started before that.
Witness(w) ==
    /\ Aged(w, now) /\ \E f \in archive : f.name = w.full
    /\ \A c \in completed \ archive : c.name < w.full

KeptInv == archive = completed \/ \E w \in archive : Witness(w)

IInv == NameInv /\ ListInv /\ KeptInv

\* A backup that is old enough stays so.  The product in Window stays closed.
LEMMA AgedLater ==
  ASSUME NEW b, b.time \in Nat, NEW t \in Nat, NEW u \in Nat, t <= u, Aged(b, t)
  PROVE  Aged(b, u)
  <1>1. Window \in Int
    BY BackupAssumption DEF Window, DAYS_TO_RETAIN
  <1>2. t - b.time >= Window
    BY DEF Aged
  <1>3. u - b.time >= Window
    BY <1>1, <1>2
  <1> QED
    BY <1>3 DEF Aged

LEMMA InitIInv == Init => IInv
  BY DEF Init, IInv, NameInv, ListInv, KeptInv, NoBackup

-----------------------------------------------------------------------------
(* Names and full backups *)

LEMMA StartNames == ASSUME NameInv, NEW r \in Runs, Start(r) PROVE NameInv'
  <1>1. PICK full \in {started + 1} \union {b.full : b \in Latest} :
          pushing' = [pushing EXCEPT ![r] = [name |-> started + 1, time |-> 0, full |-> full]]
    BY DEF Start
  <1>2. full = started + 1 \/ \E f \in completed : f.name = full /\ f.full = f.name
    BY <1>1 DEF Latest, NameInv, HasFull
  <1>3. full \in Nat /\ full <= started + 1
    BY <1>2 DEF NameInv, Typed
  <1>4. /\ pc' = [pc EXCEPT ![r] = "push"] /\ started' = started + 1 /\ pc[r] = "idle"
        /\ UNCHANGED <<now, archive, records, BEFORE, completed>>
    BY DEF Start
  <1>5. pushing'[r] = [name |-> started + 1, time |-> 0, full |-> full]
    BY <1>1 DEF NameInv
  <1>6. \A b : HasFull(b) <=> HasFull(b)'
    BY <1>4 DEF HasFull
  <1>7. \A b \in completed : Typed(b) /\ 0 < b.name /\ b.name <= started' /\ b.time <= now'
                            /\ HasFull(b)' /\ b.name # started + 1
    BY <1>4, <1>6 DEF NameInv, Typed
  <1>8. ASSUME NEW s \in Runs, pc'[s] = "push"
        PROVE  /\ pushing'[s] \in [name : Nat, time : Nat, full : Nat]
               /\ 0 < pushing'[s].name /\ pushing'[s].name <= started'
               /\ pushing'[s].full <= pushing'[s].name
               /\ \A b \in completed' : b.name # pushing'[s].name
               /\ pushing'[s].full = pushing'[s].name \/ HasFull(pushing[s])'
    <2>1. CASE s = r
      BY <1>2, <1>3, <1>4, <1>5, <1>7, <2>1 DEF NameInv, HasFull
    <2>2. CASE s # r
      <3>1. pushing'[s] = pushing[s] /\ pc[s] = "push"
        BY <1>1, <1>4, <1>8, <2>2 DEF NameInv
      <3> QED
        BY <1>4, <1>6, <3>1 DEF NameInv, HasFull
    <2> QED
      BY <2>1, <2>2
  <1>9. ASSUME NEW s \in Runs, NEW t \in Runs, pc'[s] = "push", pc'[t] = "push", s # t
        PROVE  pushing'[s].name # pushing'[t].name
    <2>1. \A q \in Runs \ {r} : pushing'[q] = pushing[q] /\ pc'[q] = pc[q]
      BY <1>1, <1>4 DEF NameInv
    <2>2. \A q \in Runs \ {r} : pc'[q] = "push" => pushing'[q].name <= started
      BY <2>1 DEF NameInv
    <2>3. pushing'[r].name = started + 1
      BY <1>5
    <2> QED
      BY <1>9, <2>1, <2>2, <2>3 DEF NameInv
  <1> QED
    BY <1>1, <1>4, <1>7, <1>8, <1>9 DEF NameInv, Typed

LEMMA PushNames == ASSUME NameInv, NEW r \in Runs, Push(r) PROVE NameInv'
  <1>0. PICK b : b = [pushing[r] EXCEPT !.time = now]
    OBVIOUS
  <1>1. /\ pc[r] = "push" /\ pc' = [pc EXCEPT ![r] = "list"]
        /\ pushing' = [pushing EXCEPT ![r] = NoBackup]
        /\ UNCHANGED <<now, started, records, BEFORE>>
    BY DEF Push
  <1>2. \/ archive' = archive \union {b} /\ completed' = completed \union {b}
        \/ UNCHANGED <<archive, completed>>
    BY <1>0 DEF Push
  <1>3. /\ b.name = pushing[r].name /\ b.full = pushing[r].full /\ b.time = now
        /\ Typed(b) /\ 0 < b.name /\ b.name <= started
        /\ \A c \in completed : c.name # b.name
        /\ b.full = b.name \/ HasFull(b)
    BY <1>0, <1>1 DEF NameInv, HasFull, Typed
  <1>4. \A c : HasFull(c) => HasFull(c)'
    BY <1>2 DEF HasFull
  <1>5. b \in completed' => HasFull(b)'
    BY <1>3, <1>4 DEF HasFull
  <1>6. \A s \in Runs : pc'[s] = "push" =>
           s # r /\ pc[s] = "push" /\ pushing'[s] = pushing[s]
    BY <1>1 DEF NameInv
  <1>7. \A c \in completed' :
          Typed(c) /\ 0 < c.name /\ c.name <= started' /\ c.time <= now' /\ HasFull(c)'
    BY <1>1, <1>2, <1>3, <1>4, <1>5 DEF NameInv
  <1>8. archive' \subseteq completed' /\ \A c, d \in completed' : c.name = d.name => c = d
    BY <1>2, <1>3 DEF NameInv
  <1>9. ASSUME NEW s \in Runs, pc'[s] = "push"
        PROVE  /\ pushing'[s] \in [name : Nat, time : Nat, full : Nat]
               /\ 0 < pushing'[s].name /\ pushing'[s].name <= started'
               /\ pushing'[s].full <= pushing'[s].name
               /\ \A c \in completed' : c.name # pushing'[s].name
               /\ pushing'[s].full = pushing'[s].name \/ HasFull(pushing[s])'
    <2>1. s # r /\ pc[s] = "push" /\ pushing'[s] = pushing[s]
      BY <1>6, <1>9
    <2>2. pushing[s].name # b.name
      BY <1>1, <1>3, <2>1 DEF NameInv
    <2>3. \A c \in completed' : c.name # pushing'[s].name
      BY <1>2, <2>1, <2>2 DEF NameInv
    <2>4. HasFull(pushing[s]) => HasFull(pushing[s])'
      BY <1>4, <2>1 DEF HasFull
    <2> QED
      BY <1>1, <2>1, <2>3, <2>4 DEF NameInv
  <1> QED
    BY <1>1, <1>6, <1>7, <1>8, <1>9 DEF NameInv

LEMMA OtherNames ==
  ASSUME NameInv,
         \/ \E r \in Runs : List(r) \/ Loop(r) \/ Delete(r) \/ Kill(r)
         \/ Tick
         \/ UNCHANGED vars
  PROVE  NameInv'
  <1>1. UNCHANGED <<completed, started>> /\ archive' \subseteq archive
    BY DEF List, Loop, Delete, Kill, Tick, vars
  <1>2. now' \in Nat /\ now <= now'
    BY DEF NameInv, List, Loop, Delete, Kill, Tick, vars
  <1>3. \A r \in Runs : pc'[r] = "push" => pc[r] = "push" /\ pushing'[r] = pushing[r]
    BY DEF NameInv, List, Loop, Delete, Kill, Tick, vars
  <1>4. /\ pc' \in [Runs -> {"idle", "push", "list", "choose", "delete"}]
        /\ DOMAIN pushing' = Runs /\ DOMAIN records' = Runs /\ DOMAIN BEFORE' = Runs
    BY DEF NameInv, List, Loop, Delete, Kill, Tick, vars
  <1>5. \A b : HasFull(b) => HasFull(b)'
    BY <1>1 DEF HasFull
  <1>6. \A b \in completed' :
          Typed(b) /\ 0 < b.name /\ b.name <= started' /\ b.time <= now' /\ HasFull(b)'
    BY <1>1, <1>2, <1>5 DEF NameInv, Typed
  <1>7. ASSUME NEW s \in Runs, pc'[s] = "push"
        PROVE  /\ pushing'[s] \in [name : Nat, time : Nat, full : Nat]
               /\ 0 < pushing'[s].name /\ pushing'[s].name <= started'
               /\ pushing'[s].full <= pushing'[s].name
               /\ \A c \in completed' : c.name # pushing'[s].name
               /\ pushing'[s].full = pushing'[s].name \/ HasFull(pushing[s])'
    BY <1>1, <1>3, <1>7 DEF NameInv, HasFull
  <1> QED
    BY <1>1, <1>2, <1>3, <1>4, <1>6, <1>7 DEF NameInv

LEMMA NamesStep == ASSUME NameInv, [Next]_vars PROVE NameInv'
  BY StartNames, PushNames, OtherNames DEF Next

-----------------------------------------------------------------------------
(* What a script is about to delete before *)

LEMMA LoopList == ASSUME NameInv, ListInv, NEW r \in Runs, Loop(r) PROVE ListInv'
  <1>1. UNCHANGED <<now, completed>> /\ pc[r] = "choose" /\ pc' \in [Runs -> {"idle", "push", "list", "choose", "delete"}]
        /\ records' = [records EXCEPT ![r] = {}]
    BY DEF Loop, NameInv
  <1>2. \A s \in Runs : records'[s] \subseteq completed'
    BY <1>1 DEF ListInv, NameInv
  <1>3. ASSUME NEW s \in Runs, pc'[s] = "delete"
        PROVE  \E b \in completed : b.name = BEFORE'[s] /\ Aged(b, now)
    <2>1. CASE s = r
      <3>1. PICK b \in Chosen(records[r], now) : BEFORE' = [BEFORE EXCEPT ![r] = b.name]
        BY <1>3, <2>1 DEF Loop, NameInv
      <3>2. b \in records[r] /\ Aged(b, now)
        BY <3>1 DEF Chosen, Candidates
      <3>3. b \in completed /\ BEFORE'[s] = b.name
        BY <2>1, <3>1, <3>2 DEF ListInv, NameInv
      <3> QED
        BY <3>2, <3>3
    <2>2. CASE s # r
      <3>1. pc[s] = "delete" /\ BEFORE'[s] = BEFORE[s]
        BY <1>3, <2>2 DEF Loop, NameInv
      <3> QED
        BY <3>1 DEF ListInv
    <2> QED
      BY <2>1, <2>2
  <1> QED
    BY <1>1, <1>2, <1>3 DEF ListInv, Aged

LEMMA OtherList ==
  ASSUME NameInv, ListInv,
         \/ \E r \in Runs : Start(r) \/ Push(r) \/ List(r) \/ Delete(r) \/ Kill(r)
         \/ Tick
         \/ UNCHANGED vars
  PROVE  ListInv'
  <1>1. completed \subseteq completed' /\ now \in Nat /\ now' \in Nat /\ now <= now'
    BY DEF NameInv, Start, Push, List, Delete, Kill, Tick, vars
  <1>2. \A s \in Runs : pc'[s] = "delete" => pc[s] = "delete" /\ BEFORE'[s] = BEFORE[s]
    BY DEF NameInv, Start, Push, List, Delete, Kill, Tick, vars
  <1>3. \A s \in Runs : records'[s] \in {records[s], archive, {}}
    BY DEF NameInv, Start, Push, List, Delete, Kill, Tick, vars
  <1>4. ASSUME NEW b \in completed, Aged(b, now) PROVE Aged(b, now')
    BY <1>1, <1>4, AgedLater DEF NameInv, Typed
  <1>5. ASSUME NEW s \in Runs, pc'[s] = "delete"
        PROVE  \E b \in completed' : b.name = BEFORE'[s] /\ Aged(b, now')
    BY <1>1, <1>2, <1>4, <1>5 DEF ListInv
  <1>6. ASSUME NEW s \in Runs PROVE records'[s] \subseteq completed'
    BY <1>1, <1>3 DEF ListInv, NameInv
  <1>7. \A b : Aged(b, now)' <=> Aged(b, now')
    BY DEF Aged, Window, DAYS_TO_RETAIN
  <1> QED
    BY <1>5, <1>6, <1>7 DEF ListInv

LEMMA ListStep == ASSUME NameInv, ListInv, [Next]_vars PROVE ListInv'
  BY LoopList, OtherList DEF Next

-----------------------------------------------------------------------------
(* What is left in the archive *)

LEMMA WitnessLater ==
  ASSUME NameInv, NEW w \in archive, Witness(w), now' \in Nat, now <= now',
         archive \subseteq archive', completed' \ archive' \subseteq completed \ archive
  PROVE  Witness(w)'
  <1>1. Aged(w, now')
    BY AgedLater DEF NameInv, Typed, Witness
  <1>2. Aged(w, now)'
    BY <1>1 DEF Aged, Window, DAYS_TO_RETAIN
  <1> QED
    BY <1>2 DEF Witness

\* Whatever a script deletes before, one old backup keeps the full one it needs: the
\* one just found in the archive, or the one that was kept for an earlier deletion.
LEMMA DeleteKeeps ==
  ASSUME NameInv, ListInv, KeptInv, NEW r \in Runs, Delete(r) PROVE KeptInv'
  <1>1. /\ pc[r] = "delete" /\ UNCHANGED <<now, completed>>
        /\ archive' = archive \ UNION {Deleted(b) : b \in {c \in archive : c.name = BEFORE[r]}}
    BY DEF Delete
  <1>2. CASE \A c \in archive : c.name # BEFORE[r]
    <2>1. archive' = archive
      BY <1>1, <1>2
    <2> QED
      BY <1>1, <2>1 DEF KeptInv, Witness, Aged, Window, DAYS_TO_RETAIN
  <1>3. CASE \E c \in archive : c.name = BEFORE[r]
    <2>1. PICK t \in archive : t.name = BEFORE[r]
      BY <1>3
    <2>2. Aged(t, now) /\ t \in completed /\ Typed(t)
      BY <1>1, <2>1 DEF ListInv, NameInv
    <2>3. archive' = archive \ Deleted(t)
      <3>1. \A c \in archive : c.name = BEFORE[r] <=> c = t
        BY <2>1 DEF NameInv
      <3> QED
        BY <1>1, <2>1, <3>1
    <2>4. archive' = {c \in archive : ~(c.name < t.full)}
      BY <2>3 DEF Deleted
    <2>5. PICK f \in completed : f.name = t.full /\ f.full = f.name
      BY <2>2 DEF NameInv, HasFull
    <2>6. \A b : Aged(b, now) <=> Aged(b, now)'
      BY <1>1 DEF Aged, Window, DAYS_TO_RETAIN
    <2>7. ASSUME f \in archive, \A c \in completed \ archive : c.name < t.full
          PROVE  KeptInv'
      <3>1. t \in archive' /\ f \in archive'
        BY <2>1, <2>2, <2>4, <2>5, <2>7 DEF Typed
      <3>2. \A c \in completed' \ archive' : c.name < t.full
        BY <1>1, <2>4, <2>7
      <3> QED
        BY <2>2, <2>5, <2>6, <3>1, <3>2 DEF KeptInv, Witness
    <2>8. CASE archive = completed
      BY <2>5, <2>7, <2>8
    <2>9. CASE \E w \in archive : Witness(w)
      <3>1. PICK w \in archive : Witness(w)
        BY <2>9
      <3>2. Typed(w)
        BY DEF NameInv
      <3>3. CASE w.full <= t.full
        <4>1. \A c \in completed \ archive : c.name < t.full
          BY <2>2, <3>1, <3>2, <3>3 DEF Witness, Typed, NameInv
        <4>2. f \in archive
          BY <2>2, <2>5, <4>1 DEF Typed
        <4> QED
          BY <2>7, <4>1, <4>2
      <3>4. CASE t.full < w.full
        <4>1. PICK g \in archive : g.name = w.full
          BY <3>1 DEF Witness
        <4>2. w \in archive' /\ g \in archive'
          BY <2>2, <2>4, <3>2, <3>4, <4>1 DEF Typed
        <4>3. \A c \in completed' \ archive' : c.name < w.full
          BY <1>1, <2>2, <2>4, <3>1, <3>2, <3>4 DEF Witness, Typed, NameInv
        <4> QED
          BY <2>6, <3>1, <4>1, <4>2, <4>3 DEF KeptInv, Witness
      <3> QED
        BY <2>2, <3>2, <3>3, <3>4 DEF Typed
    <2> QED
      BY <2>8, <2>9 DEF KeptInv
  <1> QED
    BY <1>2, <1>3

LEMMA KeptStep == ASSUME IInv, [Next]_vars PROVE KeptInv'
  <1>1. CASE \E r \in Runs : Delete(r)
    BY <1>1, DeleteKeeps DEF IInv
  <1>2. CASE \E r \in Runs : Push(r)
    <2>1. now' = now /\ now \in Nat
      BY <1>2 DEF Push, IInv, NameInv
    <2>2. \/ UNCHANGED <<archive, completed>>
          \/ \E b : archive' = archive \union {b} /\ completed' = completed \union {b}
      BY <1>2 DEF Push
    <2>3. /\ archive \subseteq archive' /\ completed' \ archive' \subseteq completed \ archive
          /\ (archive = completed => archive' = completed')
      BY <2>2
    <2> QED
      BY <2>1, <2>3, WitnessLater DEF KeptInv, IInv
  <1>3. CASE \/ \E r \in Runs : Start(r) \/ List(r) \/ Loop(r) \/ Kill(r)
             \/ Tick
             \/ UNCHANGED vars
    <2>1. UNCHANGED <<archive, completed>>
      BY <1>3 DEF Start, List, Loop, Kill, Tick, vars
    <2>2. now \in Nat /\ now' \in Nat /\ now <= now'
      BY <1>3 DEF IInv, NameInv, Start, List, Loop, Kill, Tick, vars
    <2> QED
      BY <2>1, <2>2, WitnessLater DEF KeptInv, IInv
  <1> QED
    BY <1>1, <1>2, <1>3 DEF Next

\* If anything was ever deleted, the witness is an old backup that can be restored;
\* if nothing was, every backup has its full one.
LEMMA KeptWindow == IInv => WindowIsRestorable
  <1> SUFFICES ASSUME IInv, NEW b \in completed, Aged(b, now)
               PROVE  \E w \in completed \intersect Restorable : Aged(w, now)
    BY DEF WindowIsRestorable
  <1>1. CASE archive = completed
    <2>1. b \in Restorable
      BY <1>1 DEF IInv, NameInv, HasFull, Restorable
    <2> QED
      BY <2>1
  <1>2. CASE \E w \in archive : Witness(w)
    BY <1>2 DEF IInv, NameInv, Witness, Restorable
  <1> QED
    BY <1>1, <1>2 DEF IInv, KeptInv

\* WindowIsRestorable, for any number of scripts, of backups to retain and of days:
\* postgres_backup.sh never deletes the last backup from before the days it is to keep.
THEOREM WindowIsKept == Spec => []WindowIsRestorable
  <1>1. IInv /\ [Next]_vars => IInv'
    BY NamesStep, ListStep, KeptStep DEF IInv
  <1> QED
    BY InitIInv, <1>1, KeptWindow, PTL DEF Spec

-----------------------------------------------------------------------------
(* Backups made one after the other *)

Pushing(r) == pc[r] = "push"

\* The order of the starts is that of the completions, and a delta of a later
\* backup does not need an earlier full one.
OrderInv ==
    /\ IsFiniteSet(completed)
    /\ \A r, s \in Runs : Pushing(r) /\ Pushing(s) => r = s
    /\ \A r \in Runs : Pushing(r) => \A c \in completed :
         c.name < pushing[r].name /\ c.full <= pushing[r].full
    /\ \A b, c \in completed : b.name < c.name => b.time <= c.time /\ b.full <= c.full

\* What is deleted is what is older than something that is not.
ArchiveInv ==
    /\ \A a \in archive, c \in completed : a.name <= c.name => c \in archive
    /\ \A c \in completed : \E a \in archive : c.name <= a.name

\* The full backup of b is in the archive.
HasFullLeft(b) == \E f \in archive : f.name = b.full

FullInv ==
    /\ \A b \in archive : HasFullLeft(b)
    /\ \A r \in Runs : Pushing(r) =>
         pushing[r].full = pushing[r].name \/ HasFullLeft(pushing[r])

\* The backups completed after the one called n.
After(n) == {c \in completed : c.name > n}

\* A script that is about to delete has seen enough newer backups.
ChoiceInv == \A r \in Runs : pc[r] = "delete" => Cardinality(After(BEFORE[r])) >= Keep - 1

EnoughInv == archive = completed \/ Cardinality(archive) >= Keep

InOrder == OrderInv /\ ArchiveInv /\ FullInv /\ ChoiceInv /\ EnoughInv

SeqInv == ~overlap => InOrder

LEMMA KeepAtLeast2 == Keep \in Nat /\ Keep >= 2
  BY BackupAssumption DEF Keep

LEMMA InitInOrder == Init => InOrder
  <1> SUFFICES ASSUME Init PROVE InOrder
    OBVIOUS
  <1>1. IsFiniteSet(completed)
    BY FS_EmptySet DEF Init
  <1> QED
    BY <1>1 DEF Init, InOrder, OrderInv, ArchiveInv, FullInv, ChoiceInv, EnoughInv, Pushing

\* The numbers of a completed backup, for the steps below.
LEMMA CompletedNumbers ==
  ASSUME NameInv
  PROVE  \A c \in completed : /\ c.name \in Nat /\ c.time \in Nat /\ c.full \in Nat
                             /\ c.full <= c.name /\ c.name <= started /\ c.time <= now
  BY DEF NameInv, Typed

\* The backup that a delta is made of is the newest there ever was.
LEMMA LatestIsNewest ==
  ASSUME NameInv, OrderInv, ArchiveInv, NEW b \in Latest
  PROVE  b \in archive /\ \A c \in completed : c.name <= b.name /\ c.full <= b.full
  <1>1. PICK later : later = {c \in archive : c.time > b.time \/ (c.time = b.time /\ c.name > b.name)}
    OBVIOUS
  <1>2. b \in archive /\ Cardinality(later) = 0
    BY <1>1 DEF Latest, Index
  <1>3. archive \subseteq completed /\ IsFiniteSet(completed)
    BY DEF NameInv, OrderInv
  <1>4. later = {}
    <2>1. IsFiniteSet(later)
      BY <1>1, <1>3, FS_Subset
    <2> QED
      BY <1>2, <2>1, FS_EmptySet
  <1>5. \A a \in archive : a.name <= b.name
    BY <1>1, <1>2, <1>3, <1>4, CompletedNumbers DEF OrderInv
  <1>6. \A c \in completed : c.name <= b.name
    BY <1>2, <1>3, <1>5, CompletedNumbers DEF ArchiveInv
  <1>7. ASSUME NEW c \in completed PROVE c.full <= b.full
    <2>1. c.name = b.name => c = b
      BY <1>2, <1>3 DEF NameInv
    <2> QED
      BY <1>2, <1>3, <1>6, <2>1, CompletedNumbers DEF OrderInv
  <1> QED
    BY <1>2, <1>6, <1>7

LEMMA StartInOrder ==
  ASSUME NameInv, InOrder, NEW r \in Runs, Start(r), ~overlap'
  PROVE  InOrder'
  <1>1. PICK full \in {started + 1} \union {b.full : b \in Latest} :
          pushing' = [pushing EXCEPT ![r] = [name |-> started + 1, time |-> 0, full |-> full]]
    BY DEF Start
  <1>2. /\ pc' = [pc EXCEPT ![r] = "push"] /\ \A s \in Runs : ~Pushing(s)
        /\ UNCHANGED <<archive, completed, BEFORE>> /\ started \in Nat
    BY DEF Start, Pushing, NameInv
  <1>3. \A s \in Runs : Pushing(s)' <=> s = r
    BY <1>2 DEF Pushing, NameInv
  <1>4. pushing'[r].name = started + 1 /\ pushing'[r].full = full
    BY <1>1 DEF NameInv
  <1>5. \A c \in completed : c.name < started + 1 /\ c.full <= full
    <2>1. CASE full = started + 1
      BY <1>2, <2>1, CompletedNumbers
    <2>2. CASE full \in {b.full : b \in Latest}
      BY <1>2, <2>2, LatestIsNewest, CompletedNumbers DEF InOrder
    <2> QED
      BY <2>1, <2>2
  <1>6. full = started + 1 \/ \E f \in archive : f.name = full
    BY LatestIsNewest DEF InOrder, FullInv, HasFullLeft
  <1>7. OrderInv'
    BY <1>2, <1>3, <1>4, <1>5 DEF InOrder, OrderInv
  <1>8. ArchiveInv' /\ EnoughInv'
    BY <1>2 DEF InOrder, ArchiveInv, EnoughInv
  <1>9. FullInv'
    BY <1>2, <1>3, <1>4, <1>6 DEF InOrder, FullInv, HasFullLeft
  <1>10. ChoiceInv'
    <2>1. \A s \in Runs : pc'[s] = "delete" => pc[s] = "delete"
      BY <1>2 DEF NameInv
    <2> QED
      BY <1>2, <2>1 DEF InOrder, ChoiceInv, After
  <1> QED
    BY <1>7, <1>8, <1>9, <1>10 DEF InOrder

\* A backup that is completed is newer than all others.
LEMMA PushInOrder ==
  ASSUME NameInv, InOrder, NEW r \in Runs, Push(r)
  PROVE  InOrder'
  <1>0. PICK b : b = [pushing[r] EXCEPT !.time = now]
    OBVIOUS
  <1>1. /\ Pushing(r) /\ pc' = [pc EXCEPT ![r] = "list"] /\ now \in Nat
        /\ UNCHANGED BEFORE
    BY DEF Push, Pushing, NameInv
  <1>2. \/ archive' = archive \union {b} /\ completed' = completed \union {b}
        \/ UNCHANGED <<archive, completed>>
    BY <1>0 DEF Push
  <1>3. /\ b.name = pushing[r].name /\ b.full = pushing[r].full /\ b.time = now
        /\ b.name \in Nat /\ b.full \in Nat
    BY <1>0, <1>1 DEF NameInv, Pushing
  <1>4. \A c \in completed : c.name < b.name /\ c.full <= b.full /\ c.time <= b.time
    BY <1>1, <1>3, CompletedNumbers DEF InOrder, OrderInv
  <1>5. \A s \in Runs : ~Pushing(s)'
    BY <1>1 DEF InOrder, OrderInv, Pushing, NameInv
  <1>6. IsFiniteSet(completed') /\ IsFiniteSet(archive') /\ archive \subseteq completed
    <2>1. IsFiniteSet(completed) /\ archive \subseteq completed
      BY DEF InOrder, OrderInv, NameInv
    <2>2. IsFiniteSet(archive)
      BY <2>1, FS_Subset
    <2> QED
      BY <1>2, <2>1, <2>2, FS_AddElement
  <1>7. OrderInv'
    BY <1>2, <1>3, <1>4, <1>5, <1>6, CompletedNumbers DEF InOrder, OrderInv
  <1>8. ArchiveInv'
    BY <1>2, <1>3, <1>4, <1>6, CompletedNumbers DEF InOrder, ArchiveInv
  <1>9. FullInv'
    <2>1. \A c : HasFullLeft(c) => HasFullLeft(c)'
      BY <1>2 DEF HasFullLeft
    <2>2. b \in archive' => HasFullLeft(b)'
      BY <1>1, <1>2, <1>3 DEF InOrder, FullInv, HasFullLeft
    <2> QED
      BY <1>2, <1>5, <2>1, <2>2 DEF InOrder, FullInv
  <1>10. ChoiceInv'
    <2>1. ASSUME NEW s \in Runs, pc'[s] = "delete"
          PROVE  Cardinality({c \in completed' : c.name > BEFORE[s]}) >= Keep - 1
      <3>1. pc[s] = "delete"
        BY <1>1, <2>1 DEF NameInv
      <3>2. PICK S, T : S = {c \in completed : c.name > BEFORE[s]} /\ T = {c \in completed' : c.name > BEFORE[s]}
        OBVIOUS
      <3>3. IsFiniteSet(T) /\ S \subseteq T
        BY <1>2, <1>6, <3>2, FS_Subset
      <3>4. Cardinality(S) <= Cardinality(T) /\ Cardinality(S) \in Nat /\ Cardinality(T) \in Nat
        BY <3>3, FS_Subset, FS_CardinalityType
      <3>5. Cardinality(S) >= Keep - 1
        BY <3>1, <3>2 DEF InOrder, ChoiceInv, After
      <3> QED
        BY <3>2, <3>4, <3>5, KeepAtLeast2
    <2> QED
      BY <1>1, <2>1 DEF ChoiceInv, After, Keep
  <1>11. EnoughInv'
    <2>1. CASE archive = completed
      BY <1>2, <2>1 DEF EnoughInv
    <2>2. CASE Cardinality(archive) >= Keep
      <3>1. archive \subseteq archive'
        BY <1>2
      <3>2. /\ Cardinality(archive) <= Cardinality(archive')
            /\ Cardinality(archive) \in Nat /\ Cardinality(archive') \in Nat
        BY <1>6, <3>1, FS_Subset, FS_CardinalityType
      <3>3. Cardinality(archive') >= Keep
        BY <2>2, <3>2, KeepAtLeast2
      <3> QED
        BY <3>3 DEF EnoughInv, Keep
    <2> QED
      BY <2>1, <2>2 DEF InOrder, EnoughInv
  <1> QED
    BY <1>7, <1>8, <1>9, <1>10, <1>11 DEF InOrder

\* What is newer in a list, however old, is newer among all backups.
LEMMA LoopInOrder ==
  ASSUME NameInv, ListInv, InOrder, NEW r \in Runs, Loop(r)
  PROVE  InOrder'
  <1>1. /\ pc[r] = "choose" /\ UNCHANGED <<archive, completed, pushing>>
        /\ \A s \in Runs : Pushing(s)' <=> Pushing(s)
    BY DEF Loop, NameInv, Pushing
  <1>2. OrderInv' /\ ArchiveInv' /\ FullInv' /\ EnoughInv'
    BY <1>1 DEF InOrder, OrderInv, ArchiveInv, FullInv, HasFullLeft, EnoughInv
  <1>3. ASSUME NEW s \in Runs, pc'[s] = "delete"
        PROVE  Cardinality({c \in completed : c.name > BEFORE'[s]}) >= Keep - 1
    <2>1. CASE s # r
      <3>1. pc[s] = "delete" /\ BEFORE'[s] = BEFORE[s]
        BY <1>3, <2>1 DEF Loop, NameInv
      <3> QED
        BY <3>1 DEF InOrder, ChoiceInv, After
    <2>2. CASE s = r
      <3>1. PICK b \in Chosen(records[r], now) : BEFORE' = [BEFORE EXCEPT ![r] = b.name]
        BY <1>3, <2>2 DEF Loop, NameInv
      <3>2. PICK S, T :
              /\ S = {c \in records[r] : c.time > b.time \/ (c.time = b.time /\ c.name > b.name)}
              /\ T = {c \in completed : c.name > b.name}
        OBVIOUS
      <3>3. b \in completed /\ records[r] \subseteq completed /\ Cardinality(S) >= Keep - 1
        BY <3>1, <3>2 DEF Chosen, Candidates, Index, ListInv
      <3>4. S \subseteq T
        <4>1. ASSUME NEW c \in S PROVE c.name > b.name
          <5>1. c \in completed /\ (c.time > b.time \/ (c.time = b.time /\ c.name > b.name))
            BY <3>2, <3>3
          <5>2. c.name = b.name => c = b
            BY <3>3, <5>1 DEF NameInv
          <5> QED
            BY <3>3, <5>1, <5>2, CompletedNumbers DEF InOrder, OrderInv
        <4> QED
          BY <3>2, <3>3, <4>1
      <3>5. IsFiniteSet(T)
        BY <3>2, FS_Subset DEF InOrder, OrderInv
      <3>6. Cardinality(S) <= Cardinality(T) /\ Cardinality(S) \in Nat /\ Cardinality(T) \in Nat
        BY <3>4, <3>5, FS_Subset, FS_CardinalityType
      <3>7. BEFORE'[s] = b.name
        BY <2>2, <3>1 DEF NameInv
      <3> QED
        BY <3>2, <3>3, <3>6, <3>7, KeepAtLeast2
    <2> QED
      BY <2>1, <2>2
  <1>4. ChoiceInv'
    BY <1>1, <1>3 DEF ChoiceInv, After, Keep
  <1> QED
    BY <1>2, <1>4 DEF InOrder

\* A deletion takes what is older than a full backup that stays, and whoever needs
\* a full backup that is not older either, stays as well.
LEMMA DeleteInOrder ==
  ASSUME NameInv, InOrder, NEW r \in Runs, Delete(r)
  PROVE  InOrder'
  <1>1. /\ pc[r] = "delete" /\ pc' = [pc EXCEPT ![r] = "idle"] /\ UNCHANGED <<completed, pushing>>
        /\ archive' = archive \ UNION {Deleted(b) : b \in {c \in archive : c.name = BEFORE[r]}}
        /\ \A s \in Runs : pc'[s] = "delete" => pc[s] = "delete" /\ BEFORE'[s] = BEFORE[s]
        /\ \A s \in Runs : Pushing(s)' <=> Pushing(s)
    BY DEF Delete, NameInv, Pushing
  <1>2. OrderInv' /\ ChoiceInv'
    BY <1>1 DEF InOrder, OrderInv, ChoiceInv, After, Keep
  <1>3. CASE \A c \in archive : c.name # BEFORE[r]
    <2>1. archive' = archive
      BY <1>1, <1>3
    <2> QED
      BY <1>1, <1>2, <2>1 DEF InOrder, ArchiveInv, FullInv, HasFullLeft, EnoughInv, Keep
  <1>4. CASE \E c \in archive : c.name = BEFORE[r]
    <2>1. PICK t \in archive : t.name = BEFORE[r]
      BY <1>4
    <2>2. archive' = {c \in archive : ~(c.name < t.full)}
      <3>1. \A c \in archive : c.name = BEFORE[r] <=> c = t
        BY <2>1 DEF NameInv
      <3>2. archive' = archive \ Deleted(t)
        BY <1>1, <2>1, <3>1
      <3> QED
        BY <3>2 DEF Deleted
    <2>3. archive \subseteq completed /\ t \in completed /\ t.full <= t.name /\ t \in archive'
      BY <2>2, CompletedNumbers DEF NameInv
    <2>4. PICK f \in archive : f.name = t.full
      BY DEF InOrder, FullInv, HasFullLeft
    <2>5. f \in archive' /\ f.full = f.name
      <3>1. f \in archive'
        BY <2>2, <2>3, <2>4, CompletedNumbers
      <3>2. PICK g \in completed : g.name = t.full /\ g.full = g.name
        BY <2>3 DEF NameInv, HasFull
      <3>3. g = f
        BY <2>3, <2>4, <3>2 DEF NameInv
      <3> QED
        BY <3>1, <3>2, <3>3
    <2>6. ArchiveInv'
      <3>1. ASSUME NEW a \in archive', NEW c \in completed, a.name <= c.name
            PROVE  c \in archive'
        BY <2>2, <2>3, <3>1, CompletedNumbers DEF InOrder, ArchiveInv
      <3>2. ASSUME NEW c \in completed PROVE \E a \in archive' : c.name <= a.name
        <4>1. PICK a \in archive : c.name <= a.name
          BY DEF InOrder, ArchiveInv
        <4> QED
          BY <2>2, <2>3, <4>1, CompletedNumbers
      <3> QED
        BY <1>1, <3>1, <3>2 DEF ArchiveInv
    <2>7. FullInv'
      <3>1. ASSUME NEW n \in Nat, NEW g \in archive, g.name = n, t.full <= n
            PROVE  \E h \in archive' : h.name = n
        BY <2>2, <2>3, <3>1, CompletedNumbers
      <3>2. ASSUME NEW b \in archive' PROVE HasFullLeft(b)'
        <4>1. b \in archive /\ f.full <= b.full /\ b.full \in Nat
          <5>1. b \in archive /\ f.name <= b.name
            BY <2>2, <2>3, <2>4, CompletedNumbers
          <5>2. f.name = b.name => f = b
            BY <2>3, <5>1 DEF NameInv
          <5> QED
            BY <2>3, <5>1, <5>2, CompletedNumbers DEF InOrder, OrderInv
        <4>2. t.full <= b.full
          BY <2>4, <2>5, <4>1
        <4>3. \E g \in archive : g.name = b.full
          BY <4>1 DEF InOrder, FullInv, HasFullLeft
        <4> QED
          BY <3>1, <4>1, <4>2, <4>3 DEF HasFullLeft
      <3>3. ASSUME NEW s \in Runs, Pushing(s), pushing[s].full # pushing[s].name
            PROVE  HasFullLeft(pushing[s])'
        <4>1. t.full <= pushing[s].full /\ pushing[s].full \in Nat
          BY <2>3, <3>3 DEF InOrder, OrderInv, NameInv, Pushing
        <4>2. \E g \in archive : g.name = pushing[s].full
          BY <3>3 DEF InOrder, FullInv, HasFullLeft
        <4> QED
          BY <1>1, <3>1, <4>1, <4>2 DEF HasFullLeft
      <3> QED
        BY <1>1, <3>2, <3>3 DEF FullInv
    <2>8. EnoughInv'
      <3>1. PICK S : S = {c \in completed : c.name > t.name}
        OBVIOUS
      <3>2. Cardinality(S) >= Keep - 1
        BY <1>1, <2>1, <3>1 DEF InOrder, ChoiceInv, After
      <3>3. IsFiniteSet(S) /\ IsFiniteSet(archive')
        <4>1. IsFiniteSet(completed) /\ S \subseteq completed /\ archive' \subseteq completed
          BY <2>2, <2>3, <3>1 DEF InOrder, OrderInv
        <4> QED
          BY <4>1, FS_Subset
      <3>4. t \notin S
        BY <2>3, <3>1, CompletedNumbers
      <3>5. S \union {t} \subseteq archive'
        BY <2>2, <2>3, <3>1, CompletedNumbers DEF InOrder, ArchiveInv
      <3>6. Cardinality(S \union {t}) = Cardinality(S) + 1
        BY <3>3, <3>4, FS_AddElement
      <3>7. Cardinality(S \union {t}) <= Cardinality(archive')
        BY <3>3, <3>5, FS_Subset
      <3>8. Cardinality(archive') >= Keep
        <4>1. Cardinality(S) \in Nat /\ Cardinality(archive') \in Nat
          BY <3>3, FS_CardinalityType
        <4> QED
          BY <3>2, <3>6, <3>7, <4>1, KeepAtLeast2
      <3> QED
        BY <3>8 DEF EnoughInv, Keep
    <2> QED
      BY <1>2, <2>6, <2>7, <2>8 DEF InOrder
  <1> QED
    BY <1>3, <1>4

LEMMA OtherInOrder ==
  ASSUME NameInv, InOrder, (\E r \in Runs : List(r) \/ Kill(r)) \/ Tick \/ UNCHANGED vars
  PROVE  InOrder'
  <1>1. UNCHANGED <<archive, completed>>
    BY DEF List, Kill, Tick, vars
  <1>2. \A r \in Runs :
          /\ Pushing(r)' => Pushing(r) /\ pushing'[r] = pushing[r]
          /\ pc'[r] = "delete" => pc[r] = "delete" /\ BEFORE'[r] = BEFORE[r]
    BY DEF NameInv, Pushing, List, Kill, Tick, vars
  <1>3. OrderInv' /\ FullInv'
    BY <1>1, <1>2 DEF InOrder, OrderInv, FullInv, HasFullLeft
  <1>4. ArchiveInv' /\ ChoiceInv' /\ EnoughInv'
    BY <1>1, <1>2 DEF InOrder, ArchiveInv, ChoiceInv, After, EnoughInv, Keep
  <1> QED
    BY <1>3, <1>4 DEF InOrder

LEMMA SeqStep == ASSUME NameInv, ListInv, SeqInv, [Next]_vars PROVE SeqInv'
  <1> SUFFICES ASSUME ~overlap' PROVE InOrder'
    BY DEF SeqInv
  <1>1. ~overlap
    BY DEF Next, Start, Push, List, Loop, Delete, Kill, Tick, vars
  <1>2. InOrder
    BY <1>1 DEF SeqInv
  <1> QED
    BY <1>2, StartInOrder, PushInOrder, LoopInOrder, DeleteInOrder, OtherInOrder DEF Next

LEMMA InOrderAlways == Spec => [](IInv /\ SeqInv)
  <1>1. Init => IInv /\ SeqInv
    BY InitIInv, InitInOrder DEF SeqInv
  <1>2. IInv /\ SeqInv /\ [Next]_vars => (IInv /\ SeqInv)'
    BY NamesStep, ListStep, KeptStep, SeqStep DEF IInv
  <1> QED
    BY <1>1, <1>2, PTL DEF Spec

\* DeltasKeepTheirFull: no deletion takes the full backup of a delta that stays or
\* is being made, for any number of scripts that delete from lists of any age, as
\* long as no two backups are made at once.
THEOREM FullsAreKept == Spec => []DeltasKeepTheirFull
  <1>1. SeqInv => DeltasKeepTheirFull
    BY DEF SeqInv, InOrder, FullInv, HasFullLeft, Pushing, DeltasKeepTheirFull, Restorable
  <1> QED
    BY <1>1, InOrderAlways, PTL

\* EnoughAreLeft: the backups that are to be retained are, for any number of them,
\* or all that were ever made.
THEOREM RetainedAreLeft == Spec => []EnoughAreLeft
  <1>1. SeqInv => EnoughAreLeft
    <2> SUFFICES ASSUME InOrder, ~overlap
                 PROVE  \/ Cardinality(Restorable) >= Keep
                        \/ Cardinality(Restorable) >= Cardinality(completed)
      BY DEF SeqInv, EnoughAreLeft
    <2>1. Restorable = archive
      BY DEF InOrder, FullInv, HasFullLeft, Restorable
    <2>2. Cardinality(completed) \in Nat
      BY FS_CardinalityType DEF InOrder, OrderInv
    <2> QED
      BY <2>1, <2>2 DEF InOrder, EnoughInv
  <1> QED
    BY <1>1, InOrderAlways, PTL

-----------------------------------------------------------------------------
(* The logs of the server.  Log!X is X of UploadLog. *)

\* What is promised of the lines kept for the day d.
Promise(d, lines) == (d \in written => d \in lines) /\ (d \in rotated => lines \subseteq {d})

\* The files of the last days are each a file of its own, and keep the promise.
FileInv ==
    /\ today \in Nat /\ log \in [0 .. Week - 1 -> SUBSET Nat]
    /\ written \subseteq 0 .. today /\ rotated \subseteq 0 .. today
    /\ \A d \in 0 .. today : today - d < Week => Promise(d, log[d % Week])

\* The script works at a day that is over, for less than a round of the files.
ScriptInv ==
    /\ logPc \in {"idle", "compress", "upload"}
    /\ logPc # "idle" => /\ names.day \in 0 .. today - 1 /\ names.day >= today - 2
                         /\ names.log_file = names.day % Week
    /\ logPc = "upload" => names.day \in torn \/ Promise(names.day, archived)

BucketInv ==
    /\ DOMAIN bucket = Log!Days
    /\ \A d \in Log!Days \ torn : bucket[d] # {} => d < today /\ Promise(d, bucket[d])

LogInv == FileInv /\ ScriptInv /\ BucketInv

\* The files of two days less than a round apart are two.
LEMMA TwoFiles ==
  ASSUME NEW d \in Nat, NEW e \in Nat, d < e, e - d < Week
  PROVE  d % Week \in 0 .. Week - 1 /\ e % Week \in 0 .. Week - 1 /\ d % Week # e % Week
  <1>1. Week \in Nat \ {0}
    BY LogAssumption
  <1>2. PICK p \in Nat : d = Week * p + (d % Week)
    <2>1. d \div Week \in Nat /\ d = Week * (d \div Week) + (d % Week)
      BY <1>1
    <2> QED
      BY <2>1
  <1>3. PICK q \in Nat : e = Week * q + (e % Week)
    <2>1. e \div Week \in Nat /\ e = Week * (e \div Week) + (e % Week)
      BY <1>1
    <2> QED
      BY <2>1
  <1>4. d % Week \in 0 .. Week - 1 /\ e % Week \in 0 .. Week - 1
    BY <1>1
  <1>5. ASSUME d % Week = e % Week PROVE FALSE
    <2>1. e - d = Week * (q - p)
      BY <1>1, <1>2, <1>3, <1>5
    <2>2. q - p \in Int /\ (q - p <= 0 \/ q - p >= 1)
      OBVIOUS
    <2>3. q - p <= 0 => Week * (q - p) <= 0
      BY <1>1
    <2>4. q - p >= 1 => Week * (q - p) >= Week
      BY <1>1
    <2> QED
      BY <2>1, <2>2, <2>3, <2>4, <1>1
  <1> QED
    BY <1>4, <1>5

\* The middle of the day, the day after, and the days before.
LEMMA WriteFiles == ASSUME FileInv, Log!Write PROVE FileInv'
  <1>1. /\ log' = [log EXCEPT ![today % Week] = @ \union {today}]
        /\ written' = written \union {today} /\ UNCHANGED <<today, rotated>>
    BY DEF Log!Write
  <1>2. today % Week \in 0 .. Week - 1
    BY LogAssumption DEF FileInv
  <1>3. log' \in [0 .. Week - 1 -> SUBSET Nat] /\ log'[today % Week] = log[today % Week] \union {today}
    BY <1>1, <1>2 DEF FileInv
  <1>4. ASSUME NEW d \in 0 .. today, today - d < Week PROVE Promise(d, log[d % Week])'
    <2>1. Promise(d, log[d % Week])
      BY <1>4 DEF FileInv
    <2>2. CASE d = today
      BY <1>1, <1>3, <2>1, <2>2 DEF Promise
    <2>3. CASE d # today
      <3>1. d % Week \in 0 .. Week - 1 /\ d % Week # today % Week
        BY <1>4, <2>3, TwoFiles DEF FileInv
      <3>2. log'[d % Week] = log[d % Week]
        BY <1>1, <3>1 DEF FileInv
      <3> QED
        BY <1>1, <2>1, <2>3, <3>2 DEF Promise
    <2> QED
      BY <2>2, <2>3
  <1>5. written' \subseteq 0 .. today
    BY <1>1 DEF FileInv
  <1> QED
    BY <1>1, <1>3, <1>4, <1>5 DEF FileInv

LEMMA MidnightFiles == ASSUME FileInv, Log!Midnight PROVE FileInv'
  <1>1. today' = today + 1 /\ UNCHANGED written /\ today \in Nat
    BY DEF Log!Midnight, FileInv
  <1>2. \/ log' = [log EXCEPT ![(today + 1) % Week] = {}] /\ rotated' = rotated \union {today + 1}
        \/ UNCHANGED <<log, rotated>>
    BY DEF Log!Midnight
  <1>3. (today + 1) % Week \in 0 .. Week - 1
    BY <1>1, LogAssumption
  <1>4. log' \in [0 .. Week - 1 -> SUBSET Nat]
    BY <1>2, <1>3 DEF FileInv
  <1>5. written' \subseteq 0 .. today' /\ rotated' \subseteq 0 .. today'
    <2>1. 0 .. today \subseteq 0 .. today' /\ today + 1 \in 0 .. today'
      BY <1>1
    <2> QED
      BY <1>1, <1>2, <2>1 DEF FileInv
  <1>6. ASSUME NEW d \in 0 .. today', today' - d < Week PROVE Promise(d, log[d % Week])'
    <2>1. CASE d = today + 1
      <3>1. d \notin written' /\ d \notin rotated
        BY <1>1, <2>1 DEF FileInv
      <3>2. d \in rotated' => log'[d % Week] = {}
        BY <1>2, <1>3, <2>1, <3>1 DEF FileInv
      <3> QED
        BY <3>1, <3>2 DEF Promise
    <2>2. CASE d # today + 1
      <3>1. d \in 0 .. today /\ today - d < Week
        BY <1>1, <1>6, <2>2, LogAssumption
      <3>2. d % Week \in 0 .. Week - 1 /\ d % Week # (today + 1) % Week
        <4>1. d \in Nat /\ today + 1 \in Nat /\ d < today + 1 /\ (today + 1) - d < Week
          BY <1>1, <1>6, <3>1
        <4> QED
          BY <4>1, TwoFiles
      <3>3. log'[d % Week] = log[d % Week]
        BY <1>2, <3>2 DEF FileInv
      <3>4. d \in rotated' => d \in rotated
        BY <1>2, <2>2
      <3> QED
        BY <1>1, <3>1, <3>3, <3>4 DEF Promise, FileInv
    <2> QED
      BY <2>1, <2>2
  <1> QED
    BY <1>1, <1>4, <1>5, <1>6 DEF FileInv

\* What the script does leaves the server alone.
LEMMA FilesStep == ASSUME FileInv, [Log!Next]_logVars PROVE FileInv'
  <1>1. CASE Log!Write
    BY <1>1, WriteFiles
  <1>2. CASE Log!Midnight
    BY <1>2, MidnightFiles
  <1>3. CASE ~Log!Write /\ ~Log!Midnight
    <2>1. UNCHANGED <<today, log, written, rotated>>
      BY <1>3 DEF Log!Next, Log!StartOrStop, Log!Start, Log!compress_pg_log, Log!Uploaded,
         Log!UploadFailed, Log!Killed, Log!server, logVars
    <2> QED
      BY <2>1 DEF FileInv, Promise
  <1> QED
    BY <1>1, <1>2, <1>3

\* What was promised of a day that is over stays so.
LEMMA PromiseStep ==
  ASSUME FileInv, [Log!Next]_logVars, NEW d \in Nat, d < today, NEW lines, Promise(d, lines)
  PROVE  Promise(d, lines)' /\ d < today'
  <1>1. /\ today' = today \/ today' = today + 1
        /\ d \in written' => d \in written \/ d = today
        /\ d \in rotated' => d \in rotated \/ d = today + 1
    BY DEF Log!Next, Log!Midnight, Log!Write, Log!StartOrStop, Log!Start, Log!compress_pg_log,
       Log!Uploaded, Log!UploadFailed, Log!Killed, Log!server, logVars
  <1> QED
    BY <1>1 DEF Promise, FileInv

LEMMA ScriptStep == ASSUME FileInv, ScriptInv, [Log!Next]_logVars PROVE ScriptInv'
  <1>1. CASE Log!Midnight
    <2>1. /\ today' = today + 1 /\ UNCHANGED <<logPc, names, archived, torn>>
          /\ logPc # "idle" => names.day + 1 = today
      BY <1>1 DEF Log!Midnight
    <2>2. logPc = "upload" => names.day \in torn \/ Promise(names.day, archived)'
      BY <2>1, PromiseStep DEF ScriptInv, FileInv
    <2> QED
      BY <2>1, <2>2 DEF ScriptInv, FileInv
  <1>2. CASE Log!Start
    <2>1. today \in Nat \ {0}
      BY <1>2 DEF Log!Start, FileInv
    <2>2. names' = [log_file |-> (today - 1) % Week, day |-> today - 1]
      BY <1>2 DEF Log!Start, Log!get_file_names
    <2>3. logPc' \in {"idle", "compress"} /\ UNCHANGED today
      BY <1>2 DEF Log!Start, Log!server
    <2> QED
      BY <2>1, <2>2, <2>3 DEF ScriptInv
  <1>3. CASE Log!compress_pg_log
    <2>1. /\ logPc = "compress" /\ logPc' = "upload" /\ UNCHANGED <<today, names, written, rotated>>
          /\ archived' = log[names.log_file] \/ names.day \in torn'
      BY <1>3 DEF Log!compress_pg_log, Log!server
    <2>2. Promise(names.day, log[names.log_file])
      BY <2>1, LogAssumption DEF ScriptInv, FileInv
    <2>3. names'.day \in torn' \/ Promise(names.day, archived)'
      BY <2>1, <2>2 DEF Promise
    <2> QED
      BY <2>1, <2>3 DEF ScriptInv
  <1>4. CASE Log!Uploaded \/ Log!Killed
    BY <1>4 DEF Log!Uploaded, Log!Killed, ScriptInv
  <1>5. CASE Log!Write \/ Log!StartOrStop \/ Log!UploadFailed \/ UNCHANGED logVars
    <2>1. /\ UNCHANGED <<today, names, archived, torn>>
          /\ logPc' = logPc \/ logPc' = "idle"
      BY <1>5 DEF Log!Write, Log!StartOrStop, Log!UploadFailed, Log!server, logVars, ScriptInv
    <2>2. logPc = "upload" => names.day \in torn \/ Promise(names.day, archived)'
      BY <2>1, PromiseStep DEF ScriptInv, FileInv
    <2> QED
      BY <2>1, <2>2 DEF ScriptInv
  <1> QED
    BY <1>1, <1>2, <1>3, <1>4, <1>5 DEF Log!Next

LEMMA BucketStep == ASSUME FileInv, ScriptInv, BucketInv, [Log!Next]_logVars PROVE BucketInv'
  <1>1. torn \subseteq torn'
    BY DEF Log!Next, Log!Midnight, Log!Write, Log!StartOrStop, Log!Start, Log!compress_pg_log,
       Log!Uploaded, Log!UploadFailed, Log!Killed, logVars
  <1>2. \/ Log!Uploaded
        \/ UNCHANGED bucket
    BY DEF Log!Next, Log!Midnight, Log!Write, Log!StartOrStop, Log!Start, Log!compress_pg_log,
       Log!UploadFailed, Log!Killed, logVars
  <1>3. Log!Days \subseteq Nat
    BY DEF Log!Days
  <1>4. ASSUME NEW d \in Log!Days \ torn', bucket'[d] # {} PROVE d < today' /\ Promise(d, bucket[d])'
    <2>1. d < today /\ Promise(d, bucket'[d])
      <3>1. CASE UNCHANGED bucket
        BY <1>1, <1>4, <3>1 DEF BucketInv
      <3>2. CASE Log!Uploaded
        <4>1. logPc = "upload" /\ bucket' = [bucket EXCEPT ![names.day] = archived]
          BY <3>2 DEF Log!Uploaded
        <4>2. CASE d = names.day
          BY <1>1, <1>4, <4>1, <4>2 DEF BucketInv, ScriptInv, FileInv
        <4>3. CASE d # names.day
          BY <1>1, <1>4, <4>1, <4>3 DEF BucketInv
        <4> QED
          BY <4>2, <4>3
      <3> QED
        BY <1>2, <3>1, <3>2
    <2>2. PICK lines : lines = bucket'[d]
      OBVIOUS
    <2>3. d < today' /\ Promise(d, lines)'
      BY <1>3, <2>1, <2>2, PromiseStep
    <2> QED
      BY <2>2, <2>3 DEF Promise
  <1>5. DOMAIN bucket' = Log!Days
    BY <1>2 DEF Log!Uploaded, BucketInv
  <1> QED
    BY <1>4, <1>5 DEF BucketInv, Log!Days

LEMMA InitLog == Log!Init => LogInv
  <1> SUFFICES ASSUME Log!Init PROVE LogInv
    OBVIOUS
  <1>1. FileInv
    <2>1. 0 \in 0 .. Week - 1 /\ 0 % Week = 0
      BY LogAssumption
    <2> QED
      BY <2>1 DEF Log!Init, FileInv, Promise
  <1>2. ScriptInv /\ BucketInv
    BY DEF Log!Init, ScriptInv, BucketInv
  <1> QED
    BY <1>1, <1>2 DEF LogInv

\* UploadedIsThatDay: what is uploaded under a date is the log of that day, for a
\* circle of any three files or more, though the script may last past midnight and
\* the server be down at it.
THEOREM UploadsAreDaily == JobsSpec => []UploadedIsThatDay
  <1>1. JobsInit => LogInv
    BY InitLog DEF JobsInit
  <1>2. LogInv /\ [JobsNext]_<<vars, logVars, job>> => LogInv'
    <2> SUFFICES ASSUME LogInv, [JobsNext]_<<vars, logVars, job>> PROVE LogInv'
      OBVIOUS
    <2>1. [Log!Next]_logVars
      BY DEF JobsNext
    <2> QED
      BY <2>1, FilesStep, ScriptStep, BucketStep DEF LogInv
  <1>3. LogInv => UploadedIsThatDay
    BY DEF LogInv, BucketInv, Promise, UploadedIsThatDay, Log!UploadedIsThatDay
  <1> QED
    BY <1>1, <1>2, <1>3, PTL DEF JobsSpec
=============================================================================
