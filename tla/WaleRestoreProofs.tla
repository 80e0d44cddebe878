------------------------- MODULE WaleRestoreProofs -------------------------
(***************************************************************************)
(* Machine-checked proofs about WalSegment and WaleRestore: what the       *)
(* scripts compute from a WAL file name is right for every name, not only  *)
(* for those of a run; and, for any thresholds, sizes and numbers of       *)
(* attempts, what wale_restore.sh restores is worth restoring, and nothing *)
(* is restored without having asked.                                       *)
(***************************************************************************)
EXTENDS WaleRestore, TLAPS

-----------------------------------------------------------------------------
(* The names of WAL segments *)

\* The borrow from the log number: the predecessor of every name but the first.
LEMMA PreviousSegmentNumber ==
  ASSUME NEW l \in Nat, NEW s \in 0 .. 255, 256 * l + s > 0
  PROVE  /\ WellFormed(PreviousSegment(l, s))
         /\ Number(PreviousSegment(l, s)) + 1 = Number(Name(l, s))
  BY DEF PreviousSegment, WellFormed, Number, Name

\* The carry into the log number, also when more than one log is skipped.
LEMMA NextSegmentNumber ==
  ASSUME NEW l \in Nat, NEW s \in 0 .. 255, NEW i \in Nat
  PROVE  /\ WellFormed(NextSegment(l, s, i))
         /\ Number(NextSegment(l, s, i)) = Number(Name(l, s)) + i
  BY DEF NextSegment, WellFormed, Number, Name

\* The server's names stay well formed.
NameInv == log \in Nat /\ seg \in 0 .. 255 /\ 256 * log + seg > 0

LEMMA FirstNameInv == FirstName => NameInv
  BY WalSegmentAssumption DEF FirstName, NameInv

LEMMA NextNameInv == NameInv /\ [SwitchSegment]_position => NameInv'
  BY DEF NameInv, SwitchSegment, position

LEMMA NamesAlways == Names => []NameInv
  BY FirstNameInv, NextNameInv, PTL DEF Names

\* pg_receivewal begins with the segment of backup_label, whatever it is.
THEOREM PrecreatedCorrect == Names => []PrecreatedIsPredecessor
  <1>1. NameInv => PrecreatedIsPredecessor
    BY PreviousSegmentNumber DEF NameInv, PrecreatedIsPredecessor
  <1> QED
    BY <1>1, NamesAlways, PTL

\* Whatever --prefetch is, the prefetched names are the next ones.
THEOREM PrefetchCorrect == Names => []PrefetchIsNext
  <1>1. NameInv => PrefetchIsNext
    <2> SUFFICES ASSUME NameInv, NEW i \in 1 .. Prefetch
                 PROVE  /\ WellFormed(NextSegment(log, seg, i))
                        /\ Number(NextSegment(log, seg, i)) = Number(Name(log, seg)) + i
      BY DEF PrefetchIsNext
    <2> i \in Nat
      BY WalSegmentAssumption
    <2> QED
      BY NextSegmentNumber DEF NameInv
  <1> QED
    BY <1>1, NamesAlways, PTL

-----------------------------------------------------------------------------
(* The difference that is measured, and what is decided *)

\* While the script searches it has measured nothing; once it knows the
\* difference, it is that of the backup and the segment the leader wrote.
MeasureInv ==
    /\ NameInv
    /\ backup \in Nat /\ newest \in Nat /\ measured \in Nat /\ fetched \in Nat
    /\ diff \in Int /\ size \in Int
    /\ backup <= newest
    /\ pc \in {"list", "version", "found"} => measured = NoBackup
    /\ measured = NoBackup => diff = Unknown
    /\ measured # NoBackup => diff = 256 * (measured - backup)

\* What has been decided when the script fetches.
DecideInv ==
    /\ connstr \in BOOLEAN /\ noMaster \in BOOLEAN /\ reached \in BOOLEAN
    /\ noMaster \/ connstr
    /\ code # Unknown => pc = "exit"
    /\ pc \in {"diff", "size", "known", "decide"} => backup # NoBackup
    /\ pc \in {"fetch", "retry"} \/ code = 0 =>
          /\ backup # NoBackup
          /\ ~noMaster \/ reached => diff # Unknown /\ size # Unknown
          /\ measured # NoBackup =>
                diff <= Threshold /\ ~((size * Percentage) \div 100 < diff)
    /\ pc \in {"found", "diff", "size", "known", "decide", "list", "version", "fetch",
               "retry"} => code = Unknown
    /\ code = 0 => backup <= fetched

-----------------------------------------------------------------------------

\* The difference counts from the first byte of the backup's first segment.
LEMMA BytesSinceNumber ==
  ASSUME NEW n \in Nat, log \in Nat, seg \in 0 .. 255
  PROVE  BytesSince(Name(n \div 256, n % 256)) = 256 * (Current - n)
  <1>1. StartLsn(Name(n \div 256, n % 256).log, Name(n \div 256, n % 256).seg)
        = [hi |-> n \div 256, lo |-> (n % 256) * 256]
    BY DEF StartLsn, Name
  <1>2. 65536 * (n \div 256) + (n % 256) * 256 = 256 * n
    OBVIOUS
  <1>3. Current \in Int
    BY DEF Current, Number, Name
  <1> QED
    BY <1>1, <1>2, <1>3 DEF BytesSince

LEMMA InitInv == Init => MeasureInv /\ DecideInv
  <1> SUFFICES ASSUME Init
               PROVE  MeasureInv /\ DecideInv
    OBVIOUS
  <1>1. MeasureInv
    <2>1. NameInv
      BY FirstNameInv DEF Init
    <2>2. /\ backup = 0 /\ newest = 0 /\ measured = 0 /\ fetched = 0
          /\ diff = -1 /\ size = -1 /\ pc = "list"
      BY DEF Init, NoBackup, Unknown
    <2> QED
      BY <2>1, <2>2 DEF MeasureInv, NoBackup, Unknown
  <1>2. DecideInv
    <2>1. connstr \in BOOLEAN /\ noMaster \in BOOLEAN /\ reached \in BOOLEAN
      BY Zenon DEF Init
    <2>2. noMaster \/ connstr
      BY Zenon DEF Init
    <2>3. pc = "list" /\ code = -1
      BY DEF Init, Unknown
    <2> QED
      BY <2>1, <2>2, <2>3 DEF DecideInv, Unknown
  <1> QED
    BY <1>1, <1>2

LEMMA NextMeasureInv == MeasureInv /\ DecideInv /\ [Next]_vars => MeasureInv'
  <1> SUFFICES ASSUME MeasureInv, DecideInv, [Next]_vars
               PROVE  MeasureInv'
    OBVIOUS
  <1>0. NameInv'
    BY NextNameInv DEF MeasureInv, Next, Write, PushBackup, Script, ListBackups, AskVersion,
       EndOfSearch, Search, AskDifference, AskSize, Measure, Decide, Fetch, RetryFetch,
       LoopEnd, vars, position
  <1> USE <1>0 DEF MeasureInv, NoBackup, Unknown
  <1>1. CASE Write
    BY <1>1 DEF Write, script
  <1>2. CASE PushBackup
    BY <1>2, WalSegmentAssumption DEF PushBackup, script, position, Current, Number, Name, NameInv
  <1>3. CASE ListBackups
    BY <1>3 DEF ListBackups
  <1>4. CASE AskVersion
    BY <1>4 DEF AskVersion
  <1>5. CASE EndOfSearch
    BY <1>5 DEF EndOfSearch, NotFound, Exit
  <1>6. CASE Search
    BY <1>6 DEF Search, LoopEnd, NotFound
  <1>7. CASE AskDifference
    <2>1. log \in Nat /\ seg \in 0 .. 255 /\ Current \in Nat
      BY DEF NameInv, Current, Number, Name
    <2>2. BytesSince(Name(backup \div 256, backup % 256)) = 256 * (Current - backup)
      BY <2>1, BytesSinceNumber
    <2>3. /\ pc' = "size"
          /\ UNCHANGED <<backup, newest, size, fetched>>
          /\ \/ diff' = 256 * (measured' - backup) /\ measured' = Current
             \/ UNCHANGED <<diff, measured>>
      BY <1>7, <2>2 DEF AskDifference
    <2>4. Current # 0
      BY <2>1, WalSegmentAssumption DEF NameInv, Current, Number, Name
    <2> QED
      BY <2>1, <2>3, <2>4
  <1>8. CASE AskSize
    BY <1>8, WaleRestoreAssumption DEF AskSize
  <1>9. CASE Measure
    BY <1>9 DEF Measure, LoopEnd
  <1>10. CASE Decide
    BY <1>10 DEF Decide, Exit
  <1>11. CASE Fetch
    BY <1>11 DEF Fetch, Exit
  <1>12. CASE RetryFetch
    BY <1>12 DEF RetryFetch, Exit
  <1>13. CASE UNCHANGED vars
    BY <1>13 DEF vars, script
  <1> QED
    BY <1>1, <1>2, <1>3, <1>4, <1>5, <1>6, <1>7, <1>8, <1>9, <1>10, <1>11, <1>12, <1>13 DEF Next, Script

LEMMA NextDecideInv == MeasureInv /\ DecideInv /\ [Next]_vars => DecideInv'
  <1> SUFFICES ASSUME MeasureInv, DecideInv, [Next]_vars
               PROVE  DecideInv'
    OBVIOUS
  <1> USE DEF DecideInv, NoBackup, Unknown
  <1>1. CASE Write
    BY <1>1 DEF Write, script
  <1>2. CASE PushBackup
    BY <1>2 DEF PushBackup, script
  <1>3. CASE ListBackups
    BY <1>3 DEF ListBackups, MeasureInv
  <1>4. CASE AskVersion
    BY <1>4 DEF AskVersion, MeasureInv
  <1>5. CASE EndOfSearch
    BY <1>5 DEF EndOfSearch, MeasureInv, NotFound, Exit
  <1>6. CASE Search
    BY <1>6 DEF Search, MeasureInv, LoopEnd, NotFound
  <1>7. CASE AskDifference
    BY <1>7 DEF AskDifference, MeasureInv
  <1>8. CASE AskSize
    BY <1>8 DEF AskSize, MeasureInv
  <1>9. CASE Measure
    BY <1>9 DEF Measure, MeasureInv, LoopEnd
  <1>10. CASE Decide
    <2> DEFINE bound == (size * Percentage) \div 100
    <2>1. /\ pc = "decide" /\ code = -1 /\ backup # 0
          /\ UNCHANGED <<connstr, noMaster, backup, reached, diff, size, measured>>
      BY <1>10 DEF Decide
    <2>2. \/ pc' = "exit" /\ code' = 1
          \/ /\ pc' = "fetch" /\ code' = -1
             /\ diff # -1 /\ size # -1 /\ ~(diff > Threshold) /\ ~(bound < diff)
      BY <1>10, <2>1 DEF Decide, Exit
    <2>3. diff \in Int /\ Threshold \in Nat
      BY WaleRestoreAssumption DEF MeasureInv
    <2>4. bound' = bound
      BY <2>1
    <2> HIDE DEF bound
    <2> QED
      BY <2>1, <2>2, <2>3, <2>4 DEF bound
  <1>11. CASE Fetch
    BY <1>11 DEF Fetch, MeasureInv, Exit
  <1>12. CASE RetryFetch
    BY <1>12 DEF RetryFetch, MeasureInv, Exit
  <1>13. CASE UNCHANGED vars
    BY <1>13 DEF vars, script
  <1> QED
    BY <1>1, <1>2, <1>3, <1>4, <1>5, <1>6, <1>7, <1>8, <1>9, <1>10, <1>11, <1>12, <1>13 DEF Next, Script

LEMMA SpecInv == Spec => [](MeasureInv /\ DecideInv)
  BY InitInv, NextMeasureInv, NextDecideInv, PTL DEF Spec

\* The WAL to replay was within both thresholds when the leader was asked,
\* whichever backup was LATEST in the end.
THEOREM CheapRestore == Spec => []RestoreIsCheap
  <1>1. MeasureInv /\ DecideInv => RestoreIsCheap
    <2> SUFFICES ASSUME MeasureInv, DecideInv, code = 0, measured # NoBackup
                 PROVE  /\ 256 * (measured - fetched) <= Threshold
                        /\ 100 * (256 * (measured - fetched)) <= size * Percentage
      BY DEF RestoreIsCheap
    <2> DEFINE bound == size * Percentage
    <2>1. bound \in Int
      BY WaleRestoreAssumption DEF MeasureInv
    <2>2. 256 * (measured - fetched) <= diff /\ diff \in Int
      BY DEF MeasureInv, DecideInv
    <2>3. diff <= Threshold /\ ~(bound \div 100 < diff)
      BY DEF DecideInv
    <2>4. Threshold \in Nat /\ measured \in Nat /\ fetched \in Nat
      BY WaleRestoreAssumption DEF MeasureInv
    <2> HIDE DEF bound
    <2>5. 100 * (256 * (measured - fetched)) <= bound
      BY <2>1, <2>2, <2>3, <2>4
    <2>6. 256 * (measured - fetched) <= Threshold
      BY <2>2, <2>3, <2>4
    <2> QED
      BY <2>5, <2>6 DEF bound
  <1> QED
    BY <1>1, SpecInv, PTL

\* Nothing is fetched before the questions it depends on have been answered.
THEOREM AskedRestore == Spec => []NoBlindRestore
  <1>1. DecideInv => NoBlindRestore
    BY DEF DecideInv, NoBlindRestore
  <1> QED
    BY <1>1, SpecInv, PTL
=============================================================================
