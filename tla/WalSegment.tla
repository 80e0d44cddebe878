----------------------------- MODULE WalSegment -----------------------------
(***************************************************************************)
(* The arithmetic on WAL file names in the shell scripts.  A name is a     *)
(* timeline, a log number and a segment number of eight hexadecimal digits *)
(* each; the timeline is only copied and is left out.  With 16 MB segments *)
(* a log number covers 256 of them (4 GB).                                 *)
(*                                                                         *)
(* The state is the name at hand, which moves on as the server writes;     *)
(* WaleRestore compares it with the name of a backup.                      *)
(***************************************************************************)
EXTENDS Integers

CONSTANTS
    Prefetch,      \* --prefetch of wal-e-wal-fetch.sh
    FirstSegment,  \* number of the segment the server writes at first
    LastSegment    \* number of the last one (bound)

ASSUME WalSegmentAssumption ==
    /\ Prefetch \in Nat
    /\ FirstSegment \in Nat \ {0} /\ LastSegment \in Nat

VARIABLES
    log,   \* the middle eight digits
    seg    \* the last eight

position == <<log, seg>>

Name(l, s) == [log |-> l, seg |-> s]

\* Mutant: no borrow from the log number.
PreviousSegment_NoBorrow(l, s) == Name(l, IF s = 0 THEN 255 ELSE s - 1)

\* The file that start_receivewal creates so that pg_receivewal begins with
\* the one after it.
PreviousSegment(l, s) == IF s = 0 THEN Name(l - 1, 255) ELSE Name(l, s - 1)

\* Mutant: the log number is that of the segment at hand.
NextSegment_NoCarry(l, s, i) == Name(l, (s + i) % 256)

\* generate_next_segments: the i-th name after the one at hand.
NextSegment(l, s, i) == Name(l + (s + i) \div 256, (s + i) % 256)

\* wale_restore.sh: the position at which a segment begins, printed as "X/X".
\* The lower half, s << 24, is counted in units of 64 kB.
StartLsn(l, s) == [hi |-> l, lo |-> s * 256]

-----------------------------------------------------------------------------

\* XLogFileName of PostgreSQL: segment number n is file n / 256, n % 256.
FirstName == log = FirstSegment \div 256 /\ seg = FirstSegment % 256

SwitchSegment ==
    LET n == 256 * log + seg + 1 IN
      /\ n <= LastSegment
      /\ log' = n \div 256 /\ seg' = n % 256

Names == FirstName /\ [][SwitchSegment]_position

-----------------------------------------------------------------------------
(* Properties *)

Number(name) == 256 * name.log + name.seg

WellFormed(name) == name.log >= 0 /\ name.seg \in 0 .. 255

\* pg_receivewal, which continues after the newest file it finds, starts with
\* the first segment the backup needs, across a log file boundary too.
PrecreatedIsPredecessor ==
    /\ WellFormed(PreviousSegment(log, seg))
    /\ Number(PreviousSegment(log, seg)) + 1 = Number(Name(log, seg))

\* The prefetched names are those recovery will ask for next, and no other:
\* clear_except deletes whatever carries another name.
PrefetchIsNext ==
    \A i \in 1 .. Prefetch :
      /\ WellFormed(NextSegment(log, seg, i))
      /\ Number(NextSegment(log, seg, i)) = Number(Name(log, seg)) + i
=============================================================================
