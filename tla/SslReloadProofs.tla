-------------------------- MODULE SslReloadProofs ---------------------------
(***************************************************************************)
(* The reload on changed TLS files, for any of the files in any order and  *)
(* any number of rotations: a set of files that the script counts as done  *)
(* is the one the server works with.                                       *)
(***************************************************************************)
EXTENDS SslReload, TLAPS

\* The hash of f is still to be taken by the run in progress.
Pending(f) == pc = "write" /\ \E i \in DOMAIN Order : i >= at /\ Order[i] = f

\* HashesMatchLoaded already while the hashes are being written: once the signal
\* is handled, files that have their hash, or will get it, are the loaded ones.
LoadedWhenHashed ==
    /\ running /\ ~sighup /\ Consistent /\ ~raced /\ ~returned
    /\ \A f \in TlsFiles : hash[f] = disk[f] \/ Pending(f)
    => loaded = disk

IInv == TypeOK /\ LoadedWhenHashed

\* The positions of Order, without its sequence of names.
LEMMA Positions ==
    /\ DOMAIN Order = 1 .. Len(Order) /\ Len(Order) \in Nat \ {0} /\ 1 \in DOMAIN Order
    /\ \A i \in DOMAIN Order : i < Len(Order) => i + 1 \in DOMAIN Order
<1>1. DOMAIN Order = 1 .. Len(Order) /\ Len(Order) \in Nat
  BY SslReloadAssumption
<1>2. \E i \in DOMAIN Order : Order[i] = "SSL_CERTIFICATE_FILE"
  BY SslReloadAssumption
<1> QED
  BY <1>1, <1>2

LEMMA IInvInit == Init => IInv
<1> SUFFICES ASSUME Init PROVE IInv
  OBVIOUS
<1>1. TypeOK
  <2>1. 1 \in 0 .. MaxVersion /\ NoHash \in -1 .. MaxVersion
    BY SslReloadAssumption DEF NoHash
  <2> QED
    BY <2>1, Positions DEF Init, TypeOK
<1>2. LoadedWhenHashed
  BY DEF Init, LoadedWhenHashed
<1> QED
  BY <1>1, <1>2 DEF IInv

\* The script only looks, signals, or starts over.
LEMMA LookSteps == ASSUME IInv, Start \/ Check \/ Reload PROVE IInv'
<1> USE Positions DEF IInv
<1>1. UNCHANGED <<disk, hash, loaded, running, returned>> /\ Consistent' = Consistent
  BY DEF Start, Check, Reload, Consistent
<1>2. TypeOK'
  <2>1. at' \in DOMAIN Order
    BY DEF TypeOK, Start, Check, Reload
  <2>2. /\ pc' \in {"idle", "check", "reload", "write"}
        /\ sighup' \in BOOLEAN /\ raced' \in BOOLEAN
    BY DEF TypeOK, Start, Check, Reload
  <2> QED
    BY <1>1, <2>1, <2>2 DEF TypeOK
<1>3. CASE Start \/ Check
  <2>1. \A f \in TlsFiles : ~Pending(f)'
    BY <1>3 DEF Start, Check, Pending
  <2>2. UNCHANGED <<sighup, raced>>
    BY <1>3 DEF Start, Check
  <2> QED
    BY <1>1, <1>2, <2>1, <2>2 DEF LoadedWhenHashed
<1>4. CASE Reload
  <2>1. CASE sighup' = TRUE
    BY <1>2, <2>1 DEF LoadedWhenHashed
  <2>2. CASE pc' = "idle" /\ UNCHANGED <<sighup, raced>>
    <3>1. \A f \in TlsFiles : ~Pending(f)'
      BY <2>2 DEF Pending
    <3> QED
      BY <1>1, <1>2, <2>2, <3>1 DEF LoadedWhenHashed
  <2> QED
    BY <1>4, <2>1, <2>2 DEF Reload
<1> QED
  BY <1>3, <1>4

\* A hash that is written agrees with the file, so that the files which have
\* their hash or will get it stay the same; an empty one is that of no file.
LEMMA WriteStep == ASSUME IInv, WriteHash PROVE IInv'
<1> USE Positions DEF IInv
<1>1. /\ pc = "write" /\ at \in DOMAIN Order /\ Order[at] \in TlsFiles
      /\ UNCHANGED <<disk, sighup, loaded, running, raced, returned>> /\ Consistent' = Consistent
  BY DEF WriteHash, TypeOK, TlsFiles, Consistent
<1>2. TypeOK'
  <2>1. at' \in DOMAIN Order /\ pc' \in {"idle", "write"}
    BY <1>1 DEF WriteHash
  <2>2. disk[Order[at]] \in -1 .. MaxVersion /\ Absent \in -1 .. MaxVersion
    BY <1>1, SslReloadAssumption DEF TypeOK, Absent
  <2>3. hash' \in [TlsFiles -> -1 .. MaxVersion]
    BY <1>1, <2>2 DEF WriteHash, TypeOK
  <2> QED
    BY <1>1, <2>1, <2>3 DEF TypeOK
<1>3. CASE disk[Order[at]] = Absent
  <2>1. ~Consistent
    BY <1>1, <1>3 DEF Consistent
  <2> QED
    BY <1>1, <1>2, <2>1 DEF LoadedWhenHashed
<1>4. CASE disk[Order[at]] # Absent
  <2>1. /\ hash' = [hash EXCEPT ![Order[at]] = disk[Order[at]]]
        /\ \/ at' = at + 1 /\ UNCHANGED pc
           \/ at = Len(Order) /\ pc' = "idle"
    BY <1>1, <1>4 DEF WriteHash
  <2>2. \A f \in TlsFiles : hash'[f] = IF f = Order[at] THEN disk[f] ELSE hash[f]
    BY <2>1 DEF TypeOK
  <2>3. ASSUME NEW f \in TlsFiles, f # Order[at], Pending(f)'
        PROVE  Pending(f)
    BY <1>1, <2>1, <2>3 DEF Pending
  <2>4. (\A f \in TlsFiles : hash'[f] = disk'[f] \/ Pending(f)')
          => \A f \in TlsFiles : hash[f] = disk[f] \/ Pending(f)
    <3>1. Pending(Order[at])
      BY <1>1 DEF Pending
    <3> QED
      BY <1>1, <2>2, <2>3, <3>1
  <2> QED
    BY <1>1, <1>2, <2>4 DEF LoadedWhenHashed
<1> QED
  BY <1>3, <1>4

\* What the server reads is what is there.
LEMMA ServerSteps ==
    ASSUME IInv, ServerReloads \/ ServerStops \/ ServerStarts PROVE IInv'
<1> USE DEF IInv
<1>1. UNCHANGED <<pc, at, disk, hash, raced>> /\ Consistent' = Consistent
  BY DEF ServerReloads, ServerStops, ServerStarts, Consistent
<1>2. ~running' \/ ~Consistent \/ loaded' = disk'
  BY DEF ServerReloads, ServerStops, ServerStarts
<1>3. TypeOK'
  BY <1>1 DEF TypeOK, ServerReloads, ServerStops, ServerStarts
<1> QED
  BY <1>1, <1>2, <1>3 DEF LoadedWhenHashed

\* A file that is replaced while no hashes are written differs from its hash,
\* or it is again what its hash stands for: then the server works with the files
\* as they are now, or `returned` says that it does not.
LEMMA RotateStep == ASSUME IInv, NEW f \in TlsFiles, Rotate(f) PROVE IInv'
<1> USE DEF IInv
<1>1. PICK v \in (0 .. MaxVersion) \ {disk[f]} :
        /\ disk' = [disk EXCEPT ![f] = v]
        /\ returned' = (returned \/ (v # Absent /\ v = hash[f] /\ disk' # loaded))
  BY DEF Rotate
<1>2. UNCHANGED <<pc, at, hash, sighup, loaded, running>>
  BY DEF Rotate
<1>3. TypeOK'
  BY <1>1, <1>2 DEF TypeOK, Rotate
<1>4. disk'[f] = v
  BY <1>1 DEF TypeOK
<1>5. CASE v = Absent
  <2>1. ~Consistent'
    BY <1>4, <1>5 DEF Consistent
  <2> QED
    BY <1>3, <2>1 DEF LoadedWhenHashed
<1>6. CASE pc = "write"
  <2>1. raced'
    BY <1>6 DEF Rotate
  <2> QED
    BY <1>3, <2>1 DEF LoadedWhenHashed
<1>7. CASE v # Absent /\ pc # "write"
  <2>1. ~Pending(f)'
    BY <1>2, <1>7 DEF Pending
  <2>2. CASE v = hash[f]
    <3>1. returned' \/ loaded' = disk'
      BY <1>1, <1>2, <1>7, <2>2
    <3> QED
      BY <1>3, <3>1 DEF LoadedWhenHashed
  <2>3. CASE v # hash[f]
    <3>1. hash'[f] # disk'[f]
      BY <1>2, <1>4, <2>3
    <3> QED
      BY <1>3, <2>1, <3>1 DEF LoadedWhenHashed
  <2> QED
    BY <2>2, <2>3
<1> QED
  BY <1>5, <1>6, <1>7

LEMMA IInvNext == IInv /\ [Next]_vars => IInv'
<1>1. IInv /\ UNCHANGED vars => IInv'
  BY DEF vars, IInv, TypeOK, LoadedWhenHashed, Consistent, Pending
<1> QED
  BY <1>1, LookSteps, WriteStep, ServerSteps, RotateStep DEF Next

\* The server works with the files whenever no file differs from its hash,
\* except for a file replaced between the signal and its hash, and for one that
\* is again what its hash stands for while the server works with others.
THEOREM NothingMissed == Spec => []HashesMatchLoaded
<1>1. IInv => HashesMatchLoaded
  BY DEF IInv, LoadedWhenHashed, HashesMatchLoaded
<1> QED
  BY <1>1, IInvInit, IInvNext, PTL DEF Spec
=============================================================================
