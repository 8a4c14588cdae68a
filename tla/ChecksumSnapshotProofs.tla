------------------------- MODULE ChecksumSnapshotProofs -------------------------
(* Proofs about ChecksumSnapshot, for any number of runs, tables, changes and *)
(* faults.                                                                    *)
EXTENDS ChecksumSnapshot, TLAPS

--------------------------------------------------------------------------------
(* Types                                                                      *)

LEMMA TypeInit == Init => TypeOK
<1> SUFFICES ASSUME Init PROVE TypeOK
  OBVIOUS
<1>1. MaxLsn \in Nat /\ MaxFaults \in Nat
  BY ChecksumAssumption DEF ChecksumAssumption
<1>2. /\ wal \in 0 .. MaxLsn /\ replayed \in 0 .. wal /\ applied \in 0 .. wal
      /\ stored \in 0 .. applied /\ faults \in 0 .. MaxFaults
  BY <1>1 DEF Init
<1>3. chRead \in [Runs -> [Tables -> 0 .. applied \cup {Unread}]]
  BY DEF Init
<1>4. /\ snapshot \in [Runs -> 0 .. replayed]
      /\ lsn_int \in [Runs -> 0 .. replayed]
  BY DEF Init
<1> QED
  BY <1>2, <1>3, <1>4 DEF Init, TypeOK

\* Every step keeps the types.
LEMMA TypeNext ==
    ASSUME TypeOK, [Next]_vars
    PROVE  TypeOK'
<1> USE ChecksumAssumption
<1>1. CASE UNCHANGED vars
  BY <1>1 DEF vars, sharedVars, localVars, cutVars, ghostVars, TypeOK
<1>2. CASE Change
  BY <1>2 DEF Change, RunVars, localVars, cutVars, ghostVars, TypeOK
<1>3. CASE ReplayWal
  BY <1>3 DEF ReplayWal, RunVars, localVars, cutVars, ghostVars, TypeOK
<1>4. CASE Apply
  BY <1>4 DEF Apply, RunVars, localVars, cutVars, ghostVars, TypeOK
<1>5. CASE StoreOffset
  BY <1>5 DEF StoreOffset, RunVars, localVars, cutVars, ghostVars, TypeOK
<1>6. ASSUME NEW r \in Runs, Start(r) \/ Step(r) \/ Raise(r) \/ Kill(r) \/ ResumeWalFails(r)
      PROVE  TypeOK'
  <2>1. CASE Start(r)
    BY <2>1 DEF Start, Goto, sharedVars, cutVars, ghostVars, TypeOK
  <2>2. CASE CheckWal(r)
    BY <2>2 DEF CheckWal, Goto, sharedVars, localVars, cutVars, ghostVars, TypeOK
  <2>3. CASE PauseWal(r)
    BY <2>3 DEF PauseWal, Goto, localVars, cutVars, ghostVars, TypeOK
  <2>4. CASE NoteWalPaused(r)
    BY <2>4 DEF NoteWalPaused, Goto, sharedVars, cutVars, ghostVars, TypeOK
  <2>5. CASE BeginSnapshot(r)
    BY <2>5 DEF BeginSnapshot, Goto, sharedVars, localVars, ghostVars, TypeOK
  <2>6. CASE ReadLsn(r)
    BY <2>6 DEF ReadLsn, Goto, sharedVars, localVars, ghostVars, TypeOK
  <2>7. CASE CaughtUp(r)
    BY <2>7 DEF CaughtUp, AfterWait, OffsetReached, Goto, sharedVars, localVars,
                ghostVars, TypeOK
  <2>8. CASE ProceedAnyway(r)
    BY <2>8 DEF ProceedAnyway, AfterWait, Goto, sharedVars, localVars, cutVars,
                ghostVars, TypeOK
  <2>9. CASE FlushFails(r)
    BY <2>9 DEF FlushFails, Goto, sharedVars, localVars, cutVars, ghostVars, TypeOK
  <2>10. ASSUME NEW t \in Tables, ReadTable(r, t)
        PROVE  TypeOK'
    BY <2>10 DEF ReadTable, sharedVars, localVars, cutVars, ghostVars, TypeOK
  <2>11. CASE Compare(r)
    BY <2>11 DEF Compare, Goto, sharedVars, localVars, cutVars, ghostVars, TypeOK
  <2>12. CASE ResumeWal(r)
    BY <2>12 DEF ResumeWal, Exit, ghostVars, TypeOK
  <2>13. CASE Raise(r)
    BY <2>13 DEF Raise, Inside, Unnoted, Fault, sharedVars, localVars, cutVars,
                 TypeOK
  <2>14. CASE Kill(r)
    BY <2>14 DEF Kill, Exit, Unnoted, Fault, sharedVars, TypeOK
  <2>15. CASE ResumeWalFails(r)
    BY <2>15 DEF ResumeWalFails, Exit, Fault, sharedVars, TypeOK
  <2> QED
    BY <1>6, <2>1, <2>2, <2>3, <2>4, <2>5, <2>6, <2>7, <2>8, <2>9, <2>10,
       <2>11, <2>12, <2>13, <2>14, <2>15 DEF Step
<1> QED
  BY <1>1, <1>2, <1>3, <1>4, <1>5, <1>6 DEF Next

\* Every variable of the standby, the connector and the runs has its type: the
\* standby and ClickHouse are never ahead of the source, an offset is stored for
\* what is applied, and the position of a run is one that the standby has replayed.
THEOREM TypeCorrect == Spec => []TypeOK
<1>1. Init => TypeOK
  BY TypeInit
<1>2. TypeOK /\ [Next]_vars => TypeOK'
  BY TypeNext
<1> QED
  BY <1>1, <1>2, PTL DEF Spec

--------------------------------------------------------------------------------
(* What a run that has waited compares                                        *)

\* Where a run may have something of ClickHouse in its hands.
HasRead == {"read", "resumeWal"}

\* A run reads ClickHouse only past its waits, the position it waits for is not
\* before its snapshot, and once it has seen the offset, the offset, which only
\* grows, covers its snapshot.
WaitedInv ==
    \A r \in Runs :
        /\ pc[r] \notin HasRead => \A t \in Tables : chRead[r][t] = Unread
        /\ pc[r] = "lsn" => ~caught_up[r]
        /\ pc[r] = "wait" => snapshot[r] <= lsn_int[r] /\ ~caught_up[r]
        /\ caught_up[r] => pc[r] \in HasRead \cup {"flush"} /\ snapshot[r] <= stored

AlarmInv == WaitedInv /\ NoFalseAlarm

LEMMA AlarmInit == Init => AlarmInv
  BY DEF Init, AlarmInv, WaitedInv, NoFalseAlarm, HasRead

\* Every step keeps what a run that has waited may rely on.
LEMMA AlarmNext ==
    ASSUME TypeOK, AlarmInv, [Next]_vars
    PROVE  AlarmInv'
<1> USE ChecksumAssumption
<1>1. CASE UNCHANGED vars
  BY <1>1 DEF vars, sharedVars, localVars, cutVars, ghostVars, AlarmInv, WaitedInv,
              NoFalseAlarm, HasRead, TypeOK
<1>2. CASE Change
  BY <1>2 DEF Change, RunVars, localVars, cutVars, ghostVars, AlarmInv, WaitedInv,
              NoFalseAlarm, HasRead, TypeOK
<1>3. CASE ReplayWal
  BY <1>3 DEF ReplayWal, RunVars, localVars, cutVars, ghostVars, AlarmInv,
              WaitedInv, NoFalseAlarm, HasRead, TypeOK
<1>4. CASE Apply
  BY <1>4 DEF Apply, RunVars, localVars, cutVars, ghostVars, AlarmInv, WaitedInv,
              NoFalseAlarm, HasRead, TypeOK
<1>5. CASE StoreOffset
  BY <1>5 DEF StoreOffset, RunVars, localVars, cutVars, ghostVars, AlarmInv,
              WaitedInv, NoFalseAlarm, HasRead, TypeOK
<1>6. ASSUME NEW r \in Runs, Start(r) \/ Step(r) \/ Raise(r) \/ Kill(r) \/ ResumeWalFails(r)
      PROVE  AlarmInv'
  <2>1. CASE Start(r)
    BY <2>1 DEF Start, Goto, sharedVars, cutVars, ghostVars, AlarmInv,
                WaitedInv, NoFalseAlarm, HasRead, TypeOK
  <2>2. CASE CheckWal(r)
    BY <2>2 DEF CheckWal, Goto, sharedVars, localVars, cutVars, ghostVars, AlarmInv,
                WaitedInv, NoFalseAlarm, HasRead, TypeOK
  <2>3. CASE PauseWal(r)
    BY <2>3 DEF PauseWal, Goto, localVars, cutVars, ghostVars, AlarmInv, WaitedInv,
                NoFalseAlarm, HasRead, TypeOK
  <2>4. CASE NoteWalPaused(r)
    BY <2>4 DEF NoteWalPaused, Goto, sharedVars, cutVars, ghostVars, AlarmInv,
                WaitedInv, NoFalseAlarm, HasRead, TypeOK
  <2>5. CASE BeginSnapshot(r)
    BY <2>5 DEF BeginSnapshot, Goto, sharedVars, localVars, ghostVars, AlarmInv,
                WaitedInv, NoFalseAlarm, HasRead, TypeOK
  <2>6. CASE ReadLsn(r)
    BY <2>6 DEF ReadLsn, Goto, sharedVars, localVars, ghostVars, AlarmInv,
                WaitedInv, NoFalseAlarm, HasRead, TypeOK
  <2>7. CASE CaughtUp(r)
    BY <2>7 DEF CaughtUp, AfterWait, OffsetReached, Goto, sharedVars, localVars,
                ghostVars, AlarmInv, WaitedInv, NoFalseAlarm, HasRead, TypeOK
  <2>8. CASE ProceedAnyway(r)
    BY <2>8 DEF ProceedAnyway, AfterWait, Goto, sharedVars, localVars, cutVars,
                ghostVars, AlarmInv, WaitedInv, NoFalseAlarm, HasRead, TypeOK
  <2>9. CASE FlushFails(r)
    BY <2>9 DEF FlushFails, Goto, sharedVars, localVars, cutVars, ghostVars,
                 AlarmInv, WaitedInv, NoFalseAlarm, HasRead, TypeOK
  <2>10. ASSUME NEW t \in Tables, ReadTable(r, t)
        PROVE  AlarmInv'
    BY <2>10 DEF ReadTable, sharedVars, localVars, cutVars, ghostVars, AlarmInv,
                 WaitedInv, NoFalseAlarm, HasRead, TypeOK
  <2>11. CASE Compare(r)
    BY <2>11 DEF Compare, Goto, sharedVars, localVars, cutVars, ghostVars, AlarmInv,
                 WaitedInv, NoFalseAlarm, HasRead, TypeOK
  <2>12. CASE ResumeWal(r)
    BY <2>12 DEF ResumeWal, Exit, ghostVars, AlarmInv, WaitedInv,
                 NoFalseAlarm, HasRead, TypeOK
  <2>13. CASE Raise(r)
    BY <2>13 DEF Raise, Inside, Unnoted, Fault, sharedVars, localVars, cutVars,
                 AlarmInv, WaitedInv, NoFalseAlarm, HasRead, TypeOK
  <2>14. CASE Kill(r)
    BY <2>14 DEF Kill, Exit, Unnoted, Fault, sharedVars, AlarmInv, WaitedInv,
                 NoFalseAlarm, HasRead, TypeOK
  <2>15. CASE ResumeWalFails(r)
    BY <2>15 DEF ResumeWalFails, Exit, Fault, sharedVars,
                 AlarmInv, WaitedInv, NoFalseAlarm, HasRead, TypeOK
  <2> QED
    BY <1>6, <2>1, <2>2, <2>3, <2>4, <2>5, <2>6, <2>7, <2>8, <2>9, <2>10,
       <2>11, <2>12, <2>13, <2>14, <2>15 DEF Step
<1> QED
  BY <1>1, <1>2, <1>3, <1>4, <1>5, <1>6 DEF Next

\* A run that has seen the offset reach the position of its snapshot finds in every
\* table all that the snapshot has of it, however many changes, reads and other
\* runs come in between.
THEOREM WaitedSeesSnapshot == Spec => []NoFalseAlarm
<1>1. Init => TypeOK /\ AlarmInv
  BY TypeInit, AlarmInit
<1>2. TypeOK /\ AlarmInv /\ [Next]_vars => (TypeOK /\ AlarmInv)'
  BY TypeNext, AlarmNext
<1>3. AlarmInv => NoFalseAlarm
  BY DEF AlarmInv
<1> QED
  BY <1>1, <1>2, <1>3, PTL DEF Spec

--------------------------------------------------------------------------------
(* What is paused is resumed                                                  *)

\* A replay that is paused has a run that knows of it or is about to, and a run
\* that knows of it has not ended; unless it has been forgotten.
PausedInv ==
    /\ walPaused /\ ~forgotten =>
          \E r \in Runs : pc[r] = "walPaused" \/ wal_was_paused_by_us[r]
    /\ \A r \in Runs : wal_was_paused_by_us[r] => pc[r] \notin {"idle", "done"}

LEMMA PausedInit == Init => PausedInv
  BY DEF Init, PausedInv

\* Every step keeps a run responsible for the pause.
LEMMA PausedNext ==
    ASSUME TypeOK, PausedInv, [Next]_vars
    PROVE  PausedInv'
<1>1. CASE UNCHANGED vars
  BY <1>1 DEF vars, sharedVars, localVars, cutVars, ghostVars, PausedInv, TypeOK
<1>2. CASE Change
  BY <1>2 DEF Change, RunVars, localVars, cutVars, ghostVars, PausedInv, TypeOK
<1>3. CASE ReplayWal
  BY <1>3 DEF ReplayWal, RunVars, localVars, cutVars, ghostVars, PausedInv, TypeOK
<1>4. CASE Apply
  BY <1>4 DEF Apply, RunVars, localVars, cutVars, ghostVars, PausedInv, TypeOK
<1>5. CASE StoreOffset
  BY <1>5 DEF StoreOffset, RunVars, localVars, cutVars, ghostVars, PausedInv, TypeOK
<1>6. ASSUME NEW r \in Runs, Start(r) \/ Step(r) \/ Raise(r) \/ Kill(r) \/ ResumeWalFails(r)
      PROVE  PausedInv'
  <2>1. CASE Start(r)
    BY <2>1 DEF Start, Goto, sharedVars, cutVars, ghostVars, PausedInv,
                TypeOK
  <2>2. CASE CheckWal(r)
    BY <2>2 DEF CheckWal, Goto, sharedVars, localVars, cutVars, ghostVars,
                PausedInv, TypeOK
  <2>3. CASE PauseWal(r)
    BY <2>3 DEF PauseWal, Goto, localVars, cutVars, ghostVars, PausedInv, TypeOK
  <2>4. CASE NoteWalPaused(r)
    BY <2>4 DEF NoteWalPaused, Goto, sharedVars, cutVars, ghostVars, PausedInv, TypeOK
  <2>5. CASE BeginSnapshot(r)
    BY <2>5 DEF BeginSnapshot, Goto, sharedVars, localVars, ghostVars, PausedInv,
                TypeOK
  <2>6. CASE ReadLsn(r)
    BY <2>6 DEF ReadLsn, Goto, sharedVars, localVars, ghostVars, PausedInv, TypeOK
  <2>7. CASE CaughtUp(r)
    BY <2>7 DEF CaughtUp, AfterWait, OffsetReached, Goto, sharedVars, localVars,
                ghostVars, PausedInv, TypeOK
  <2>8. CASE ProceedAnyway(r)
    BY <2>8 DEF ProceedAnyway, AfterWait, Goto, sharedVars, localVars, cutVars,
                ghostVars, PausedInv, TypeOK
  <2>9. CASE FlushFails(r)
    BY <2>9 DEF FlushFails, Goto, sharedVars, localVars, cutVars, ghostVars,
                 PausedInv, TypeOK
  <2>10. ASSUME NEW t \in Tables, ReadTable(r, t)
        PROVE  PausedInv'
    BY <2>10 DEF ReadTable, sharedVars, localVars, cutVars, ghostVars, PausedInv,
                 TypeOK
  <2>11. CASE Compare(r)
    BY <2>11 DEF Compare, Goto, sharedVars, localVars, cutVars, ghostVars,
                 PausedInv, TypeOK
  <2>12. CASE ResumeWal(r)
    BY <2>12 DEF ResumeWal, Exit, ghostVars, PausedInv, TypeOK
  <2>13. CASE Raise(r)
    BY <2>13 DEF Raise, Inside, Unnoted, Fault, sharedVars, localVars, cutVars,
                 PausedInv, TypeOK
  <2>14. CASE Kill(r)
    BY <2>14 DEF Kill, Exit, Unnoted, Fault, sharedVars, PausedInv, TypeOK
  <2>15. CASE ResumeWalFails(r)
    BY <2>15 DEF ResumeWalFails, Exit, Fault, sharedVars,
                 PausedInv, TypeOK
  <2> QED
    BY <1>6, <2>1, <2>2, <2>3, <2>4, <2>5, <2>6, <2>7, <2>8, <2>9, <2>10,
       <2>11, <2>12, <2>13, <2>14, <2>15 DEF Step
<1> QED
  BY <1>1, <1>2, <1>3, <1>4, <1>5, <1>6 DEF Next

\* When no run is left, the standby replays, however the runs have ended and
\* overlapped, with the exceptions that the property names.
THEOREM EverythingIsResumed == Spec => []NothingLeftPaused
<1>1. Init => TypeOK /\ PausedInv
  BY TypeInit, PausedInit
<1>2. TypeOK /\ PausedInv /\ [Next]_vars => (TypeOK /\ PausedInv)'
  BY TypeNext, PausedNext
<1>3. PausedInv => NothingLeftPaused
  BY DEF PausedInv, NothingLeftPaused
<1> QED
  BY <1>1, <1>2, <1>3, PTL DEF Spec
================================================================================
