------------------------ MODULE PrivateDataProofs ------------------------
(***************************************************************************)
(* Proofs about PrivateDeletion, for every set of paths, every number of   *)
(* commands and every bound on errors and crashes, whatever SQLite tells,  *)
(* whether a Chat can be read and however many deletions overlap: what     *)
(* exists keeps its bytes and one command moves them; and, up to what      *)
(* lapses, what is open is whole, no run is active while its storage       *)
(* moves, and what was deleted stays gone.                                 *)
(***************************************************************************)
EXTENDS PrivateData, Sequences, FiniteSetTheorems, TLAPS

\* A command that has begun and not yet returned.
Busy(d) == pc[d] \notin {"idle", "asked"}

\* One command or the recovery works on the storage.
OneAtATime ==
    /\ \A d, e \in Deleter : Moving(d) /\ Moving(e) => d = e
    /\ pc[Boot] # "idle" => \A d \in Deleter : pc[d] = "idle"
    /\ pc[Boot] \in {"idle", "boot", "rollback", "cleanup"}

\* Unless two have begun, one deletion is under way, no run beside it, and
\* nobody enters.
Apart ==
    /\ \A d, e \in Deleter : Busy(d) /\ Busy(e) => d = e
    /\ run => row /\ Running /\ \A d \in Deleter : ~Busy(d)
    /\ kind = "guru" => \A d \in Deleter : Busy(d) => quarantined
    /\ \A d \in Deleter :
        /\ pc[d] = "detach" => \A p \in Path \ todo[d] : "source" \notin storage[p]
        /\ pc[d] = "commit" => \A p \in Path : "source" \notin storage[p]
        /\ pc[d] = "reopen" => journal = "none"

\* Nor does anybody enter a target whose deletion is pending, unless its Chat
\* could not be read; so nothing is stored beside a tombstone.
Closed ==
    /\ row /\ Running /\ ~quarantined /\ journal # "none" =>
         kind = "chat" /\ \E d \in Deleter : Busy(d)
    /\ run => journal = "none"
    /\ \A p \in Path : storage[p] \in {{}, {"source"}, {"tombstone"}}

\* What SQLite deleted has no live storage, unless its error hid that it had.
Absent ==
    /\ ~row => \A p \in Path : "source" \notin storage[p]
    /\ \A a \in Actor : pc[a] \in {"detach", "commit", "rollback"} =>
         row \/ \A p \in Path : storage[p] = {}

\* Where the bytes are, as SQLite and the journal have it.
StorageFits ==
    /\ row => \A p \in Required : storage[p] # {}
    /\ journal = "none" => \A p \in Path : "tombstone" \notin storage[p]

\* How far a command or the recovery is.
PlaceFits ==
    \A a \in Actor :
        /\ pc[a] \in {"detach", "commit", "rollback", "cleanup"} => journal # "none"
        /\ pc[a] \in {"rollback", "cleanup"} =>
             \A p \in Path \ todo[a] : "tombstone" \notin storage[p]
        /\ pc[a] = "cleanup" => ~row

\* The recovery acts on the journal and the row that it read.
BootFits ==
    /\ pc[Boot] \in {"rollback", "cleanup"} => expected[Boot] = journal
    /\ pc[Boot] = "rollback" => row

Always == TypeOK /\ OneAtATime /\ StorageFits /\ PlaceFits /\ BootFits

IInv ==
    /\ Always
    /\ "overlap" \notin lapses => Apart
    /\ lapses \subseteq {"indeterminate"} => Closed
    /\ lapses \subseteq {"unread"} => Absent
-----------------------------------------------------------------------------
\* Lapses are remembered, and a step adds to them what it lets happen.
LEMMA Remembered ==
    ASSUME TypeOK, Next
    PROVE  /\ lapses \subseteq lapses'
           /\ lapses' \subseteq {"overlap", "indeterminate", "unread"}
           /\ "overlap" \notin lapses' => ~Overlap
           /\ lapses' \subseteq {"indeterminate"} => ~Overlap /\ ~Unread
           /\ lapses' \subseteq {"unread"} => ~Overlap /\ ~Indeterminate
BY DEF TypeOK, Next, Lapse

\* Every step keeps the types.
LEMMA TypeStep ==
    ASSUME TypeOK, Next
    PROVE  TypeOK'
<1>a. kind' = kind
  BY DEF Next
<1>b. lapses' \subseteq {"overlap", "indeterminate", "unread"}
  BY Remembered
<1> USE KindAssumption DEF TypeOK, Phase, Required, Optional, Path, Actor, Step, vars,
        durable, Move, Goto, Visit, Visited, Expect, Keep, Fault, Quiet
<1>1. CASE RunStarts
  BY <1>a, <1>b, <1>1 DEF RunStarts
<1>2. CASE RunEnds
  BY <1>a, <1>b, <1>2 DEF RunEnds
<1>3. CASE Crash
  <2>1. crashes' \in Nat /\ UNCHANGED <<row, journal, storage, faults>>
    BY <1>3 DEF Crash
  <2>2. /\ pc' \in [Actor -> Step] /\ expected' \in [Actor -> Phase]
        /\ todo' \in [Actor -> SUBSET Path]
    BY <1>3 DEF Crash
  <2>3. quarantined' = FALSE /\ run' = FALSE
    BY <1>3 DEF Crash
  <2> QED
    BY <1>a, <1>b, <1>b, <2>1, <2>2, <2>3
<1>4. CASE Recover
  BY <1>a, <1>b, <1>4 DEF Recover
<1>5. ASSUME NEW p \in Path, RunStores(p)
      PROVE  TypeOK'
  BY <1>a, <1>b, <1>5 DEF RunStores
<1>6. ASSUME NEW d \in Deleter, Ask(d)
      PROVE  TypeOK'
  BY <1>a, <1>b, <1>6 DEF Ask
<1>7. ASSUME NEW d \in Deleter, Begin(d)
      PROVE  TypeOK'
  BY <1>a, <1>b, <1>7 DEF Begin
<1>8. ASSUME NEW d \in Deleter, BeginRefused(d)
      PROVE  TypeOK'
  BY <1>a, <1>b, <1>8 DEF BeginRefused
<1>9. ASSUME NEW d \in Deleter, CreateJournal(d)
      PROVE  TypeOK'
  BY <1>a, <1>b, <1>9 DEF CreateJournal, Storable
<1>10. ASSUME NEW d \in Deleter, CreateJournalFails(d)
      PROVE  TypeOK'
  BY <1>a, <1>b, <1>10 DEF CreateJournalFails, Refuse
<1>11. ASSUME NEW d \in Deleter, MarkDetached(d)
      PROVE  TypeOK'
  BY <1>a, <1>b, <1>11 DEF MarkDetached
<1>12. ASSUME NEW d \in Deleter, MarkFails(d)
      PROVE  TypeOK'
  BY <1>a, <1>b, <1>12 DEF MarkFails
<1>13. ASSUME NEW d \in Deleter, DeleteRow(d)
      PROVE  TypeOK'
  BY <1>a, <1>b, <1>13 DEF DeleteRow
<1>14. ASSUME NEW d \in Deleter, DeleteRowFails(d)
      PROVE  TypeOK'
  <2>0. /\ Move(d, "commit", "rollback") /\ Visit(d, Path) /\ (Quiet \/ Fault)
        /\ UNCHANGED <<journal, storage, quarantined, expected>>
        /\ row' = row \/ row' = FALSE
    BY <1>14, Zenon DEF DeleteRowFails
  <2>1. row' \in BOOLEAN
    BY <2>0
  <2> QED
    BY <1>a, <1>b, <1>b, <2>0, <2>1
<1>15. ASSUME NEW d \in Deleter, CheckPending(d)
      PROVE  TypeOK'
  BY <1>a, <1>b, <1>15 DEF CheckPending
<1>16. ASSUME NEW d \in Deleter, Reopen(d)
      PROVE  TypeOK'
  BY <1>a, <1>b, <1>16 DEF Reopen
<1>17. ASSUME NEW d \in Deleter, CloseChat(d)
      PROVE  TypeOK'
  BY <1>a, <1>b, <1>17 DEF CloseChat
<1>18. ASSUME NEW d \in Deleter, NEW p \in Path, Detach(d, p)
      PROVE  TypeOK'
  BY <1>a, <1>b, <1>18 DEF Detach
<1>19. ASSUME NEW d \in Deleter, NEW p \in Path, DetachFails(d, p)
      PROVE  TypeOK'
  BY <1>a, <1>b, <1>19 DEF DetachFails
<1>20. ASSUME NEW a \in Actor, NEW p \in Path, Rollback(a, p)
      PROVE  TypeOK'
  BY <1>a, <1>b, <1>20 DEF Rollback
<1>21. ASSUME NEW a \in Actor, NEW p \in Path, RollbackFails(a, p)
      PROVE  TypeOK'
  BY <1>a, <1>b, <1>21 DEF RollbackFails, Refuse
<1>22. ASSUME NEW a \in Actor, NEW p \in Path, Cleanup(a, p)
      PROVE  TypeOK'
  BY <1>a, <1>b, <1>22 DEF Cleanup
<1>23. ASSUME NEW a \in Actor, NEW p \in Path, CleanupFails(a, p)
      PROVE  TypeOK'
  BY <1>a, <1>b, <1>23 DEF CleanupFails, Refuse
<1>24. ASSUME NEW a \in Actor, NEW from \in {"rollback", "cleanup"}, Erase(a, from)
      PROVE  TypeOK'
  BY <1>a, <1>b, <1>24 DEF Erase
<1>25. ASSUME NEW a \in Actor, NEW from \in {"rollback", "cleanup"}, EraseFails(a, from)
      PROVE  TypeOK'
  BY <1>a, <1>b, <1>25 DEF EraseFails, Refuse
<1> QED
  BY <1>1, <1>2, <1>3, <1>4, <1>5, <1>6, <1>7, <1>8, <1>9, <1>10, <1>11, <1>12, <1>13,
     <1>14, <1>15, <1>16, <1>17, <1>18, <1>19, <1>20, <1>21, <1>22, <1>23, <1>24, <1>25
  DEF Next, Command, Resolve

\* Every step leaves one at work: who moves storage holds the journal.
LEMMA OneStep ==
    ASSUME Always, Next
    PROVE  OneAtATime'
<1> USE KindAssumption DEF Always, TypeOK, OneAtATime, PlaceFits, Moving, Running,
        Actor, Step, vars, durable, Move, Goto, Visit, Visited, Expect, Keep, Fault,
        Quiet
<1>1. CASE RunStarts
  BY <1>1 DEF RunStarts
<1>2. CASE RunEnds
  BY <1>2 DEF RunEnds
<1>3. CASE Crash
  BY <1>3 DEF Crash
<1>4. CASE Recover
  BY <1>4 DEF Recover
<1>5. ASSUME NEW p \in Path, RunStores(p)
      PROVE  OneAtATime'
  BY <1>5 DEF RunStores
<1>6. ASSUME NEW d \in Deleter, Ask(d)
      PROVE  OneAtATime'
  BY <1>6 DEF Ask
<1>7. ASSUME NEW d \in Deleter, Begin(d)
      PROVE  OneAtATime'
  BY <1>7 DEF Begin
<1>8. ASSUME NEW d \in Deleter, BeginRefused(d)
      PROVE  OneAtATime'
  BY <1>8 DEF BeginRefused
<1>9. ASSUME NEW d \in Deleter, CreateJournal(d)
      PROVE  OneAtATime'
  BY <1>9 DEF CreateJournal, Storable
<1>10. ASSUME NEW d \in Deleter, CreateJournalFails(d)
      PROVE  OneAtATime'
  BY <1>10 DEF CreateJournalFails, Refuse
<1>11. ASSUME NEW d \in Deleter, MarkDetached(d)
      PROVE  OneAtATime'
  BY <1>11 DEF MarkDetached
<1>12. ASSUME NEW d \in Deleter, MarkFails(d)
      PROVE  OneAtATime'
  BY <1>12 DEF MarkFails
<1>13. ASSUME NEW d \in Deleter, DeleteRow(d)
      PROVE  OneAtATime'
  BY <1>13 DEF DeleteRow
<1>14. ASSUME NEW d \in Deleter, DeleteRowFails(d)
      PROVE  OneAtATime'
  BY <1>14 DEF DeleteRowFails
<1>15. ASSUME NEW d \in Deleter, CheckPending(d)
      PROVE  OneAtATime'
  BY <1>15 DEF CheckPending
<1>16. ASSUME NEW d \in Deleter, Reopen(d)
      PROVE  OneAtATime'
  BY <1>16 DEF Reopen
<1>17. ASSUME NEW d \in Deleter, CloseChat(d)
      PROVE  OneAtATime'
  BY <1>17 DEF CloseChat
<1>18. ASSUME NEW d \in Deleter, NEW p \in Path, Detach(d, p)
      PROVE  OneAtATime'
  BY <1>18 DEF Detach
<1>19. ASSUME NEW d \in Deleter, NEW p \in Path, DetachFails(d, p)
      PROVE  OneAtATime'
  BY <1>19 DEF DetachFails
<1>20. ASSUME NEW a \in Actor, NEW p \in Path, Rollback(a, p)
      PROVE  OneAtATime'
  BY <1>20 DEF Rollback
<1>21. ASSUME NEW a \in Actor, NEW p \in Path, RollbackFails(a, p)
      PROVE  OneAtATime'
  BY <1>21 DEF RollbackFails, Refuse
<1>22. ASSUME NEW a \in Actor, NEW p \in Path, Cleanup(a, p)
      PROVE  OneAtATime'
  BY <1>22 DEF Cleanup
<1>23. ASSUME NEW a \in Actor, NEW p \in Path, CleanupFails(a, p)
      PROVE  OneAtATime'
  BY <1>23 DEF CleanupFails, Refuse
<1>24. ASSUME NEW a \in Actor, NEW from \in {"rollback", "cleanup"}, Erase(a, from)
      PROVE  OneAtATime'
  BY <1>24 DEF Erase
<1>25. ASSUME NEW a \in Actor, NEW from \in {"rollback", "cleanup"}, EraseFails(a, from)
      PROVE  OneAtATime'
  BY <1>25 DEF EraseFails, Refuse
<1> QED
  BY <1>1, <1>2, <1>3, <1>4, <1>5, <1>6, <1>7, <1>8, <1>9, <1>10, <1>11, <1>12, <1>13,
     <1>14, <1>15, <1>16, <1>17, <1>18, <1>19, <1>20, <1>21, <1>22, <1>23, <1>24, <1>25
  DEF Next, Command, Resolve

\* While no two deletions have begun, every step keeps the runs and the others
\* apart from the one that has.
LEMMA ApartStep ==
    ASSUME Always, Apart, Next, ~Overlap
    PROVE  Apart'
<1>a. kind' = kind
  BY DEF Next
<1> USE KindAssumption DEF Always, TypeOK, OneAtATime, PlaceFits, Apart, Overlap, Busy,
        Running, Alone, Required, Optional, Path, Actor, Step, vars, durable, Move,
        Goto, Visit, Visited, Expect, Keep, Fault, Quiet
<1>1. CASE RunStarts
  BY <1>a, <1>1 DEF RunStarts
<1>2. CASE RunEnds
  BY <1>a, <1>2 DEF RunEnds
<1>3. CASE Crash
  BY <1>a, <1>3 DEF Crash
<1>4. CASE Recover
  BY <1>a, <1>4 DEF Recover
<1>5. ASSUME NEW p \in Path, RunStores(p)
      PROVE  Apart'
  BY <1>a, <1>5 DEF RunStores
<1>6. ASSUME NEW d \in Deleter, Ask(d)
      PROVE  Apart'
  BY <1>a, <1>6 DEF Ask
<1>7. ASSUME NEW d \in Deleter, Begin(d)
      PROVE  Apart'
  BY <1>a, <1>7 DEF Begin
<1>8. ASSUME NEW d \in Deleter, BeginRefused(d)
      PROVE  Apart'
  BY <1>a, <1>8 DEF BeginRefused
<1>9. ASSUME NEW d \in Deleter, CreateJournal(d)
      PROVE  Apart'
  BY <1>a, <1>9 DEF CreateJournal, Storable
<1>10. ASSUME NEW d \in Deleter, CreateJournalFails(d)
      PROVE  Apart'
  BY <1>a, <1>10 DEF CreateJournalFails, Refuse
<1>11. ASSUME NEW d \in Deleter, MarkDetached(d)
      PROVE  Apart'
  BY <1>a, <1>11 DEF MarkDetached
<1>12. ASSUME NEW d \in Deleter, MarkFails(d)
      PROVE  Apart'
  BY <1>a, <1>12 DEF MarkFails
<1>13. ASSUME NEW d \in Deleter, DeleteRow(d)
      PROVE  Apart'
  BY <1>a, <1>13 DEF DeleteRow
<1>14. ASSUME NEW d \in Deleter, DeleteRowFails(d)
      PROVE  Apart'
  BY <1>a, <1>14 DEF DeleteRowFails
<1>15. ASSUME NEW d \in Deleter, CheckPending(d)
      PROVE  Apart'
  BY <1>a, <1>15 DEF CheckPending
<1>16. ASSUME NEW d \in Deleter, Reopen(d)
      PROVE  Apart'
  BY <1>a, <1>16 DEF Reopen
<1>17. ASSUME NEW d \in Deleter, CloseChat(d)
      PROVE  Apart'
  BY <1>a, <1>17 DEF CloseChat
<1>18. ASSUME NEW d \in Deleter, NEW p \in Path, Detach(d, p)
      PROVE  Apart'
  BY <1>a, <1>18 DEF Detach
<1>19. ASSUME NEW d \in Deleter, NEW p \in Path, DetachFails(d, p)
      PROVE  Apart'
  BY <1>a, <1>19 DEF DetachFails
<1>20. ASSUME NEW a \in Actor, NEW p \in Path, Rollback(a, p)
      PROVE  Apart'
  BY <1>a, <1>20 DEF Rollback
<1>21. ASSUME NEW a \in Actor, NEW p \in Path, RollbackFails(a, p)
      PROVE  Apart'
  BY <1>a, <1>21 DEF RollbackFails, Refuse
<1>22. ASSUME NEW a \in Actor, NEW p \in Path, Cleanup(a, p)
      PROVE  Apart'
  BY <1>a, <1>22 DEF Cleanup
<1>23. ASSUME NEW a \in Actor, NEW p \in Path, CleanupFails(a, p)
      PROVE  Apart'
  BY <1>a, <1>23 DEF CleanupFails, Refuse
<1>24. ASSUME NEW a \in Actor, NEW from \in {"rollback", "cleanup"}, Erase(a, from)
      PROVE  Apart'
  BY <1>a, <1>24 DEF Erase
<1>25. ASSUME NEW a \in Actor, NEW from \in {"rollback", "cleanup"}, EraseFails(a, from)
      PROVE  Apart'
  BY <1>a, <1>25 DEF EraseFails, Refuse
<1> QED
  BY <1>1, <1>2, <1>3, <1>4, <1>5, <1>6, <1>7, <1>8, <1>9, <1>10, <1>11, <1>12, <1>13,
     <1>14, <1>15, <1>16, <1>17, <1>18, <1>19, <1>20, <1>21, <1>22, <1>23, <1>24, <1>25
  DEF Next, Command, Resolve

\* Every step keeps the target closed while a deletion is pending.
LEMMA ClosedStep ==
    ASSUME Always, Apart, Closed, Next, ~Overlap, ~Unread
    PROVE  Closed'
<1>a. kind' = kind
  BY DEF Next
<1> USE KindAssumption DEF Always, TypeOK, OneAtATime, StorageFits, PlaceFits, Apart,
        Closed, Busy, Overlap, Unread, Running, Required, Optional, Path, Actor, Step,
        vars, durable, Move, Goto, Visit, Visited, Expect, Keep, Fault, Quiet
<1>1. CASE RunStarts
  BY <1>a, <1>1 DEF RunStarts
<1>2. CASE RunEnds
  BY <1>a, <1>2 DEF RunEnds
<1>3. CASE Crash
  BY <1>a, <1>3 DEF Crash
<1>4. CASE Recover
  BY <1>a, <1>4 DEF Recover
<1>5. ASSUME NEW p \in Path, RunStores(p)
      PROVE  Closed'
  BY <1>a, <1>5 DEF RunStores
<1>6. ASSUME NEW d \in Deleter, Ask(d)
      PROVE  Closed'
  BY <1>a, <1>6 DEF Ask
<1>7. ASSUME NEW d \in Deleter, Begin(d)
      PROVE  Closed'
  BY <1>a, <1>7 DEF Begin
<1>8. ASSUME NEW d \in Deleter, BeginRefused(d)
      PROVE  Closed'
  BY <1>a, <1>8 DEF BeginRefused
<1>9. ASSUME NEW d \in Deleter, CreateJournal(d)
      PROVE  Closed'
  BY <1>a, <1>9 DEF CreateJournal, Storable
<1>10. ASSUME NEW d \in Deleter, CreateJournalFails(d)
      PROVE  Closed'
  BY <1>a, <1>10 DEF CreateJournalFails, Refuse
<1>11. ASSUME NEW d \in Deleter, MarkDetached(d)
      PROVE  Closed'
  BY <1>a, <1>11 DEF MarkDetached
<1>12. ASSUME NEW d \in Deleter, MarkFails(d)
      PROVE  Closed'
  BY <1>a, <1>12 DEF MarkFails
<1>13. ASSUME NEW d \in Deleter, DeleteRow(d)
      PROVE  Closed'
  BY <1>a, <1>13 DEF DeleteRow
<1>14. ASSUME NEW d \in Deleter, DeleteRowFails(d)
      PROVE  Closed'
  <2>1. /\ Move(d, "commit", "rollback") /\ Visit(d, Path)
        /\ UNCHANGED <<journal, storage, quarantined, expected>>
        /\ row' = row \/ row' = FALSE
    BY <1>14, Zenon DEF DeleteRowFails
  <2> QED
    BY <1>a, <2>1
<1>15. ASSUME NEW d \in Deleter, CheckPending(d)
      PROVE  Closed'
  BY <1>a, <1>15 DEF CheckPending
<1>16. ASSUME NEW d \in Deleter, Reopen(d)
      PROVE  Closed'
  BY <1>a, <1>16 DEF Reopen
<1>17. ASSUME NEW d \in Deleter, CloseChat(d)
      PROVE  Closed'
  BY <1>a, <1>17 DEF CloseChat
<1>18. ASSUME NEW d \in Deleter, NEW p \in Path, Detach(d, p)
      PROVE  Closed'
  BY <1>a, <1>18 DEF Detach
<1>19. ASSUME NEW d \in Deleter, NEW p \in Path, DetachFails(d, p)
      PROVE  Closed'
  BY <1>a, <1>19 DEF DetachFails
<1>20. ASSUME NEW a \in Actor, NEW p \in Path, Rollback(a, p)
      PROVE  Closed'
  BY <1>a, <1>20 DEF Rollback
<1>21. ASSUME NEW a \in Actor, NEW p \in Path, RollbackFails(a, p)
      PROVE  Closed'
  BY <1>a, <1>21 DEF RollbackFails, Refuse
<1>22. ASSUME NEW a \in Actor, NEW p \in Path, Cleanup(a, p)
      PROVE  Closed'
  BY <1>a, <1>22 DEF Cleanup
<1>23. ASSUME NEW a \in Actor, NEW p \in Path, CleanupFails(a, p)
      PROVE  Closed'
  BY <1>a, <1>23 DEF CleanupFails, Refuse
<1>24. ASSUME NEW a \in Actor, NEW from \in {"rollback", "cleanup"}, Erase(a, from)
      PROVE  Closed'
  BY <1>a, <1>24 DEF Erase
<1>25. ASSUME NEW a \in Actor, NEW from \in {"rollback", "cleanup"}, EraseFails(a, from)
      PROVE  Closed'
  BY <1>a, <1>25 DEF EraseFails, Refuse
<1> QED
  BY <1>1, <1>2, <1>3, <1>4, <1>5, <1>6, <1>7, <1>8, <1>9, <1>10, <1>11, <1>12, <1>13,
     <1>14, <1>15, <1>16, <1>17, <1>18, <1>19, <1>20, <1>21, <1>22, <1>23, <1>24, <1>25
  DEF Next, Command, Resolve

\* Every step leaves the bytes where SQLite and the journal have them.
LEMMA StorageStep ==
    ASSUME Always, Next
    PROVE  StorageFits'
<1>a. kind' = kind
  BY DEF Next
<1> USE DEF Always, TypeOK, StorageFits, PlaceFits, Required, Optional, Path, Actor,
        Step, vars, durable, Move, Goto, Visit, Visited, Expect, Keep, Fault, Quiet
<1>1. CASE RunStarts
  BY <1>a, <1>1 DEF RunStarts
<1>2. CASE RunEnds
  BY <1>a, <1>2 DEF RunEnds
<1>3. CASE Crash
  BY <1>a, <1>3 DEF Crash
<1>4. CASE Recover
  BY <1>a, <1>4 DEF Recover
<1>5. ASSUME NEW p \in Path, RunStores(p)
      PROVE  StorageFits'
  BY <1>a, <1>5 DEF RunStores
<1>6. ASSUME NEW d \in Deleter, Ask(d)
      PROVE  StorageFits'
  BY <1>a, <1>6 DEF Ask
<1>7. ASSUME NEW d \in Deleter, Begin(d)
      PROVE  StorageFits'
  BY <1>a, <1>7 DEF Begin
<1>8. ASSUME NEW d \in Deleter, BeginRefused(d)
      PROVE  StorageFits'
  BY <1>a, <1>8 DEF BeginRefused
<1>9. ASSUME NEW d \in Deleter, CreateJournal(d)
      PROVE  StorageFits'
  BY <1>a, <1>9 DEF CreateJournal, Storable
<1>10. ASSUME NEW d \in Deleter, CreateJournalFails(d)
      PROVE  StorageFits'
  BY <1>a, <1>10 DEF CreateJournalFails, Refuse
<1>11. ASSUME NEW d \in Deleter, MarkDetached(d)
      PROVE  StorageFits'
  BY <1>a, <1>11 DEF MarkDetached
<1>12. ASSUME NEW d \in Deleter, MarkFails(d)
      PROVE  StorageFits'
  BY <1>a, <1>12 DEF MarkFails
<1>13. ASSUME NEW d \in Deleter, DeleteRow(d)
      PROVE  StorageFits'
  BY <1>a, <1>13 DEF DeleteRow
<1>14. ASSUME NEW d \in Deleter, DeleteRowFails(d)
      PROVE  StorageFits'
  <2>1. /\ Move(d, "commit", "rollback") /\ Visit(d, Path)
        /\ UNCHANGED <<journal, storage, quarantined, expected>>
        /\ row' = row \/ row' = FALSE
    BY <1>14, Zenon DEF DeleteRowFails
  <2> QED
    BY <1>a, <2>1
<1>15. ASSUME NEW d \in Deleter, CheckPending(d)
      PROVE  StorageFits'
  BY <1>a, <1>15 DEF CheckPending
<1>16. ASSUME NEW d \in Deleter, Reopen(d)
      PROVE  StorageFits'
  BY <1>a, <1>16 DEF Reopen
<1>17. ASSUME NEW d \in Deleter, CloseChat(d)
      PROVE  StorageFits'
  BY <1>a, <1>17 DEF CloseChat
<1>18. ASSUME NEW d \in Deleter, NEW p \in Path, Detach(d, p)
      PROVE  StorageFits'
  BY <1>a, <1>18 DEF Detach
<1>19. ASSUME NEW d \in Deleter, NEW p \in Path, DetachFails(d, p)
      PROVE  StorageFits'
  BY <1>a, <1>19 DEF DetachFails
<1>20. ASSUME NEW a \in Actor, NEW p \in Path, Rollback(a, p)
      PROVE  StorageFits'
  BY <1>a, <1>20 DEF Rollback
<1>21. ASSUME NEW a \in Actor, NEW p \in Path, RollbackFails(a, p)
      PROVE  StorageFits'
  BY <1>a, <1>21 DEF RollbackFails, Refuse
<1>22. ASSUME NEW a \in Actor, NEW p \in Path, Cleanup(a, p)
      PROVE  StorageFits'
  BY <1>a, <1>22 DEF Cleanup
<1>23. ASSUME NEW a \in Actor, NEW p \in Path, CleanupFails(a, p)
      PROVE  StorageFits'
  BY <1>a, <1>23 DEF CleanupFails, Refuse
<1>24. ASSUME NEW a \in Actor, NEW from \in {"rollback", "cleanup"}, Erase(a, from)
      PROVE  StorageFits'
  BY <1>a, <1>24 DEF Erase
<1>25. ASSUME NEW a \in Actor, NEW from \in {"rollback", "cleanup"}, EraseFails(a, from)
      PROVE  StorageFits'
  BY <1>a, <1>25 DEF EraseFails, Refuse
<1> HIDE DEF Always, TypeOK, StorageFits, PlaceFits, Required, Optional, Path, Actor
<1> QED
  BY <1>1, <1>2, <1>3, <1>4, <1>5, <1>6, <1>7, <1>8, <1>9, <1>10, <1>11, <1>12, <1>13,
     <1>14, <1>15, <1>16, <1>17, <1>18, <1>19, <1>20, <1>21, <1>22, <1>23, <1>24, <1>25
  DEF Next, Command, Resolve

\* No step gives storage back to what SQLite deleted and said so.
LEMMA AbsentStep ==
    ASSUME Always, Apart, Absent, Next, ~Overlap, ~Indeterminate
    PROVE  Absent'
<1>a. kind' = kind
  BY DEF Next
<1> USE KindAssumption DEF Always, TypeOK, OneAtATime, StorageFits, Apart, Absent, Busy,
        Overlap, Indeterminate, Required, Optional, Path, Actor, Step, vars, durable,
        Move, Goto, Visit, Visited, Expect, Keep, Fault, Quiet
<1>1. CASE RunStarts
  BY <1>a, <1>1 DEF RunStarts
<1>2. CASE RunEnds
  BY <1>a, <1>2 DEF RunEnds
<1>3. CASE Crash
  BY <1>a, <1>3 DEF Crash
<1>4. CASE Recover
  BY <1>a, <1>4 DEF Recover
<1>5. ASSUME NEW p \in Path, RunStores(p)
      PROVE  Absent'
  BY <1>a, <1>5 DEF RunStores
<1>6. ASSUME NEW d \in Deleter, Ask(d)
      PROVE  Absent'
  BY <1>a, <1>6 DEF Ask
<1>7. ASSUME NEW d \in Deleter, Begin(d)
      PROVE  Absent'
  BY <1>a, <1>7 DEF Begin
<1>8. ASSUME NEW d \in Deleter, BeginRefused(d)
      PROVE  Absent'
  BY <1>a, <1>8 DEF BeginRefused
<1>9. ASSUME NEW d \in Deleter, CreateJournal(d)
      PROVE  Absent'
  BY <1>a, <1>9 DEF CreateJournal, Storable
<1>10. ASSUME NEW d \in Deleter, CreateJournalFails(d)
      PROVE  Absent'
  BY <1>a, <1>10 DEF CreateJournalFails, Refuse
<1>11. ASSUME NEW d \in Deleter, MarkDetached(d)
      PROVE  Absent'
  BY <1>a, <1>11 DEF MarkDetached
<1>12. ASSUME NEW d \in Deleter, MarkFails(d)
      PROVE  Absent'
  BY <1>a, <1>12 DEF MarkFails
<1>13. ASSUME NEW d \in Deleter, DeleteRow(d)
      PROVE  Absent'
  BY <1>a, <1>13 DEF DeleteRow
<1>14. ASSUME NEW d \in Deleter, DeleteRowFails(d)
      PROVE  Absent'
  BY <1>a, <1>14 DEF DeleteRowFails
<1>15. ASSUME NEW d \in Deleter, CheckPending(d)
      PROVE  Absent'
  BY <1>a, <1>15 DEF CheckPending
<1>16. ASSUME NEW d \in Deleter, Reopen(d)
      PROVE  Absent'
  BY <1>a, <1>16 DEF Reopen
<1>17. ASSUME NEW d \in Deleter, CloseChat(d)
      PROVE  Absent'
  BY <1>a, <1>17 DEF CloseChat
<1>18. ASSUME NEW d \in Deleter, NEW p \in Path, Detach(d, p)
      PROVE  Absent'
  BY <1>a, <1>18 DEF Detach
<1>19. ASSUME NEW d \in Deleter, NEW p \in Path, DetachFails(d, p)
      PROVE  Absent'
  BY <1>a, <1>19 DEF DetachFails
<1>20. ASSUME NEW a \in Actor, NEW p \in Path, Rollback(a, p)
      PROVE  Absent'
  BY <1>a, <1>20 DEF Rollback
<1>21. ASSUME NEW a \in Actor, NEW p \in Path, RollbackFails(a, p)
      PROVE  Absent'
  BY <1>a, <1>21 DEF RollbackFails, Refuse
<1>22. ASSUME NEW a \in Actor, NEW p \in Path, Cleanup(a, p)
      PROVE  Absent'
  BY <1>a, <1>22 DEF Cleanup
<1>23. ASSUME NEW a \in Actor, NEW p \in Path, CleanupFails(a, p)
      PROVE  Absent'
  BY <1>a, <1>23 DEF CleanupFails, Refuse
<1>24. ASSUME NEW a \in Actor, NEW from \in {"rollback", "cleanup"}, Erase(a, from)
      PROVE  Absent'
  BY <1>a, <1>24 DEF Erase
<1>25. ASSUME NEW a \in Actor, NEW from \in {"rollback", "cleanup"}, EraseFails(a, from)
      PROVE  Absent'
  BY <1>a, <1>25 DEF EraseFails, Refuse
<1> QED
  BY <1>1, <1>2, <1>3, <1>4, <1>5, <1>6, <1>7, <1>8, <1>9, <1>10, <1>11, <1>12, <1>13,
     <1>14, <1>15, <1>16, <1>17, <1>18, <1>19, <1>20, <1>21, <1>22, <1>23, <1>24, <1>25
  DEF Next, Command, Resolve

\* Every step is a step forwards.
LEMMA PlaceStep ==
    ASSUME Always, Next
    PROVE  PlaceFits'
<1> USE KindAssumption DEF Always, TypeOK, OneAtATime, StorageFits, PlaceFits, Moving,
        Required, Optional, Path, Actor, Step, vars, durable, Move, Goto, Visit,
        Visited, Expect, Keep, Fault, Quiet
<1>1. CASE RunStarts
  BY <1>1 DEF RunStarts
<1>2. CASE RunEnds
  BY <1>2 DEF RunEnds
<1>3. CASE Crash
  BY <1>3 DEF Crash
<1>4. CASE Recover
  BY <1>4 DEF Recover
<1>5. ASSUME NEW p \in Path, RunStores(p)
      PROVE  PlaceFits'
  BY <1>5 DEF RunStores
<1>6. ASSUME NEW d \in Deleter, Ask(d)
      PROVE  PlaceFits'
  BY <1>6 DEF Ask
<1>7. ASSUME NEW d \in Deleter, Begin(d)
      PROVE  PlaceFits'
  BY <1>7 DEF Begin
<1>8. ASSUME NEW d \in Deleter, BeginRefused(d)
      PROVE  PlaceFits'
  BY <1>8 DEF BeginRefused
<1>9. ASSUME NEW d \in Deleter, CreateJournal(d)
      PROVE  PlaceFits'
  BY <1>9 DEF CreateJournal, Storable
<1>10. ASSUME NEW d \in Deleter, CreateJournalFails(d)
      PROVE  PlaceFits'
  BY <1>10 DEF CreateJournalFails, Refuse
<1>11. ASSUME NEW d \in Deleter, MarkDetached(d)
      PROVE  PlaceFits'
  BY <1>11 DEF MarkDetached
<1>12. ASSUME NEW d \in Deleter, MarkFails(d)
      PROVE  PlaceFits'
  BY <1>12 DEF MarkFails
<1>13. ASSUME NEW d \in Deleter, DeleteRow(d)
      PROVE  PlaceFits'
  BY <1>13 DEF DeleteRow
<1>14. ASSUME NEW d \in Deleter, DeleteRowFails(d)
      PROVE  PlaceFits'
  <2>1. /\ Move(d, "commit", "rollback") /\ Visit(d, Path)
        /\ UNCHANGED <<journal, storage, quarantined, expected>>
        /\ row' = row \/ row' = FALSE
    BY <1>14, Zenon DEF DeleteRowFails
  <2> QED
    BY <2>1
<1>15. ASSUME NEW d \in Deleter, CheckPending(d)
      PROVE  PlaceFits'
  BY <1>15 DEF CheckPending
<1>16. ASSUME NEW d \in Deleter, Reopen(d)
      PROVE  PlaceFits'
  BY <1>16 DEF Reopen
<1>17. ASSUME NEW d \in Deleter, CloseChat(d)
      PROVE  PlaceFits'
  BY <1>17 DEF CloseChat
<1>18. ASSUME NEW d \in Deleter, NEW p \in Path, Detach(d, p)
      PROVE  PlaceFits'
  BY <1>18 DEF Detach
<1>19. ASSUME NEW d \in Deleter, NEW p \in Path, DetachFails(d, p)
      PROVE  PlaceFits'
  BY <1>19 DEF DetachFails
<1>20. ASSUME NEW a \in Actor, NEW p \in Path, Rollback(a, p)
      PROVE  PlaceFits'
  BY <1>20 DEF Rollback
<1>21. ASSUME NEW a \in Actor, NEW p \in Path, RollbackFails(a, p)
      PROVE  PlaceFits'
  BY <1>21 DEF RollbackFails, Refuse
<1>22. ASSUME NEW a \in Actor, NEW p \in Path, Cleanup(a, p)
      PROVE  PlaceFits'
  BY <1>22 DEF Cleanup
<1>23. ASSUME NEW a \in Actor, NEW p \in Path, CleanupFails(a, p)
      PROVE  PlaceFits'
  BY <1>23 DEF CleanupFails, Refuse
<1>24. ASSUME NEW a \in Actor, NEW from \in {"rollback", "cleanup"}, Erase(a, from)
      PROVE  PlaceFits'
  BY <1>24 DEF Erase
<1>25. ASSUME NEW a \in Actor, NEW from \in {"rollback", "cleanup"}, EraseFails(a, from)
      PROVE  PlaceFits'
  BY <1>25 DEF EraseFails, Refuse
<1> QED
  BY <1>1, <1>2, <1>3, <1>4, <1>5, <1>6, <1>7, <1>8, <1>9, <1>10, <1>11, <1>12, <1>13,
     <1>14, <1>15, <1>16, <1>17, <1>18, <1>19, <1>20, <1>21, <1>22, <1>23, <1>24, <1>25
  DEF Next, Command, Resolve

\* Nobody changes the journal or the row under the recovery.
LEMMA BootStep ==
    ASSUME Always, Next
    PROVE  BootFits'
<1> USE KindAssumption DEF Always, TypeOK, OneAtATime, PlaceFits, BootFits, Actor, Step,
        vars, durable, Move, Goto, Visit, Visited, Expect, Keep, Fault, Quiet
<1>1. CASE RunStarts
  BY <1>1 DEF RunStarts
<1>2. CASE RunEnds
  BY <1>2 DEF RunEnds
<1>3. CASE Crash
  BY <1>3 DEF Crash
<1>4. CASE Recover
  BY <1>4 DEF Recover
<1>5. ASSUME NEW p \in Path, RunStores(p)
      PROVE  BootFits'
  BY <1>5 DEF RunStores
<1>6. ASSUME NEW d \in Deleter, Ask(d)
      PROVE  BootFits'
  BY <1>6 DEF Ask
<1>7. ASSUME NEW d \in Deleter, Begin(d)
      PROVE  BootFits'
  BY <1>7 DEF Begin
<1>8. ASSUME NEW d \in Deleter, BeginRefused(d)
      PROVE  BootFits'
  BY <1>8 DEF BeginRefused
<1>9. ASSUME NEW d \in Deleter, CreateJournal(d)
      PROVE  BootFits'
  BY <1>9 DEF CreateJournal, Storable
<1>10. ASSUME NEW d \in Deleter, CreateJournalFails(d)
      PROVE  BootFits'
  BY <1>10 DEF CreateJournalFails, Refuse
<1>11. ASSUME NEW d \in Deleter, MarkDetached(d)
      PROVE  BootFits'
  BY <1>11 DEF MarkDetached
<1>12. ASSUME NEW d \in Deleter, MarkFails(d)
      PROVE  BootFits'
  BY <1>12 DEF MarkFails
<1>13. ASSUME NEW d \in Deleter, DeleteRow(d)
      PROVE  BootFits'
  BY <1>13 DEF DeleteRow
<1>14. ASSUME NEW d \in Deleter, DeleteRowFails(d)
      PROVE  BootFits'
  BY <1>14 DEF DeleteRowFails
<1>15. ASSUME NEW d \in Deleter, CheckPending(d)
      PROVE  BootFits'
  BY <1>15 DEF CheckPending
<1>16. ASSUME NEW d \in Deleter, Reopen(d)
      PROVE  BootFits'
  BY <1>16 DEF Reopen
<1>17. ASSUME NEW d \in Deleter, CloseChat(d)
      PROVE  BootFits'
  BY <1>17 DEF CloseChat
<1>18. ASSUME NEW d \in Deleter, NEW p \in Path, Detach(d, p)
      PROVE  BootFits'
  BY <1>18 DEF Detach
<1>19. ASSUME NEW d \in Deleter, NEW p \in Path, DetachFails(d, p)
      PROVE  BootFits'
  BY <1>19 DEF DetachFails
<1>20. ASSUME NEW a \in Actor, NEW p \in Path, Rollback(a, p)
      PROVE  BootFits'
  BY <1>20 DEF Rollback
<1>21. ASSUME NEW a \in Actor, NEW p \in Path, RollbackFails(a, p)
      PROVE  BootFits'
  BY <1>21 DEF RollbackFails, Refuse
<1>22. ASSUME NEW a \in Actor, NEW p \in Path, Cleanup(a, p)
      PROVE  BootFits'
  BY <1>22 DEF Cleanup
<1>23. ASSUME NEW a \in Actor, NEW p \in Path, CleanupFails(a, p)
      PROVE  BootFits'
  BY <1>23 DEF CleanupFails, Refuse
<1>24. ASSUME NEW a \in Actor, NEW from \in {"rollback", "cleanup"}, Erase(a, from)
      PROVE  BootFits'
  BY <1>24 DEF Erase
<1>25. ASSUME NEW a \in Actor, NEW from \in {"rollback", "cleanup"}, EraseFails(a, from)
      PROVE  BootFits'
  BY <1>25 DEF EraseFails, Refuse
<1> QED
  BY <1>1, <1>2, <1>3, <1>4, <1>5, <1>6, <1>7, <1>8, <1>9, <1>10, <1>11, <1>12, <1>13,
     <1>14, <1>15, <1>16, <1>17, <1>18, <1>19, <1>20, <1>21, <1>22, <1>23, <1>24, <1>25
  DEF Next, Command, Resolve

-----------------------------------------------------------------------------
\* The inductive invariant holds at first,
LEMMA InitInv == Init => IInv
<1> SUFFICES ASSUME Init PROVE IInv
  OBVIOUS
<1> USE KindAssumption DEF Init, Actor, Path
<1>1. TypeOK
  BY DEF TypeOK, Step, Phase
<1>2. OneAtATime /\ PlaceFits /\ BootFits /\ StorageFits
  BY DEF OneAtATime, PlaceFits, BootFits, StorageFits, Moving, Required
<1>3. Apart /\ Closed /\ Absent
  BY DEF Apart, Closed, Absent, Busy
<1> QED
  BY <1>1, <1>2, <1>3 DEF IInv, Always

\* and every step keeps it,
LEMMA StepInv == IInv /\ Next => IInv'
<1> SUFFICES ASSUME IInv, Next PROVE IInv'
  OBVIOUS
<1>1. Always /\ TypeOK
  BY DEF IInv, Always
<1>2. Always'
  BY <1>1, TypeStep, OneStep, StorageStep, PlaceStep, BootStep DEF Always
<1>3. ASSUME "overlap" \notin lapses' PROVE Apart'
  BY <1>1, <1>3, Remembered, ApartStep DEF IInv
<1>4. ASSUME lapses' \subseteq {"indeterminate"} PROVE Closed'
  <2>1. "overlap" \notin lapses /\ lapses \subseteq {"indeterminate"}
    BY <1>1, <1>4, Remembered
  <2> QED
    BY <1>1, <1>4, <2>1, Remembered, ClosedStep DEF IInv
<1>5. ASSUME lapses' \subseteq {"unread"} PROVE Absent'
  <2>1. "overlap" \notin lapses /\ lapses \subseteq {"unread"}
    BY <1>1, <1>5, Remembered
  <2> QED
    BY <1>1, <1>5, <2>1, Remembered, AbsentStep DEF IInv
<1> QED
  BY <1>2, <1>3, <1>4, <1>5 DEF IInv

\* as does no step.
LEMMA StutterInv == IInv /\ UNCHANGED vars => IInv'
BY DEF IInv, Always, TypeOK, OneAtATime, Apart, Closed, Absent, StorageFits, PlaceFits,
       BootFits, Busy, Moving, Running, Required, Path, Actor, vars, durable

\* The inductive invariant holds throughout.
THEOREM Invariance == Spec => []IInv
<1>1. IInv /\ [Next]_vars => IInv'
  BY StepInv, StutterInv
<1> QED
  BY <1>1, InitInv, PTL DEF Spec

\* The state stays well typed, whatever a deletion may leave behind.
THEOREM TypeCorrect == Spec => []TypeOK
<1>1. IInv => TypeOK
  BY DEF IInv, Always
<1> QED
  BY <1>1, Invariance, PTL

\* A Guru or a Chat that exists has the storage that it must have, whatever
\* SQLite tells and however many deletions overlap; and whoever may start a run
\* on it finds no deletion pending and every path in its place, unless two
\* deletions overlapped or a Chat whose deletion failed could not be read
\* (deletion.rs:81, commands/records.rs:107).
THEOREM Wholeness == Spec => []ExistingIsWhole
<1>1. IInv => ExistingIsWhole
  <2> SUFFICES ASSUME IInv PROVE ExistingKeepsBytes /\ OpenIsWhole
    BY DEF ExistingIsWhole
  <2>1. ExistingKeepsBytes
    BY DEF ExistingKeepsBytes, IInv, Always, StorageFits
  <2>2. OpenIsWhole
    <3> SUFFICES ASSUME lapses \subseteq {"indeterminate"},
                        row, Running, ~quarantined, kind = "chat" => Idle
                 PROVE  journal = "none" /\ \A p \in Path : "tombstone" \notin storage[p]
      BY DEF OpenIsWhole
    <3>1. journal = "none"
      BY DEF IInv, Closed, Idle, Busy, Actor
    <3> QED
      BY <3>1 DEF IInv, Always, StorageFits
  <2> QED
    BY <2>1, <2>2
<1> QED
  BY <1>1, Invariance, PTL

\* One command moves storage at a time, however many have begun, and no run is
\* active on what it moves unless two deletions of a Guru had begun
\* (run_coordinator.rs:528).
THEOREM RunsStayOut == Spec => []MovesAlone
<1>1. IInv => MovesAlone
  <2> SUFFICES ASSUME IInv PROVE MovesAlone
    OBVIOUS
  <2>1. \A d, e \in Deleter : Moving(d) /\ Moving(e) => d = e
    BY DEF IInv, Always, OneAtATime
  <2>2. "overlap" \notin lapses => NoRunWhileMoving
    BY DEF NoRunWhileMoving, IInv, Apart, Busy, Moving
  <2> QED
    BY <2>1, <2>2 DEF MovesAlone
<1> QED
  BY <1>1, Invariance, PTL

\* What SQLite deleted has no live storage, unless two deletions overlapped or
\* SQLite reported the deletion as failed (deletion.rs:116); and in every case
\* its tombstones are gone once its journal is.
THEOREM Gone == Spec => []DeletedStaysGone
<1>1. IInv => DeletedStaysGone
  BY DEF DeletedStaysGone, IInv, Always, StorageFits, Absent
<1> QED
  BY <1>1, Invariance, PTL
-----------------------------------------------------------------------------
\* A start that ends without an error of its own leaves no journal.
LEMMA BootEnds ==
    ASSUME Always, Closed, Next, pc[Boot] # "idle", pc'[Boot] = "idle", faults' = faults
    PROVE  journal' = "none"
<1> USE KindAssumption DEF Always, TypeOK, OneAtATime, StorageFits, Closed, BootFits,
        Required, Optional, Path, Actor, Step, vars, durable, Move, Goto, Visit,
        Visited, Expect, Keep, Fault, Quiet
<1>1. CASE RunStarts
  BY <1>1 DEF RunStarts
<1>2. CASE RunEnds
  BY <1>2 DEF RunEnds
<1>3. CASE Crash
  BY <1>3 DEF Crash
<1>4. CASE Recover
  BY <1>4 DEF Recover
<1>5. ASSUME NEW p \in Path, RunStores(p)
      PROVE  journal' = "none"
  BY <1>5 DEF RunStores
<1>6. ASSUME NEW d \in Deleter, Ask(d)
      PROVE  journal' = "none"
  BY <1>6 DEF Ask
<1>7. ASSUME NEW d \in Deleter, Begin(d)
      PROVE  journal' = "none"
  BY <1>7 DEF Begin
<1>8. ASSUME NEW d \in Deleter, BeginRefused(d)
      PROVE  journal' = "none"
  BY <1>8 DEF BeginRefused
<1>9. ASSUME NEW d \in Deleter, CreateJournal(d)
      PROVE  journal' = "none"
  BY <1>9 DEF CreateJournal, Storable
<1>10. ASSUME NEW d \in Deleter, CreateJournalFails(d)
      PROVE  journal' = "none"
  BY <1>10 DEF CreateJournalFails, Refuse
<1>11. ASSUME NEW d \in Deleter, MarkDetached(d)
      PROVE  journal' = "none"
  BY <1>11 DEF MarkDetached
<1>12. ASSUME NEW d \in Deleter, MarkFails(d)
      PROVE  journal' = "none"
  BY <1>12 DEF MarkFails
<1>13. ASSUME NEW d \in Deleter, DeleteRow(d)
      PROVE  journal' = "none"
  BY <1>13 DEF DeleteRow
<1>14. ASSUME NEW d \in Deleter, DeleteRowFails(d)
      PROVE  journal' = "none"
  BY <1>14 DEF DeleteRowFails
<1>15. ASSUME NEW d \in Deleter, CheckPending(d)
      PROVE  journal' = "none"
  BY <1>15 DEF CheckPending
<1>16. ASSUME NEW d \in Deleter, Reopen(d)
      PROVE  journal' = "none"
  BY <1>16 DEF Reopen
<1>17. ASSUME NEW d \in Deleter, CloseChat(d)
      PROVE  journal' = "none"
  BY <1>17 DEF CloseChat
<1>18. ASSUME NEW d \in Deleter, NEW p \in Path, Detach(d, p)
      PROVE  journal' = "none"
  BY <1>18 DEF Detach
<1>19. ASSUME NEW d \in Deleter, NEW p \in Path, DetachFails(d, p)
      PROVE  journal' = "none"
  BY <1>19 DEF DetachFails
<1>20. ASSUME NEW a \in Actor, NEW p \in Path, Rollback(a, p)
      PROVE  journal' = "none"
  BY <1>20 DEF Rollback
<1>21. ASSUME NEW a \in Actor, NEW p \in Path, RollbackFails(a, p)
      PROVE  journal' = "none"
  BY <1>21 DEF RollbackFails, Refuse
<1>22. ASSUME NEW a \in Actor, NEW p \in Path, Cleanup(a, p)
      PROVE  journal' = "none"
  BY <1>22 DEF Cleanup
<1>23. ASSUME NEW a \in Actor, NEW p \in Path, CleanupFails(a, p)
      PROVE  journal' = "none"
  BY <1>23 DEF CleanupFails, Refuse
<1>24. ASSUME NEW a \in Actor, NEW from \in {"rollback", "cleanup"}, Erase(a, from)
      PROVE  journal' = "none"
  BY <1>24 DEF Erase
<1>25. ASSUME NEW a \in Actor, NEW from \in {"rollback", "cleanup"}, EraseFails(a, from)
      PROVE  journal' = "none"
  BY <1>25 DEF EraseFails, Refuse
<1> QED
  BY <1>1, <1>2, <1>3, <1>4, <1>5, <1>6, <1>7, <1>8, <1>9, <1>10, <1>11, <1>12, <1>13,
     <1>14, <1>15, <1>16, <1>17, <1>18, <1>19, <1>20, <1>21, <1>22, <1>23, <1>24, <1>25
  DEF Next, Command, Resolve

\* A start that meets no error of its own resolves the journal it finds, unless
\* two deletions had overlapped or a Chat with a pending deletion had stayed open
\* (deletion.rs:131).
THEOREM StartsResolve == Spec => StartResolves
<1> DEFINE Resolves ==
      pc[Boot] # "idle" /\ pc'[Boot] = "idle" /\ faults' = faults
        /\ lapses \subseteq {"indeterminate"} => journal' = "none"
<1>1. IInv /\ [Next]_vars => [Resolves]_vars
  BY BootEnds DEF IInv
<1> QED
  BY <1>1, Invariance, PTL DEF Spec, StartResolves
-----------------------------------------------------------------------------
\* Artifacts.  What the calls of a running turn have staged and what it has
\* delivered concerns different artifacts, fits what is stored, and together
\* takes no more room than there is.
Version == [revision : Nat, data : Dataset \cup {None}, lineage : SUBSET Result, wide : BOOLEAN]
Publication ==
    [kind : {"publish"}, artifact : Artifact, revision : Nat, data : Dataset \cup {None},
     lineage : SUBSET Result, wide : BOOLEAN]
Reading  == [kind : {"read"}, artifact : Artifact, revision : Nat]
Computed == [kind : {"result"}, result : Result]
Staging  == {Artifacts!Nothing} \cup Publication \cup Reading \cup Computed

ArtifactTypes ==
    /\ stored \in [Artifact -> Version]
    /\ pending \in [Call -> Staging]
    /\ published \in Seq(Publication) /\ results \subseteq Result /\ IsFiniteSet(results)

Fits(p) ==
    /\ p.revision = stored[p.artifact].revision + 1 /\ Artifacts!Renders(p.data, p.wide)
    /\ \/ stored[p.artifact] = Artifacts!Absent
       \/ <<p.artifact, stored[p.artifact].revision>> \in reads
    /\ p.data = stored[p.artifact].data \/ p.lineage \subseteq results

Ids(ps) == {p.artifact : p \in ps}

Distinct ==
    /\ \A c, d \in Call : c # d /\ pending[c].kind = pending[d].kind =>
         /\ pending[c].kind = "result" => pending[c].result # pending[d].result
         /\ pending[c].kind = "publish" => pending[c].artifact # pending[d].artifact
    /\ \A c \in Call :
         /\ pending[c].kind = "publish" => pending[c].artifact \notin Ids(Artifacts!Delivered)
         /\ pending[c].kind = "result" => pending[c].result \notin results
    /\ \A i, j \in DOMAIN published : published[i].artifact = published[j].artifact => i = j

Bounded ==
    /\ Len(published) = Cardinality(Ids(Artifacts!Delivered))
    /\ Cardinality(Ids(Artifacts!Publications)) <= MaxPublished

RoomKept == Cardinality(results) + Cardinality(Artifacts!Staged("result")) <= MaxResults

RunInv == Distinct /\ Bounded /\ \A p \in Artifacts!Publications : Fits(p)

ArtifactInv ==
    /\ ArtifactTypes /\ Artifacts!RowsAreNamed /\ RoomKept /\ turn # "refused"
    /\ turn = "running" => RunInv

\* The instance counts as this module does.
LEMMA SameCardinality == ASSUME NEW S PROVE Artifacts!Cardinality(S) = Cardinality(S)
BY DEF Cardinality, Artifacts!Cardinality

LEMMA RoomIsRegistry == RoomKept <=> Artifacts!RegistryFits
BY SameCardinality DEF RoomKept, Artifacts!RegistryFits

\* A new identifier is one of those there are and was not used.
LEMMA NewIsNew ==
    ASSUME NEW ids, NEW used, NEW x \in Artifacts!New(ids, used)
    PROVE  x \in ids /\ x \notin used
<1>1. ids \subseteq used \/ \E y \in ids : y \notin used
  OBVIOUS
<1> QED
  BY <1>1 DEF Artifacts!New

\* What a function has on a finite set is finite.
LEMMA FiniteImage ==
    ASSUME NEW S, IsFiniteSet(S), NEW f, DOMAIN f = S
    PROVE  IsFiniteSet({f[x] : x \in S}) /\ Cardinality({f[x] : x \in S}) <= Cardinality(S)
<1> DEFINE T == {f[x] : x \in S}
<1>1. [x \in S |-> f[x]] \in Surjection(S, T)
  BY DEF Surjection
<1> QED
  BY <1>1, FS_Surjection

\* What is staged and what is published is finite.
LEMMA FiniteStaged ==
    ASSUME ArtifactTypes, NEW what PROVE IsFiniteSet(Artifacts!Staged(what))
<1> DEFINE calls == {d \in Call : pending[d].kind = what}
<1>1. IsFiniteSet(calls)
  BY ArtifactsAssumption, FS_Subset
<1>2. IsFiniteSet({[d \in calls |-> pending[d]][c] : c \in calls})
  BY <1>1, FiniteImage
<1> QED
  BY <1>2 DEF Artifacts!Staged

LEMMA FinitePublishers ==
    ASSUME NEW ps, IsFiniteSet(ps)
    PROVE  IsFiniteSet(Ids(ps)) /\ Cardinality(Ids(ps)) <= Cardinality(ps)
<1> DEFINE who == [p \in ps |-> p.artifact]
<1>1. {who[p] : p \in ps} = Ids(ps)
  BY DEF Ids
<1>2. IsFiniteSet({who[p] : p \in ps}) /\ Cardinality({who[p] : p \in ps}) <= Cardinality(ps)
  BY FiniteImage
<1> QED
  BY <1>1, <1>2

LEMMA FiniteIds ==
    ASSUME ArtifactTypes
    PROVE  /\ IsFiniteSet(Ids(Artifacts!Delivered)) /\ IsFiniteSet(Ids(Artifacts!Publications))
           /\ Ids(Artifacts!Delivered) \subseteq Ids(Artifacts!Publications)
<1>1. IsFiniteSet(Artifacts!Delivered)
  <2>1. IsFiniteSet(DOMAIN published)
    BY FS_Interval DEF ArtifactTypes
  <2> QED
    BY <2>1, FiniteImage DEF Artifacts!Delivered
<1>2. IsFiniteSet(Artifacts!Publications)
  BY <1>1, FiniteStaged, FS_Union DEF Artifacts!Publications
<1> QED
  BY <1>1, <1>2, FinitePublishers DEF Artifacts!Publications, Ids


\* What a call can have staged, field by field.
LEMMA StagingFields ==
    ASSUME NEW s \in Staging
    PROVE  /\ s.kind \in {"none", "publish", "read", "result"}
           /\ s.kind = "none" <=> s = Artifacts!Nothing
           /\ s.kind = "publish" => s \in Publication
           /\ s.kind = "result" => s.result \in Result
<1>1. Artifacts!Nothing.kind = "none"
  BY DEF Artifacts!Nothing
<1>2. CASE s = Artifacts!Nothing
  BY <1>1, <1>2
<1>3. CASE s \in Publication
  BY <1>1, <1>3 DEF Publication
<1>4. CASE s \in Reading
  BY <1>1, <1>4 DEF Reading
<1>5. CASE s \in Computed
  BY <1>1, <1>5 DEF Computed
<1> QED
  BY <1>2, <1>3, <1>4, <1>5 DEF Staging

LEMMA PublicationFields ==
    ASSUME NEW p \in Publication
    PROVE  /\ p.kind = "publish" /\ p.artifact \in Artifact /\ p.revision \in Nat
           /\ [revision |-> p.revision, data |-> p.data, lineage |-> p.lineage,
               wide |-> p.wide] \in Version
BY DEF Publication, Version

LEMMA DeliveredAre ==
    ASSUME ArtifactTypes
    PROVE  /\ Artifacts!Delivered \subseteq Publication
           /\ Artifacts!Publications \subseteq Publication
<1>1. Artifacts!Delivered \subseteq Publication
  BY DEF ArtifactTypes, Artifacts!Delivered
<1>2. Artifacts!Staged("publish") \subseteq Publication
  BY StagingFields DEF ArtifactTypes, Artifacts!Staged
<1> QED
  BY <1>1, <1>2 DEF Artifacts!Publications

\* A call that stages something adds it to what is staged.
LEMMA StagedGrows ==
    ASSUME ArtifactTypes, NEW c \in Call, NEW record \in Staging,
           record.kind # "none", Artifacts!Stage(c, record),
           NEW what, what # "none"
    PROVE  Artifacts!Staged(what)' =
             Artifacts!Staged(what) \cup (IF record.kind = what THEN {record} ELSE {})
<1>1. pending[c].kind = "none"
  BY StagingFields DEF ArtifactTypes, Artifacts!Stage
<1>2. /\ pending'[c] = record
      /\ \A d \in Call \ {c} : pending'[d] = pending[d]
  BY DEF ArtifactTypes, Artifacts!Stage
<1> QED
  BY <1>1, <1>2 DEF Artifacts!Staged

\* A call whose delivery ends takes it from what is staged.
LEMMA StagedShrinks ==
    ASSUME ArtifactTypes, Distinct, NEW c \in Call, NEW what \in {"publish", "result"},
           pending' = [pending EXCEPT ![c] = Artifacts!Nothing]
    PROVE  Artifacts!Staged(what)' = Artifacts!Staged(what) \ {pending[c]}
<1>1. Artifacts!Nothing.kind = "none"
  BY DEF Artifacts!Nothing
<1>2. /\ pending'[c] = Artifacts!Nothing
      /\ \A d \in Call \ {c} : pending'[d] = pending[d]
  BY DEF ArtifactTypes
<1>3. ASSUME NEW d \in Call \ {c}, pending[d].kind = what PROVE pending[d] # pending[c]
  BY <1>3 DEF Distinct
<1>4. ASSUME NEW p
      PROVE  p \in Artifacts!Staged(what)' <=>
               p \in Artifacts!Staged(what) /\ p # pending[c]
  <2>1. p \in Artifacts!Staged(what)' <=>
          \E d \in Call \ {c} : pending[d].kind = what /\ p = pending[d]
    BY <1>1, <1>2 DEF Artifacts!Staged
  <2>2. p \in Artifacts!Staged(what) <=>
          \E d \in Call : pending[d].kind = what /\ p = pending[d]
    BY DEF Artifacts!Staged
  <2> QED
    BY <2>1, <2>2, <1>3
<1> QED
  BY <1>4

\* Parts of the invariant that a step which stages or discards leaves alone.
LEMMA StoredFrame ==
    ASSUME ArtifactInv, UNCHANGED <<stored, tables>>
    PROVE  Artifacts!RowsAreNamed'
BY DEF ArtifactInv, Artifacts!RowsAreNamed, Artifacts!Readable

LEMMA FitsFrame ==
    ASSUME ArtifactInv, UNCHANGED stored, reads \subseteq reads', results \subseteq results',
           NEW p, Fits(p)
    PROVE  Fits(p)'
BY DEF Fits, Artifacts!Renders, Artifacts!Absent

LEMMA StageResultKeeps ==
    ASSUME ArtifactInv, NEW c \in Call, Artifacts!StageResult(c) PROVE ArtifactInv'
<1>1. PICK r \in Artifacts!NewResult :
        Artifacts!Stage(c, [kind |-> "result", result |-> r])
  BY DEF Artifacts!StageResult
<1> DEFINE record == [kind |-> "result", result |-> r]
<1>2. r \in Result /\ r \notin results /\ \A p \in Artifacts!Staged("result") : p.result # r
  BY NewIsNew DEF Artifacts!NewResult
<1>3. record \in Staging /\ record.kind = "result" /\ record.result = r
  BY <1>2 DEF Staging, Computed
<1> HIDE DEF record
<1>4. turn = "running" /\ ArtifactTypes /\ RunInv /\ Artifacts!Stage(c, record)
  BY <1>1 DEF ArtifactInv, Artifacts!Stage, record
<1>5. UNCHANGED <<stored, tables, turn, turns, published, reads, results>>
  BY <1>4 DEF Artifacts!Stage
<1>6. ArtifactTypes'
  BY <1>3, <1>4, <1>5 DEF ArtifactTypes, Artifacts!Stage
<1>7. Artifacts!Staged("result")' = Artifacts!Staged("result") \cup {record}
      /\ Artifacts!Staged("publish")' = Artifacts!Staged("publish")
  <2>1. Artifacts!Staged("result")' =
          Artifacts!Staged("result") \cup (IF record.kind = "result" THEN {record} ELSE {})
    BY <1>3, <1>4, StagedGrows
  <2>2. Artifacts!Staged("publish")' =
          Artifacts!Staged("publish") \cup (IF record.kind = "publish" THEN {record} ELSE {})
    BY <1>3, <1>4, StagedGrows
  <2> QED
    BY <1>3, <2>1, <2>2
<1>8. RoomKept'
  <2>1. record \notin Artifacts!Staged("result")
    BY <1>2, <1>3
  <2>2. Cardinality(Artifacts!Staged("result")') = Cardinality(Artifacts!Staged("result")) + 1
    BY <1>4, <1>7, <2>1, FiniteStaged, FS_AddElement
  <2>3. Cardinality(results) + Cardinality(Artifacts!Staged("result")) < MaxResults
    BY SameCardinality DEF Artifacts!StageResult, Artifacts!Room
  <2>4. Cardinality(results) \in Nat /\ Cardinality(Artifacts!Staged("result")) \in Nat
    BY <1>4, FiniteStaged, FS_CardinalityType DEF ArtifactTypes
  <2> QED
    BY <1>5, <2>2, <2>3, <2>4, ArtifactsAssumption DEF RoomKept
<1>9. Artifacts!Publications' = Artifacts!Publications /\ Artifacts!Delivered' = Artifacts!Delivered
  BY <1>5, <1>7 DEF Artifacts!Publications, Artifacts!Delivered
<1>10. Distinct'
  <2>1. pending'[c] = record /\ \A d \in Call \ {c} : pending'[d] = pending[d]
    BY <1>4 DEF ArtifactTypes, Artifacts!Stage
  <2>2. \A d \in Call : pending[d].kind = "result" => pending[d].result # r
    BY <1>2 DEF Artifacts!Staged
  <2> QED
    BY <1>2, <1>3, <1>4, <1>5, <1>9, <2>1, <2>2 DEF RunInv, Distinct, Ids
<1>11. Bounded'
  BY <1>4, <1>5, <1>9 DEF RunInv, Bounded, Ids
<1>12. \A p \in Artifacts!Publications' : Fits(p)'
  BY <1>4, <1>5, <1>9, FitsFrame DEF RunInv
<1>13. Artifacts!RowsAreNamed'
  BY <1>5, StoredFrame
<1> QED
  BY <1>4, <1>5, <1>6, <1>8, <1>10, <1>11, <1>12, <1>13 DEF ArtifactInv, RunInv

LEMMA ReadKeeps ==
    ASSUME ArtifactInv, NEW c \in Call, NEW a \in Artifact, Artifacts!ArtifactRead(c, a)
    PROVE  ArtifactInv'
<1> DEFINE record == [kind |-> "read", artifact |-> a, revision |-> stored[a].revision]
<1>1. stored[a].revision \in Nat
  BY DEF ArtifactInv, ArtifactTypes, Version
<1>2. record \in Staging /\ record.kind = "read"
  BY <1>1 DEF Staging, Reading
<1>3. Artifacts!Stage(c, record)
  BY DEF Artifacts!ArtifactRead
<1> HIDE DEF record
<1>4. turn = "running" /\ ArtifactTypes /\ RunInv
  BY <1>3 DEF ArtifactInv, Artifacts!Stage
<1>5. UNCHANGED <<stored, tables, turn, turns, published, reads, results>>
  BY <1>3 DEF Artifacts!Stage
<1>6. ArtifactTypes'
  BY <1>2, <1>3, <1>4, <1>5 DEF ArtifactTypes, Artifacts!Stage
<1>7. Artifacts!Staged("result")' = Artifacts!Staged("result")
      /\ Artifacts!Staged("publish")' = Artifacts!Staged("publish")
  <2>1. Artifacts!Staged("result")' =
          Artifacts!Staged("result") \cup (IF record.kind = "result" THEN {record} ELSE {})
    BY <1>2, <1>3, <1>4, StagedGrows
  <2>2. Artifacts!Staged("publish")' =
          Artifacts!Staged("publish") \cup (IF record.kind = "publish" THEN {record} ELSE {})
    BY <1>2, <1>3, <1>4, StagedGrows
  <2> QED
    BY <1>2, <2>1, <2>2
<1>8. RoomKept'
  BY <1>5, <1>7 DEF ArtifactInv, RoomKept
<1>9. Artifacts!Publications' = Artifacts!Publications /\ Artifacts!Delivered' = Artifacts!Delivered
  BY <1>5, <1>7 DEF Artifacts!Publications, Artifacts!Delivered
<1>10. Distinct'
  <2>1. pending'[c] = record /\ \A d \in Call \ {c} : pending'[d] = pending[d]
    BY <1>3, <1>4 DEF ArtifactTypes, Artifacts!Stage
  <2> QED
    BY <1>2, <1>4, <1>5, <1>9, <2>1 DEF RunInv, Distinct, Ids
<1>11. Bounded'
  BY <1>4, <1>5, <1>9 DEF RunInv, Bounded, Ids
<1>12. \A p \in Artifacts!Publications' : Fits(p)'
  BY <1>4, <1>5, <1>9, FitsFrame DEF RunInv
<1>13. Artifacts!RowsAreNamed'
  BY <1>5, StoredFrame
<1> QED
  BY <1>4, <1>5, <1>6, <1>8, <1>10, <1>11, <1>12, <1>13 DEF ArtifactInv, RunInv

\* A publication is staged: it fits, its artifact is staged for the first time
\* and there is room for it.
LEMMA PublishKeeps ==
    ASSUME ArtifactInv, NEW c \in Call, NEW a \in Artifact, NEW revision \in Nat,
           NEW d \in Dataset \cup {None}, NEW from \in SUBSET Result, NEW wide \in BOOLEAN,
           Artifacts!Publish(c, a, revision, d, from, wide),
           revision = stored[a].revision + 1,
           stored[a] = Artifacts!Absent \/ <<a, stored[a].revision>> \in reads,
           d = stored[a].data \/ from \subseteq results
    PROVE  ArtifactInv'
<1> DEFINE record == [kind |-> "publish", artifact |-> a, revision |-> revision,
                      data |-> d, lineage |-> from, wide |-> wide]
<1>1. record \in Staging /\ record.kind = "publish" /\ record.artifact = a
  BY DEF Staging, Publication
<1>2. Fits(record)
  BY DEF Fits, Artifacts!Publish
<1>3. Artifacts!Stage(c, record) /\ Artifacts!Stageable(a)
  BY DEF Artifacts!Publish
<1> HIDE DEF record
<1>4. turn = "running" /\ ArtifactTypes /\ RunInv
  BY <1>3 DEF ArtifactInv, Artifacts!Stage
<1>5. UNCHANGED <<stored, tables, turn, turns, published, reads, results>>
  BY <1>3 DEF Artifacts!Stage
<1>6. ArtifactTypes'
  BY <1>1, <1>3, <1>4, <1>5 DEF ArtifactTypes, Artifacts!Stage
<1>7. Artifacts!Staged("result")' = Artifacts!Staged("result")
      /\ Artifacts!Staged("publish")' = Artifacts!Staged("publish") \cup {record}
  <2>1. Artifacts!Staged("result")' =
          Artifacts!Staged("result") \cup (IF record.kind = "result" THEN {record} ELSE {})
    BY <1>1, <1>3, <1>4, StagedGrows
  <2>2. Artifacts!Staged("publish")' =
          Artifacts!Staged("publish") \cup (IF record.kind = "publish" THEN {record} ELSE {})
    BY <1>1, <1>3, <1>4, StagedGrows
  <2> QED
    BY <1>1, <2>1, <2>2
<1>8. RoomKept'
  BY <1>5, <1>7 DEF ArtifactInv, RoomKept
<1>9. /\ Artifacts!Publications' = Artifacts!Publications \cup {record}
      /\ Artifacts!Delivered' = Artifacts!Delivered
  BY <1>5, <1>7 DEF Artifacts!Publications, Artifacts!Delivered
<1>10. /\ a \notin Ids(Artifacts!Publications)
       /\ Cardinality(Ids(Artifacts!Publications)) < MaxPublished
  BY <1>3, SameCardinality DEF Artifacts!Stageable, Ids
<1>11. Distinct'
  <2>1. pending'[c] = record /\ \A e \in Call \ {c} : pending'[e] = pending[e]
    BY <1>3, <1>4 DEF ArtifactTypes, Artifacts!Stage
  <2>2. \A e \in Call : pending[e].kind = "publish" => pending[e].artifact # a
    BY <1>10 DEF Artifacts!Publications, Artifacts!Staged, Ids
  <2>3. a \notin Ids(Artifacts!Delivered)
    BY <1>10 DEF Artifacts!Publications, Ids
  <2> QED
    BY <1>1, <1>4, <1>5, <1>9, <2>1, <2>2, <2>3 DEF RunInv, Distinct, Ids
<1>12. Bounded'
  <2>1. Ids(Artifacts!Publications)' = Ids(Artifacts!Publications) \cup {a}
    BY <1>1, <1>9 DEF Ids
  <2>2. Cardinality(Ids(Artifacts!Publications)') = Cardinality(Ids(Artifacts!Publications)) + 1
    <3>1. Cardinality(Ids(Artifacts!Publications) \cup {a})
            = Cardinality(Ids(Artifacts!Publications)) + 1
      BY <1>4, <1>10, FiniteIds, FS_AddElement
    <3> QED
      BY <2>1, <3>1
  <2>3. Cardinality(Ids(Artifacts!Publications)) \in Nat
    BY <1>4, FiniteIds, FS_CardinalityType
  <2>4. Cardinality(Ids(Artifacts!Publications)') <= MaxPublished
    BY <1>10, <2>2, <2>3, ArtifactsAssumption
  <2>5. Ids(Artifacts!Delivered)' = Ids(Artifacts!Delivered)
    BY <1>9 DEF Ids
  <2> QED
    BY <1>4, <1>5, <2>4, <2>5 DEF RunInv, Bounded
<1>13. \A p \in Artifacts!Publications' : Fits(p)'
  BY <1>2, <1>4, <1>5, <1>9, FitsFrame DEF RunInv
<1>14. Artifacts!RowsAreNamed'
  BY <1>5, StoredFrame
<1> QED
  BY <1>4, <1>5, <1>6, <1>8, <1>11, <1>12, <1>13, <1>14 DEF ArtifactInv, RunInv

LEMMA AbsentIs ==
    /\ Artifacts!Absent.revision = 0 /\ Artifacts!Absent.data = None
    /\ Artifacts!Absent \in Version
BY DEF Artifacts!Absent, Version

LEMMA CreateKeeps ==
    ASSUME ArtifactInv, NEW c \in Call, NEW d \in Dataset \cup {None},
           NEW from \in SUBSET results, NEW wide \in BOOLEAN,
           Artifacts!Create(c, d, from, wide)
    PROVE  ArtifactInv'
<1>1. PICK a \in Artifacts!NewArtifact : Artifacts!Publish(c, a, 1, d, from, wide)
  BY DEF Artifacts!Create
<1>2. a \in Artifact /\ stored[a] = Artifacts!Absent
  BY NewIsNew DEF Artifacts!NewArtifact
<1>3. 1 = stored[a].revision + 1
  BY <1>2, AbsentIs
<1>4. from \subseteq Result
  BY DEF ArtifactInv, ArtifactTypes
<1> QED
  BY <1>1, <1>2, <1>3, <1>4, PublishKeeps

LEMMA ReviseKeeps ==
    ASSUME ArtifactInv, NEW c \in Call, NEW a \in Artifact, NEW d, NEW from, NEW wide \in BOOLEAN,
           \/ d \in Dataset \cup {None} /\ from \subseteq results
           \/ d = stored[a].data /\ from = stored[a].lineage,
           Artifacts!Revise(c, a, d, from, wide)
    PROVE  ArtifactInv'
<1>1. stored[a] \in Version /\ results \subseteq Result
  BY DEF ArtifactInv, ArtifactTypes
<1>2. /\ stored[a].revision \in Nat /\ stored[a].data \in Dataset \cup {None}
      /\ stored[a].lineage \subseteq Result
  BY <1>1 DEF Version
<1>3. d \in Dataset \cup {None} /\ from \subseteq Result
  BY <1>1, <1>2
<1>4. <<a, stored[a].revision>> \in reads /\ (d = stored[a].data \/ from \subseteq results)
  BY DEF Artifacts!Revise, Artifacts!ReadCurrent, Artifacts!Materialized
<1>5. Artifacts!Publish(c, a, stored[a].revision + 1, d, from, wide)
  BY DEF Artifacts!Revise
<1>6. stored[a].revision + 1 \in Nat
  BY <1>2
<1> QED
  BY <1>3, <1>4, <1>5, <1>6, PublishKeeps

\* A delivery that ends.
LEMMA DiscardKeeps ==
    ASSUME ArtifactInv, NEW c \in Call, Artifacts!DiscardDelivery(c) PROVE ArtifactInv'
<1>1. turn = "running" /\ ArtifactTypes /\ RunInv /\ Distinct
  BY DEF ArtifactInv, RunInv, Artifacts!DiscardDelivery
<1>2. /\ pending' = [pending EXCEPT ![c] = Artifacts!Nothing]
      /\ UNCHANGED <<stored, tables, turn, turns, published, reads, results>>
  BY DEF Artifacts!DiscardDelivery
<1>3. ArtifactTypes'
  BY <1>1, <1>2 DEF ArtifactTypes, Staging
<1>4. /\ Artifacts!Staged("result")' \subseteq Artifacts!Staged("result")
      /\ Artifacts!Staged("publish")' \subseteq Artifacts!Staged("publish")
  <2>1. Artifacts!Staged("result")' = Artifacts!Staged("result") \ {pending[c]}
    BY <1>1, <1>2, StagedShrinks
  <2>2. Artifacts!Staged("publish")' = Artifacts!Staged("publish") \ {pending[c]}
    BY <1>1, <1>2, StagedShrinks
  <2> QED
    BY <2>1, <2>2
<1>5. RoomKept'
  <2>1. Cardinality(Artifacts!Staged("result")') <= Cardinality(Artifacts!Staged("result"))
    BY <1>1, <1>4, FiniteStaged, FS_Subset
  <2>2. /\ Cardinality(results) \in Nat /\ Cardinality(Artifacts!Staged("result")) \in Nat
    BY <1>1, FiniteStaged, FS_CardinalityType DEF ArtifactTypes
  <2>3. IsFiniteSet(Artifacts!Staged("result")')
    BY <1>1, <1>4, FiniteStaged, FS_Subset
  <2>4. Cardinality(Artifacts!Staged("result")') \in Nat
    BY <2>3, FS_CardinalityType
  <2> QED
    BY <1>2, <2>1, <2>2, <2>4, ArtifactsAssumption DEF ArtifactInv, RoomKept
<1>6. /\ Artifacts!Publications' \subseteq Artifacts!Publications
      /\ Artifacts!Delivered' = Artifacts!Delivered
  BY <1>2, <1>4 DEF Artifacts!Publications, Artifacts!Delivered
<1>7. Distinct'
  <2>1. /\ pending'[c] = Artifacts!Nothing /\ Artifacts!Nothing.kind = "none"
        /\ \A d \in Call \ {c} : pending'[d] = pending[d]
    BY <1>1, <1>2 DEF ArtifactTypes, Artifacts!Nothing
  <2> QED
    BY <1>1, <1>2, <1>6, <2>1 DEF Distinct, Ids
<1>8. Bounded'
  <2>1. /\ Ids(Artifacts!Publications)' \subseteq Ids(Artifacts!Publications)
        /\ Ids(Artifacts!Delivered)' = Ids(Artifacts!Delivered)
    BY <1>6 DEF Ids
  <2>2. /\ Cardinality(Ids(Artifacts!Publications)') <= Cardinality(Ids(Artifacts!Publications))
        /\ IsFiniteSet(Ids(Artifacts!Publications)')
    BY <1>1, <2>1, FiniteIds, FS_Subset
  <2>3. /\ Cardinality(Ids(Artifacts!Publications)') \in Nat
        /\ Cardinality(Ids(Artifacts!Publications)) \in Nat
    BY <1>1, <2>2, FiniteIds, FS_CardinalityType
  <2>4. Cardinality(Ids(Artifacts!Publications)') <= MaxPublished
    BY <1>1, <2>2, <2>3, ArtifactsAssumption DEF RunInv, Bounded
  <2> QED
    BY <1>1, <1>2, <2>1, <2>4 DEF RunInv, Bounded
<1>9. \A p \in Artifacts!Publications' : Fits(p)'
  BY <1>1, <1>2, <1>6, FitsFrame DEF RunInv
<1>10. Artifacts!RowsAreNamed'
  BY <1>2, StoredFrame
<1> QED
  BY <1>1, <1>2, <1>3, <1>5, <1>7, <1>8, <1>9, <1>10 DEF ArtifactInv, RunInv

LEMMA DeliverResultKeeps ==
    ASSUME ArtifactInv, NEW c \in Call, Artifacts!CommitDelivery(c), pending[c].kind = "result"
    PROVE  ArtifactInv'
<1> DEFINE p == pending[c]
<1>1. turn = "running" /\ ArtifactTypes /\ RunInv /\ Distinct
  BY DEF ArtifactInv, RunInv, Artifacts!CommitDelivery
<1>2. /\ pending' = [pending EXCEPT ![c] = Artifacts!Nothing]
      /\ results' = results \cup {p.result}
      /\ UNCHANGED <<stored, tables, turn, turns, published, reads>>
  BY DEF Artifacts!CommitDelivery
<1>3. p.kind = "result" /\ p.result \in Result /\ p.result \notin results
  BY <1>1, StagingFields DEF ArtifactTypes, Distinct
<1>4. IsFiniteSet(results) /\ IsFiniteSet(results')
      /\ Cardinality(results') = Cardinality(results) + 1
  <2>1. IsFiniteSet(results)
    BY <1>1 DEF ArtifactTypes
  <2>2. /\ IsFiniteSet(results \cup {p.result})
        /\ Cardinality(results \cup {p.result}) = Cardinality(results) + 1
    BY <2>1, <1>3, FS_AddElement
  <2> QED
    BY <2>1, <2>2, <1>2
<1>5. ArtifactTypes'
  BY <1>1, <1>2, <1>3, <1>4 DEF ArtifactTypes, Staging
<1>6. /\ Artifacts!Staged("result")' = Artifacts!Staged("result") \ {p}
      /\ Artifacts!Staged("publish")' = Artifacts!Staged("publish")
  <2>1. Artifacts!Staged("result")' = Artifacts!Staged("result") \ {pending[c]}
    BY <1>1, <1>2, StagedShrinks
  <2>2. Artifacts!Staged("publish")' = Artifacts!Staged("publish") \ {pending[c]}
    BY <1>1, <1>2, StagedShrinks
  <2>3. pending[c] \notin Artifacts!Staged("publish")
    BY <1>3 DEF Artifacts!Staged
  <2> QED
    BY <2>1, <2>2, <2>3
<1>7. RoomKept'
  <2>1. p \in Artifacts!Staged("result")
    BY <1>3 DEF Artifacts!Staged
  <2>2. Cardinality(Artifacts!Staged("result") \ {p}) = Cardinality(Artifacts!Staged("result")) - 1
    BY <1>1, <2>1, FiniteStaged, FS_RemoveElement
  <2>3. /\ Cardinality(results) \in Nat /\ Cardinality(Artifacts!Staged("result")) \in Nat
    BY <1>1, FiniteStaged, FS_CardinalityType DEF ArtifactTypes
  <2>4. Cardinality(Artifacts!Staged("result")') = Cardinality(Artifacts!Staged("result")) - 1
    BY <1>6, <2>2
  <2>5. Cardinality(results) + Cardinality(Artifacts!Staged("result")) <= MaxResults
    BY DEF ArtifactInv, RoomKept
  <2>6. Cardinality(results') + Cardinality(Artifacts!Staged("result")') <= MaxResults
    BY <1>4, <2>3, <2>4, <2>5, ArtifactsAssumption
  <2> QED
    BY <2>6 DEF RoomKept
<1>8. /\ Artifacts!Publications' = Artifacts!Publications
      /\ Artifacts!Delivered' = Artifacts!Delivered
  BY <1>2, <1>6 DEF Artifacts!Publications, Artifacts!Delivered
<1>9. Distinct'
  <2>1. /\ pending'[c] = Artifacts!Nothing /\ Artifacts!Nothing.kind = "none"
        /\ \A d \in Call \ {c} : pending'[d] = pending[d]
    BY <1>1, <1>2 DEF ArtifactTypes, Artifacts!Nothing
  <2>2. \A d \in Call \ {c} : pending[d].kind = "result" => pending[d].result \notin results'
    BY <1>1, <1>2, <1>3 DEF Distinct
  <2> QED
    BY <1>1, <1>2, <1>8, <2>1, <2>2 DEF Distinct, Ids
<1>10. Bounded'
  BY <1>1, <1>2, <1>8 DEF RunInv, Bounded, Ids
<1>11. \A q \in Artifacts!Publications' : Fits(q)'
  BY <1>1, <1>2, <1>8, FitsFrame DEF RunInv
<1>12. Artifacts!RowsAreNamed'
  BY <1>2, StoredFrame
<1> QED
  BY <1>1, <1>2, <1>5, <1>7, <1>9, <1>10, <1>11, <1>12 DEF ArtifactInv, RunInv

\* What is staged of the other kinds is not what a delivery takes away.
LEMMA DeliverReadKeeps ==
    ASSUME ArtifactInv, NEW c \in Call, Artifacts!CommitDelivery(c), pending[c].kind = "read"
    PROVE  ArtifactInv'
<1> DEFINE p == pending[c]
<1>1. turn = "running" /\ ArtifactTypes /\ RunInv /\ Distinct
  BY DEF ArtifactInv, RunInv, Artifacts!CommitDelivery
<1>2. /\ pending' = [pending EXCEPT ![c] = Artifacts!Nothing]
      /\ reads \subseteq reads'
      /\ UNCHANGED <<stored, tables, turn, turns, published, results>>
  BY DEF Artifacts!CommitDelivery
<1>3. ArtifactTypes'
  BY <1>1, <1>2 DEF ArtifactTypes, Staging
<1>4. /\ Artifacts!Staged("result")' = Artifacts!Staged("result")
      /\ Artifacts!Staged("publish")' = Artifacts!Staged("publish")
  <2>1. Artifacts!Staged("result")' = Artifacts!Staged("result") \ {pending[c]}
    BY <1>1, <1>2, StagedShrinks
  <2>2. Artifacts!Staged("publish")' = Artifacts!Staged("publish") \ {pending[c]}
    BY <1>1, <1>2, StagedShrinks
  <2>3. pending[c] \notin Artifacts!Staged("publish") /\ pending[c] \notin Artifacts!Staged("result")
    BY DEF Artifacts!Staged
  <2> QED
    BY <2>1, <2>2, <2>3
<1>5. RoomKept'
  BY <1>2, <1>4 DEF ArtifactInv, RoomKept
<1>6. /\ Artifacts!Publications' = Artifacts!Publications
      /\ Artifacts!Delivered' = Artifacts!Delivered
  BY <1>2, <1>4 DEF Artifacts!Publications, Artifacts!Delivered
<1>7. Distinct'
  <2>1. /\ pending'[c] = Artifacts!Nothing /\ Artifacts!Nothing.kind = "none"
        /\ \A d \in Call \ {c} : pending'[d] = pending[d]
    BY <1>1, <1>2 DEF ArtifactTypes, Artifacts!Nothing
  <2> QED
    BY <1>1, <1>2, <1>6, <2>1 DEF Distinct, Ids
<1>8. Bounded'
  BY <1>1, <1>2, <1>6 DEF RunInv, Bounded, Ids
<1>9. \A q \in Artifacts!Publications' : Fits(q)'
  BY <1>1, <1>2, <1>6, FitsFrame DEF RunInv
<1>10. Artifacts!RowsAreNamed'
  BY <1>2, StoredFrame
<1> QED
  BY <1>1, <1>2, <1>3, <1>5, <1>7, <1>8, <1>9, <1>10 DEF ArtifactInv, RunInv

LEMMA DeliverPublicationKeeps ==
    ASSUME ArtifactInv, NEW c \in Call, Artifacts!CommitDelivery(c), pending[c].kind = "publish"
    PROVE  ArtifactInv'
<1> DEFINE p == pending[c]
<1>1. turn = "running" /\ ArtifactTypes /\ RunInv /\ Distinct
  BY DEF ArtifactInv, RunInv, Artifacts!CommitDelivery
<1>2. /\ pending' = [pending EXCEPT ![c] = Artifacts!Nothing]
      /\ published' = Append(published, p)
      /\ UNCHANGED <<stored, tables, turn, turns, reads, results>>
  BY DEF Artifacts!CommitDelivery
<1>3. p \in Publication /\ p.kind = "publish" /\ p.artifact \notin Ids(Artifacts!Delivered)
      /\ p \in Artifacts!Staged("publish")
  BY <1>1, StagingFields DEF ArtifactTypes, Distinct, Artifacts!Staged
<1> HIDE DEF p
<1>4. published \in Seq(Publication)
  BY <1>1 DEF ArtifactTypes
<1>5. /\ Len(published') = Len(published) + 1
      /\ \A i \in 1 .. Len(published) : published'[i] = published[i]
      /\ published'[Len(published) + 1] = p
      /\ published' \in Seq(Publication)
      /\ DOMAIN published = 1 .. Len(published) /\ DOMAIN published' = 1 .. Len(published) + 1
      /\ Len(published) \in Nat
  BY <1>2, <1>3, <1>4
<1>6. Artifacts!Delivered' = Artifacts!Delivered \cup {p}
  <2>1. ASSUME NEW q PROVE q \in Artifacts!Delivered' <=> q \in Artifacts!Delivered \/ q = p
    <3>1. q \in Artifacts!Delivered' <=> \E i \in 1 .. Len(published) + 1 : q = published'[i]
      BY <1>5 DEF Artifacts!Delivered
    <3>2. q \in Artifacts!Delivered <=> \E i \in 1 .. Len(published) : q = published[i]
      BY <1>5 DEF Artifacts!Delivered
    <3>3. \A i \in 1 .. Len(published) + 1 : i \in 1 .. Len(published) \/ i = Len(published) + 1
      BY <1>5
    <3>4. Len(published) + 1 \in 1 .. Len(published) + 1
          /\ \A i \in 1 .. Len(published) : i \in 1 .. Len(published) + 1
      BY <1>5
    <3> QED
      BY <1>5, <3>1, <3>2, <3>3, <3>4
  <2> QED
    BY <2>1
<1>7. ArtifactTypes'
  <2>1. pending' \in [Call -> Staging]
    BY <1>1, <1>2 DEF ArtifactTypes, Staging
  <2> QED
    BY <1>1, <1>2, <1>5, <2>1 DEF ArtifactTypes
<1>8. /\ Artifacts!Staged("result")' = Artifacts!Staged("result")
      /\ Artifacts!Staged("publish")' = Artifacts!Staged("publish") \ {p}
  <2>1. Artifacts!Staged("result")' = Artifacts!Staged("result") \ {pending[c]}
    BY <1>1, <1>2, StagedShrinks
  <2>2. Artifacts!Staged("publish")' = Artifacts!Staged("publish") \ {pending[c]}
    BY <1>1, <1>2, StagedShrinks
  <2>3. pending[c] \notin Artifacts!Staged("result")
    BY DEF Artifacts!Staged
  <2> QED
    BY <2>1, <2>2, <2>3 DEF p
<1>9. RoomKept'
  BY <1>2, <1>8 DEF ArtifactInv, RoomKept
<1>10. Artifacts!Publications' = Artifacts!Publications
  BY <1>3, <1>6, <1>8 DEF Artifacts!Publications
<1>11. Ids(Artifacts!Delivered)' = Ids(Artifacts!Delivered) \cup {p.artifact}
  BY <1>6 DEF Ids
<1>12. Distinct'
  <2>1. /\ pending'[c] = Artifacts!Nothing /\ Artifacts!Nothing.kind = "none"
        /\ \A d \in Call \ {c} : pending'[d] = pending[d]
    BY <1>1, <1>2 DEF ArtifactTypes, Artifacts!Nothing
  <2>2. \A d \in Call \ {c} : pending[d].kind = "publish" => pending[d].artifact # p.artifact
    BY <1>1 DEF Distinct, p
  <2>3. \A i \in 1 .. Len(published) : published[i].artifact # p.artifact
    BY <1>3, <1>5 DEF Ids, Artifacts!Delivered
  <2>4. ASSUME NEW i \in DOMAIN published', NEW j \in DOMAIN published',
               published'[i].artifact = published'[j].artifact
        PROVE  i = j
    <3>1. (i \in 1 .. Len(published) \/ i = Len(published) + 1)
          /\ (j \in 1 .. Len(published) \/ j = Len(published) + 1)
      BY <1>5, <2>4
    <3> QED
      BY <1>1, <1>5, <2>3, <2>4, <3>1 DEF Distinct
  <2>5. \A d \in Call : pending'[d].kind = "publish" =>
          pending'[d].artifact \notin Ids(Artifacts!Delivered)'
    BY <1>1, <1>11, <2>1, <2>2 DEF Distinct
  <2> QED
    BY <1>1, <1>2, <2>1, <2>4, <2>5 DEF Distinct
<1>13. Bounded'
  <2>1. Cardinality(Ids(Artifacts!Delivered) \cup {p.artifact})
          = Cardinality(Ids(Artifacts!Delivered)) + 1
    BY <1>1, <1>3, FiniteIds, FS_AddElement
  <2>2. Ids(Artifacts!Publications)' = Ids(Artifacts!Publications)
    BY <1>10 DEF Ids
  <2> QED
    BY <1>1, <1>5, <1>11, <2>1, <2>2 DEF RunInv, Bounded
<1>14. \A q \in Artifacts!Publications' : Fits(q)'
  BY <1>1, <1>2, <1>10, FitsFrame DEF RunInv
<1>15. Artifacts!RowsAreNamed'
  BY <1>2, StoredFrame
<1> QED
  BY <1>1, <1>2, <1>7, <1>9, <1>12, <1>13, <1>14, <1>15 DEF ArtifactInv, RunInv

\* The turn begins and ends.
LEMMA EmptyRoom ==
    ASSUME \A c \in Call : pending[c] = Artifacts!Nothing, NEW what, what # "none"
    PROVE  Artifacts!Staged(what) = {}
<1>1. Artifacts!Nothing.kind = "none"
  BY DEF Artifacts!Nothing
<1> QED
  BY <1>1 DEF Artifacts!Staged

LEMMA BeginKeeps ==
    ASSUME ArtifactInv, Artifacts!Begin PROVE ArtifactInv'
<1>1. /\ turn' = "running" /\ pending' = [c \in Call |-> Artifacts!Nothing]
      /\ published' = <<>> /\ reads' = {} /\ results' = {} /\ UNCHANGED <<stored, tables>>
  BY DEF Artifacts!Begin
<1>2. \A c \in Call : pending'[c] = Artifacts!Nothing /\ pending'[c].kind = "none"
  BY <1>1 DEF Artifacts!Nothing
<1>3. ArtifactTypes'
  BY <1>1, FS_EmptySet DEF ArtifactInv, ArtifactTypes, Staging
<1>4. Artifacts!Staged("result")' = {} /\ Artifacts!Staged("publish")' = {}
  BY <1>2 DEF Artifacts!Staged
<1>5. Cardinality({}) = 0
  BY FS_EmptySet
<1>6. RoomKept'
  <2>1. Cardinality(results') = 0 /\ Cardinality(Artifacts!Staged("result")') = 0
    BY <1>1, <1>4, <1>5
  <2>2. Cardinality(results') + Cardinality(Artifacts!Staged("result")') <= MaxResults
    BY <2>1, ArtifactsAssumption
  <2> QED
    BY <2>2 DEF RoomKept
<1>7. Artifacts!Delivered' = {} /\ Artifacts!Publications' = {}
  BY <1>1, <1>4 DEF Artifacts!Delivered, Artifacts!Publications
<1>8. Distinct'
  BY <1>1, <1>2 DEF Distinct
<1>9. Bounded'
  <2>1. Ids(Artifacts!Publications)' = {} /\ Ids(Artifacts!Delivered)' = {}
    BY <1>7 DEF Ids
  <2> QED
    BY <1>1, <1>5, <2>1, ArtifactsAssumption DEF Bounded
<1>10. Artifacts!RowsAreNamed'
  BY <1>1, StoredFrame
<1> QED
  BY <1>1, <1>3, <1>6, <1>7, <1>8, <1>9, <1>10 DEF ArtifactInv, RunInv

LEMMA FailKeeps ==
    ASSUME ArtifactInv, Artifacts!Fail PROVE ArtifactInv'
<1>1. /\ turn' = "failed" /\ pending' = [c \in Call |-> Artifacts!Nothing]
      /\ UNCHANGED <<stored, tables, published, reads, results>>
  BY DEF Artifacts!Fail
<1>2. \A c \in Call : pending'[c] = Artifacts!Nothing /\ pending'[c].kind = "none"
  BY <1>1 DEF Artifacts!Nothing
<1>3. ArtifactTypes'
  BY <1>1 DEF ArtifactInv, ArtifactTypes, Staging
<1>4. Artifacts!Staged("result")' = {}
  BY <1>2 DEF Artifacts!Staged
<1>5. RoomKept'
  <2>1. Cardinality(Artifacts!Staged("result")') = 0
    BY <1>4, FS_EmptySet
  <2>2. /\ Cardinality(results) \in Nat /\ Cardinality(Artifacts!Staged("result")) \in Nat
    BY FiniteStaged, FS_CardinalityType DEF ArtifactInv, ArtifactTypes
  <2>3. Cardinality(results) + Cardinality(Artifacts!Staged("result")) <= MaxResults
    BY DEF ArtifactInv, RoomKept
  <2>4. Cardinality(results') + Cardinality(Artifacts!Staged("result")') <= MaxResults
    BY <1>1, <2>1, <2>2, <2>3, ArtifactsAssumption
  <2> QED
    BY <2>4 DEF RoomKept
<1>6. Artifacts!RowsAreNamed'
  BY <1>1, StoredFrame
<1> QED
  BY <1>1, <1>3, <1>5, <1>6 DEF ArtifactInv

LEMMA DeleteChatKeeps ==
    ASSUME ArtifactInv, Artifacts!DeleteChat PROVE ArtifactInv'
<1>1. /\ stored' = [a \in Artifact |-> Artifacts!Absent]
      /\ tables' = {r \in tables : stored[r[2]] = Artifacts!Absent}
      /\ turn' = "none" /\ UNCHANGED <<pending, published, reads, results>>
  BY DEF Artifacts!DeleteChat, Artifacts!capture
<1>2. ArtifactTypes'
  BY <1>1, AbsentIs DEF ArtifactInv, ArtifactTypes
<1>3. RoomKept'
  BY <1>1 DEF ArtifactInv, RoomKept, Artifacts!Staged
<1>4. Artifacts!RowsAreNamed'
  <2>1. \A r \in tables : stored[r[2]].data # None
    BY DEF ArtifactInv, Artifacts!RowsAreNamed
  <2>2. tables' = {}
    BY <1>1, <2>1, AbsentIs
  <2>3. \A a \in Artifact : stored'[a].data = None
    BY <1>1, AbsentIs
  <2> QED
    BY <2>2, <2>3 DEF Artifacts!RowsAreNamed, Artifacts!Readable
<1> QED
  BY <1>1, <1>2, <1>3, <1>4 DEF ArtifactInv

\* The transaction of a turn that ends gets what it insists on: what the turn
\* delivered are different artifacts, not too many, each in its next revision.
LEMMA CompleteIsAccepted ==
    ASSUME ArtifactInv, Artifacts!Complete
    PROVE  /\ Artifacts!Acceptable /\ Artifacts!Publications = Artifacts!Delivered
           /\ RunInv
<1>1. turn = "running" /\ RunInv /\ ArtifactTypes /\ \A c \in Call : pending[c] = Artifacts!Nothing
  BY DEF ArtifactInv, Artifacts!Complete, Artifacts!Drained
<1>2. Artifacts!Staged("publish") = {}
  BY <1>1, EmptyRoom
<1>3. Artifacts!Publications = Artifacts!Delivered
  BY <1>2 DEF Artifacts!Publications
<1>4. Len(published) <= MaxPublished
  BY <1>1, <1>3 DEF RunInv, Bounded
<1>5. \A i, j \in DOMAIN published : published[i].artifact = published[j].artifact => i = j
  BY <1>1 DEF RunInv, Distinct
<1>6. \A i \in DOMAIN published :
        published[i].revision = stored[published[i].artifact].revision + 1
  BY <1>1, <1>3 DEF RunInv, Fits, Artifacts!Delivered
<1> QED
  BY <1>1, <1>3, <1>4, <1>5, <1>6 DEF Artifacts!Acceptable

\* What is stored of an artifact that was delivered, and of one that was not.
LEMMA CompleteStores ==
    ASSUME ArtifactInv, Artifacts!Complete
    PROVE  /\ turn' = "stored" /\ UNCHANGED <<pending, published, reads, results>>
           /\ DOMAIN stored' = Artifact
           /\ \A p \in Artifacts!Delivered :
                stored'[p.artifact] = [revision |-> p.revision, data |-> p.data,
                                       lineage |-> p.lineage, wide |-> p.wide]
           /\ \A a \in Artifact : a \notin Ids(Artifacts!Delivered) => stored'[a] = stored[a]
           /\ tables' = Artifacts!RowsReplaced(tables, Artifacts!Delivered)
<1>1. Artifacts!Acceptable /\ RunInv /\ ArtifactTypes
  BY CompleteIsAccepted DEF ArtifactInv
<1>2. /\ stored' = [a \in Artifact |->
           IF \E p \in Artifacts!Delivered : p.artifact = a
           THEN LET p == CHOOSE p \in Artifacts!Delivered : p.artifact = a
                IN  [revision |-> p.revision, data |-> p.data,
                     lineage |-> p.lineage, wide |-> p.wide]
           ELSE stored[a]]
      /\ turn' = "stored" /\ UNCHANGED <<pending, published, reads, results>>
      /\ tables' = Artifacts!RowsReplaced(tables, Artifacts!Delivered)
  BY <1>1 DEF Artifacts!Complete, Artifacts!capture
<1>3. ASSUME NEW p \in Artifacts!Delivered, NEW q \in Artifacts!Delivered, p.artifact = q.artifact
      PROVE  p = q
  BY <1>1, <1>3 DEF RunInv, Distinct, Artifacts!Delivered
<1>4. ASSUME NEW p \in Artifacts!Delivered
      PROVE  stored'[p.artifact] = [revision |-> p.revision, data |-> p.data,
                                    lineage |-> p.lineage, wide |-> p.wide]
  <2>1. p.artifact \in Artifact
    BY <1>1, <1>4, DeliveredAre, PublicationFields
  <2>2. (CHOOSE q \in Artifacts!Delivered : q.artifact = p.artifact) = p
    <3> DEFINE q == CHOOSE q \in Artifacts!Delivered : q.artifact = p.artifact
    <3>1. q \in Artifacts!Delivered /\ q.artifact = p.artifact
      BY <1>4
    <3> QED
      BY <1>3, <3>1, <1>4
  <2> QED
    BY <1>2, <1>4, <2>1, <2>2
<1>5. ASSUME NEW a \in Artifact, a \notin Ids(Artifacts!Delivered) PROVE stored'[a] = stored[a]
  BY <1>2, <1>5 DEF Ids
<1> QED
  BY <1>2, <1>4, <1>5

LEMMA StoredFields ==
    ASSUME ArtifactInv, Artifacts!Complete, NEW p \in Artifacts!Delivered
    PROVE  /\ p.artifact \in Artifact /\ stored'[p.artifact] \in Version
           /\ stored'[p.artifact].data = p.data /\ stored'[p.artifact].wide = p.wide
           /\ stored'[p.artifact].lineage = p.lineage
<1> DEFINE v == [revision |-> p.revision, data |-> p.data,
                 lineage |-> p.lineage, wide |-> p.wide]
<1>1. stored'[p.artifact] = v
  BY CompleteStores
<1>2. p \in Publication
  BY DeliveredAre DEF ArtifactInv
<1>3. p.artifact \in Artifact /\ v \in Version
  BY <1>2, PublicationFields
<1>4. v.data = p.data /\ v.wide = p.wide /\ v.lineage = p.lineage
  OBVIOUS
<1> HIDE DEF v
<1> QED
  BY <1>1, <1>3, <1>4

\* The rows that are kept after the transaction are those that the charts name.
LEMMA RowsFollow ==
    ASSUME ArtifactInv, Artifacts!Complete
    PROVE  tables' = {<<stored'[a].data, a>> : a \in {b \in Artifact : stored'[b].data # None}}
<1> DEFINE Put == Artifacts!Delivered
           Named == {<<stored'[a].data, a>> : a \in {b \in Artifact : stored'[b].data # None}}
<1>1. /\ \A p \in Put : p.artifact \in Artifact /\ stored'[p.artifact].data = p.data
      /\ \A a \in Artifact : a \notin Ids(Put) => stored'[a] = stored[a]
  BY CompleteStores, StoredFields
<1>2. \A a \in Artifact : a \in Ids(Put) <=> \E p \in Put : p.artifact = a
  BY DEF Ids
<1>3. tables = {<<stored[a].data, a>> : a \in {b \in Artifact : stored[b].data # None}}
  BY DEF ArtifactInv, Artifacts!RowsAreNamed
<1>4. tables' = {r \in tables : \A p \in Put : r[2] # p.artifact}
                  \cup {<<p.data, p.artifact>> : p \in {q \in Put : q.data # None}}
  BY CompleteStores DEF Artifacts!RowsReplaced
<1> HIDE DEF Put
<1>5. ASSUME NEW r \in tables' PROVE r \in Named
  <2>1. CASE r \in tables /\ \A p \in Put : r[2] # p.artifact
    <3>1. PICK a \in Artifact : stored[a].data # None /\ r = <<stored[a].data, a>>
      BY <1>3, <2>1
    <3>2. r[2] = a
      BY <3>1
    <3>3. stored'[a] = stored[a]
      BY <1>1, <1>2, <2>1, <3>2
    <3> QED
      BY <3>1, <3>3
  <2>2. CASE r \in {<<p.data, p.artifact>> : p \in {q \in Put : q.data # None}}
    <3>1. PICK p \in Put : p.data # None /\ r = <<p.data, p.artifact>>
      BY <2>2
    <3> QED
      BY <1>1, <3>1
  <2> QED
    BY <1>4, <1>5, <2>1, <2>2
<1>6. ASSUME NEW r \in Named PROVE r \in tables'
  <2>1. PICK a \in Artifact : stored'[a].data # None /\ r = <<stored'[a].data, a>>
    OBVIOUS
  <2>2. CASE a \in Ids(Put)
    <3>1. PICK p \in Put : p.artifact = a
      BY <1>2, <2>2
    <3>2. p.data # None /\ r = <<p.data, p.artifact>>
      BY <1>1, <2>1, <3>1
    <3>3. r \in {<<q.data, q.artifact>> : q \in {s \in Put : s.data # None}}
      BY <3>2
    <3> QED
      BY <1>4, <3>3
  <2>3. CASE a \notin Ids(Put)
    <3>1. stored'[a] = stored[a]
      BY <1>1, <2>3
    <3>2. r \in tables /\ r[2] = a
      BY <1>3, <2>1, <3>1
    <3>3. \A p \in Put : r[2] # p.artifact
      BY <1>2, <2>3, <3>2
    <3> QED
      BY <1>4, <3>2, <3>3
  <2> QED
    BY <2>2, <2>3
<1> QED
  BY <1>5, <1>6

LEMMA CompleteKeeps ==
    ASSUME ArtifactInv, Artifacts!Complete PROVE ArtifactInv'
<1>1. /\ turn' = "stored" /\ UNCHANGED <<pending, published, reads, results>>
      /\ DOMAIN stored' = Artifact
      /\ \A a \in Artifact : a \notin Ids(Artifacts!Delivered) => stored'[a] = stored[a]
  BY CompleteStores
<1>2. /\ Artifacts!Publications = Artifacts!Delivered /\ RunInv /\ ArtifactTypes
      /\ Artifacts!RowsAreNamed
  BY CompleteIsAccepted DEF ArtifactInv
<1>3. \A a \in Artifact : a \in Ids(Artifacts!Delivered) <=>
        \E p \in Artifacts!Delivered : p.artifact = a
  BY DEF Ids
<1>5. ArtifactTypes'
  <2>1. ASSUME NEW a \in Artifact PROVE stored'[a] \in Version
    <3>1. CASE a \in Ids(Artifacts!Delivered)
      BY <1>3, <3>1, StoredFields
    <3>2. CASE a \notin Ids(Artifacts!Delivered)
      BY <1>1, <1>2, <3>2 DEF ArtifactTypes
    <3> QED
      BY <3>1, <3>2
  <2>2. \E f : stored' = [a \in Artifact |-> f[a]]
    <3>1. Artifacts!Acceptable
      BY CompleteIsAccepted
    <3> QED
      BY <3>1 DEF Artifacts!Complete
  <2>3. stored' \in [Artifact -> Version]
    BY <2>1, <2>2
  <2> QED
    BY <1>1, <1>2, <2>3 DEF ArtifactTypes
<1>6. RoomKept'
  BY <1>1 DEF ArtifactInv, RoomKept, Artifacts!Staged
<1>7. Artifacts!RowsAreNamed'
  <2>1. ASSUME NEW a \in Artifact, stored'[a].data # None
        PROVE  /\ <<stored'[a].data, a>> \in tables'
               /\ ~(stored'[a].wide /\ stored'[a].data \in Narrow)
    <3>1. <<stored'[a].data, a>> \in tables'
      BY RowsFollow, <2>1
    <3>2. CASE a \in Ids(Artifacts!Delivered)
      <4>1. PICK p \in Artifacts!Delivered : p.artifact = a
        BY <1>3, <3>2
      <4>2. stored'[a].data = p.data /\ stored'[a].wide = p.wide
        BY <4>1, StoredFields
      <4>3. Artifacts!Renders(p.data, p.wide)
        BY <1>2 DEF RunInv, Fits
      <4> QED
        BY <2>1, <3>1, <4>2, <4>3 DEF Artifacts!Renders
    <3>3. CASE a \notin Ids(Artifacts!Delivered)
      BY <1>1, <1>2, <2>1, <3>1, <3>3 DEF Artifacts!RowsAreNamed, Artifacts!Readable
    <3> QED
      BY <3>2, <3>3
  <2>2. \A a \in Artifact : Artifacts!Readable(a)'
    BY <2>1 DEF Artifacts!Readable
  <2> QED
    BY <2>2, RowsFollow DEF Artifacts!RowsAreNamed
<1> QED
  BY <1>1, <1>5, <1>6, <1>7 DEF ArtifactInv

LEMMA CompleteBuilds ==
    ASSUME ArtifactInv, Artifacts!Complete PROVE Artifacts!BuildsOnDelivered
<1>1. \A a \in Artifact : a \notin Ids(Artifacts!Delivered) => stored'[a] = stored[a]
  BY CompleteStores
<1>2. Artifacts!Publications = Artifacts!Delivered /\ RunInv /\ ArtifactTypes
  BY CompleteIsAccepted DEF ArtifactInv
<1> SUFFICES ASSUME NEW a \in Artifact, stored'[a].revision > stored[a].revision
             PROVE  /\ stored[a] = Artifacts!Absent \/ <<a, stored[a].revision>> \in reads
                    /\ stored'[a].data = stored[a].data \/ stored'[a].lineage \subseteq results
  BY DEF Artifacts!BuildsOnDelivered
<1>3. stored[a].revision \in Nat
  BY <1>2 DEF ArtifactTypes, Version
<1>4. a \in Ids(Artifacts!Delivered)
  BY <1>1, <1>3
<1>5. PICK p \in Artifacts!Delivered : p.artifact = a
  BY <1>4 DEF Ids
<1>6. Fits(p)
  BY <1>2 DEF RunInv
<1>7. stored'[a].data = p.data /\ stored'[a].lineage = p.lineage
  BY <1>5, StoredFields
<1> QED
  BY <1>5, <1>6, <1>7 DEF Fits

\* Each step of the turns keeps the invariant, and only the transaction changes
\* what is stored, but for the deletion, which makes no revision.
LEMMA ArtifactStep ==
    ASSUME ArtifactInv, Artifacts!ArtifactsNext
    PROVE  ArtifactInv' /\ Artifacts!BuildsOnDelivered
<1>1. ASSUME UNCHANGED stored PROVE Artifacts!BuildsOnDelivered
  <2>1. \A a \in Artifact : stored[a].revision \in Nat /\ stored'[a] = stored[a]
    BY <1>1 DEF ArtifactInv, ArtifactTypes, Version
  <2>2. \A a \in Artifact : ~(stored'[a].revision > stored[a].revision)
    BY <2>1
  <2> QED
    BY <2>2 DEF Artifacts!BuildsOnDelivered
<1>2. CASE Artifacts!Begin
  BY <1>1, <1>2, BeginKeeps DEF Artifacts!Begin
<1>3. CASE Artifacts!Complete
  BY <1>3, CompleteKeeps, CompleteBuilds
<1>4. CASE Artifacts!Fail
  BY <1>1, <1>4, FailKeeps DEF Artifacts!Fail
<1>5. CASE Artifacts!DeleteChat
  <2>1. \A a \in Artifact : stored[a].revision \in Nat /\ stored'[a].revision = 0
    BY <1>5, AbsentIs DEF ArtifactInv, ArtifactTypes, Version, Artifacts!DeleteChat
  <2>2. \A a \in Artifact : ~(stored'[a].revision > stored[a].revision)
    BY <2>1
  <2> QED
    BY <1>5, <2>2, DeleteChatKeeps DEF Artifacts!BuildsOnDelivered
<1>6. ASSUME NEW c \in Call, Artifacts!CommitDelivery(c)
      PROVE  ArtifactInv' /\ Artifacts!BuildsOnDelivered
  <2>1. pending[c] \in Staging /\ pending[c] # Artifacts!Nothing
    BY <1>6 DEF ArtifactInv, ArtifactTypes, Artifacts!CommitDelivery
  <2>2. pending[c].kind \in {"publish", "read", "result"}
    BY <2>1, StagingFields
  <2>3. UNCHANGED stored
    BY <1>6 DEF Artifacts!CommitDelivery
  <2> QED
    BY <1>1, <1>6, <2>2, <2>3, DeliverResultKeeps, DeliverReadKeeps, DeliverPublicationKeeps
<1>7. ASSUME NEW c \in Call, Artifacts!DiscardDelivery(c)
      PROVE  ArtifactInv' /\ Artifacts!BuildsOnDelivered
  BY <1>1, <1>7, DiscardKeeps DEF Artifacts!DiscardDelivery
<1>8. ASSUME NEW c \in Call, Artifacts!StageResult(c)
      PROVE  ArtifactInv' /\ Artifacts!BuildsOnDelivered
  BY <1>1, <1>8, StageResultKeeps DEF Artifacts!StageResult, Artifacts!Stage
<1>9. ASSUME NEW c \in Call, NEW a \in Artifact, Artifacts!ArtifactRead(c, a)
      PROVE  ArtifactInv' /\ Artifacts!BuildsOnDelivered
  BY <1>1, <1>9, ReadKeeps DEF Artifacts!ArtifactRead, Artifacts!Stage
<1>10. ASSUME NEW c \in Call, NEW d \in Dataset \cup {None}, NEW from \in SUBSET results,
              NEW wide \in BOOLEAN, Artifacts!Create(c, d, from, wide)
       PROVE  ArtifactInv' /\ Artifacts!BuildsOnDelivered
  <2>1. UNCHANGED stored
    BY <1>10 DEF Artifacts!Create, Artifacts!Publish, Artifacts!Stage
  <2> QED
    BY <1>1, <1>10, <2>1, CreateKeeps
<1>11. ASSUME NEW c \in Call, NEW a \in Artifact, NEW d, NEW from, NEW wide \in BOOLEAN,
              \/ d \in Dataset \cup {None} /\ from \in SUBSET results
              \/ d = stored[a].data /\ from = stored[a].lineage,
              Artifacts!Revise(c, a, d, from, wide)
       PROVE  ArtifactInv' /\ Artifacts!BuildsOnDelivered
  <2>1. UNCHANGED stored
    BY <1>11 DEF Artifacts!Revise, Artifacts!Publish, Artifacts!Stage
  <2> QED
    BY <1>1, <1>11, <2>1, ReviseKeeps
<1>12. \/ Artifacts!Begin \/ Artifacts!Complete \/ Artifacts!Fail \/ Artifacts!DeleteChat
       \/ \E c \in Call :
           \/ Artifacts!CommitDelivery(c) \/ Artifacts!DiscardDelivery(c)
           \/ Artifacts!StageResult(c)
           \/ \E a \in Artifact : Artifacts!ArtifactRead(c, a)
           \/ \E wide \in BOOLEAN :
               \/ \E d \in Dataset \cup {None}, from \in SUBSET results :
                   \/ Artifacts!Create(c, d, from, wide)
                   \/ \E a \in Artifact : Artifacts!Revise(c, a, d, from, wide)
               \/ \E a \in Artifact :
                   Artifacts!Revise(c, a, stored[a].data, stored[a].lineage, wide)
  BY DEF Artifacts!ArtifactsNext
<1> QED
  BY <1>2, <1>3, <1>4, <1>5, <1>6, <1>7, <1>8, <1>9, <1>10, <1>11, <1>12

LEMMA ArtifactBegins ==
    ASSUME Artifacts!ArtifactsInit PROVE ArtifactInv
<1>1. /\ stored = [a \in Artifact |-> Artifacts!Absent] /\ tables = {} /\ turn = "none"
      /\ pending = [c \in Call |-> Artifacts!Nothing]
      /\ published = <<>> /\ results = {}
  BY DEF Artifacts!ArtifactsInit
<1>2. ArtifactTypes
  BY <1>1, AbsentIs, FS_EmptySet DEF ArtifactTypes, Staging
<1>3. Artifacts!RowsAreNamed
  BY <1>1, AbsentIs DEF Artifacts!RowsAreNamed, Artifacts!Readable
<1>4. RoomKept
  <2>1. Artifacts!Staged("result") = {}
    BY <1>1, EmptyRoom
  <2>2. Cardinality(results) = 0 /\ Cardinality(Artifacts!Staged("result")) = 0
    BY <1>1, <2>1, FS_EmptySet
  <2>3. Cardinality(results) + Cardinality(Artifacts!Staged("result")) <= MaxResults
    BY <2>2, ArtifactsAssumption
  <2> QED
    BY <2>3 DEF RoomKept
<1> QED
  BY <1>1, <1>2, <1>3, <1>4 DEF ArtifactInv

LEMMA ArtifactFrame ==
    ASSUME ArtifactInv, UNCHANGED artifacts PROVE ArtifactInv'
<1>1. UNCHANGED <<stored, tables, turn, turns, pending, published, reads, results>>
  BY DEF artifacts
<1>2. /\ Artifacts!Staged("result")' = Artifacts!Staged("result")
      /\ Artifacts!Publications' = Artifacts!Publications
      /\ Artifacts!Delivered' = Artifacts!Delivered
  BY <1>1 DEF Artifacts!Publications, Artifacts!Delivered, Artifacts!Staged
<1>3. ArtifactTypes' /\ RoomKept'
  BY <1>1, <1>2 DEF ArtifactInv, ArtifactTypes, RoomKept
<1>4. Artifacts!RowsAreNamed'
  BY <1>1, StoredFrame
<1>5. ASSUME RunInv PROVE RunInv'
  <2>1. Distinct' /\ Bounded'
    BY <1>1, <1>2, <1>5 DEF RunInv, Distinct, Bounded, Ids
  <2> QED
    BY <1>1, <1>2, <1>5, <2>1, FitsFrame DEF RunInv
<1> QED
  BY <1>1, <1>3, <1>4, <1>5 DEF ArtifactInv

\* In every reachable state the rows are those that the charts name and what is
\* staged has its room.
LEMMA ArtifactInvariance == PrivateSpec => []ArtifactInv
<1>1. PrivateInit => ArtifactInv
  BY ArtifactBegins DEF PrivateInit
<1>2. ArtifactInv /\ [PrivateNext]_private => ArtifactInv'
  BY ArtifactStep, ArtifactFrame DEF PrivateNext, private
<1> QED
  BY <1>1, <1>2, PTL DEF PrivateSpec

\* Artifacts are stored whole or the turn that made them did not complete: the
\* transaction of a turn never refuses what its calls were let to stage
\* (tool_executor/artifacts.rs, store.rs), whatever they overlap with and
\* whichever of them are delivered; the registry has room for all of it, rows
\* are exactly those of the charts, and a revision is made by who had read the
\* one before and from results that it had.
THEOREM ArtifactsHold == PrivateSpec => ArtifactsSettle
<1> DEFINE Settled ==
      turn' # "refused" /\ Artifacts!RegistryFits' /\ Artifacts!RowsAreNamed'
        /\ Artifacts!BuildsOnDelivered
<1>1. ArtifactInv /\ ArtifactInv' /\ [PrivateNext]_private => [Settled]_artifacts
  <2> SUFFICES ASSUME ArtifactInv, ArtifactInv', [PrivateNext]_private, artifacts' # artifacts
               PROVE  Settled
    OBVIOUS
  <2>1. Artifacts!ArtifactsNext
    BY DEF PrivateNext, private
  <2>2. Artifacts!BuildsOnDelivered
    BY <2>1, ArtifactStep
  <2>3. turn' # "refused" /\ Artifacts!RowsAreNamed' /\ RoomKept'
    BY DEF ArtifactInv
  <2>4. Artifacts!RegistryFits'
    BY <2>3, SameCardinality DEF RoomKept, Artifacts!RegistryFits
  <2> QED
    BY <2>2, <2>3, <2>4
<1>2. [][Settled]_artifacts => ArtifactsSettle
  <2>1. [Settled]_artifacts => [Settled]_(Artifacts!artifacts)
    BY DEF artifacts, Artifacts!artifacts, Artifacts!capture
  <2> QED
    BY <2>1, PTL DEF ArtifactsSettle, Artifacts!ArtifactsSettle
<1> QED
  BY ArtifactInvariance, <1>1, <1>2, PTL DEF PrivateSpec

\* What follows the deletion is a behaviour of the deletion.
LEMMA DeletionIsDeletion == PrivateSpec => Spec
<1>1. PrivateInit => Init
  BY DEF PrivateInit
<1>2. [PrivateNext]_private => [Next]_vars
  BY DEF PrivateNext, private, deletion
<1> QED
  BY <1>1, <1>2, PTL DEF PrivateSpec, Spec

\* So each theorem about the deletion holds of it beside the rest of what a Guru
\* and its Chats own (guru.rs, deletion.rs), up to the same lapses: no behaviour
\* of the whole destroys what exists, moves what a run uses, revives what was
\* deleted or starts with a journal unresolved, and its artifacts settle.
THEOREM OwnedDataHolds ==
    PrivateSpec =>
      /\ []ExistingIsWhole /\ []MovesAlone /\ []DeletedStaysGone
      /\ StartResolves /\ ArtifactsSettle
BY DeletionIsDeletion, Wholeness, RunsStayOut, Gone, StartsResolve, ArtifactsHold
=============================================================================
