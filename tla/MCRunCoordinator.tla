-------------------------- MODULE MCRunCoordinator --------------------------
EXTENDS RunCoordinator, TLC
CONSTANTS c1, c2, c3, t1, t2

\* Each caller has an id of its own, except that the renderer may start a
\* Chat under the id of c2's run.  c3 uses another thread than the others, so
\* that two Chats of one Guru can meet either at the slot or at the thread.
Targeting(c, t) == {s \in Request : s.id = c /\ s.target \in {t, c, PendingRecovery}}
Asked ==
    c1 :> Targeting(c1, t1) @@ c2 :> Targeting(c2, t1)
      @@ c3 :> (Targeting(c3, t2) \cup {s \in Targeting(c2, t2) : s.kind = "chat"})
=============================================================================
