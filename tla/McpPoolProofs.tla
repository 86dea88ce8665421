---------------------------- MODULE McpPoolProofs ----------------------------
(***************************************************************************)
(* Proofs about McpPool, for any number of processes, turns, keys and      *)
(* calls: the tools that a turn's agent is shown are those of its turn.    *)
(***************************************************************************)
EXTENDS McpPool, FiniteSetTheorems, SequenceTheorems, TLAPS
-----------------------------------------------------------------------------
\* A handler owns the process that it has not published yet, and holds the lock
\* of the one that it calls.
Owning  == {"prepare", "prepared", "install", "occupied"}
Holding == {"check", "list", "wait", "back"}

\* A process and a call are records of these fields.
ProcTypes ==
    /\ DOMAIN proc = Proc
    /\ \A p \in Proc : DOMAIN proc[p] = {"at", "key", "up", "tools", "view", "changed", "note",
                                         "late", "list", "answer", "phase"}
CallTypes ==
    /\ DOMAIN task = Handler
    /\ \A h \in Handler :
         /\ DOMAIN task[h] = {"pc", "turn", "op", "proc", "again", "pooled", "post"}
         /\ task[h].proc \in Proc \cup {None}
HostTypes ==
    /\ idle \in Seq(Proc) /\ auth \in [Turn -> Key]
    /\ slot \in [Turn -> Proc \cup {None}] /\ drain \in [Turn -> Proc \cup {None}]
    /\ turn \in [Turn -> {"new", "open", "draining", "over"}]
    /\ guard \in [Proc -> Handler \cup {Nobody}]
Types == ProcTypes /\ CallTypes /\ HostTypes

\* What a call knows of its process.
Served(h) ==
    LET c == task[h].pc  p == task[h].proc IN
    /\ c # "free" => task[h].turn \in Turn
    /\ c \in Owning \cup Holding \cup {"lock", "unpublish", "unpublish_end", "release"} => p # None
    /\ c \in Owning => proc[p].at = By(h) /\ proc[p].key = auth[task[h].turn]
    /\ c = "prepared" /\ proc[p].list = "got" => proc[p].answer = proc[p].tools
    /\ c \in {"install", "occupied"} =>
         proc[p].tools = {} /\ proc[p].view = {} /\ proc[p].list = "no"
    /\ c \in Holding => guard[p] = h /\ Full(task[h].turn, p)

\* The lock of a cell is its holder's.
Guarded(p) ==
    guard[p] # Nobody => task[guard[p]].proc = p /\ task[guard[p]].pc \in Holding

\* A turn's process has what this turn activated, and so has what it last
\* listed; what the host has missed, the process has said or a list will tell.
Listing(p) == guard[p] # Nobody /\ task[guard[p]].pc = "list"
Isolated(p) ==
    /\ proc[p].at = Unused => proc[p].tools = {} /\ proc[p].view = {} /\ proc[p].list = "no"
    /\ \A t \in Turn : Full(t, p) =>
         /\ proc[p].key = auth[t] /\ proc[p].tools \cup proc[p].view \subseteq {t}
         /\ proc[p].list = "got" => proc[p].answer \subseteq {t}
Told(p) == proc[p].changed \/ proc[p].note
Current(p) ==
    (\E t \in Turn : Full(t, p)) /\ proc[p].up /\ p \notin dropped =>
        IF Listing(p)
        THEN proc[p].list = "got" => proc[p].tools = proc[p].answer \/ Told(p)
        ELSE proc[p].tools = proc[p].view \/ Told(p)

\* The pool holds idle processes, each once.
Pooled ==
    /\ \A i \in DOMAIN idle : proc[idle[i]].at = Idle
    /\ \A i, j \in DOMAIN idle : idle[i] = idle[j] => i = j

PoolInv ==
    /\ Types /\ Pooled
    /\ \A h \in Handler : Served(h)
    /\ \A p \in Proc : Guarded(p) /\ Isolated(p) /\ Current(p)
-----------------------------------------------------------------------------
\* Where a process may be are different places.
LEMMA PlacesApart ==
    /\ \A t, u : In(t) = In(u) => t = u
    /\ \A g, h : By(g) = By(h) => g = h
    /\ \A t, h : In(t) # By(h)
    /\ \A t : In(t) \notin {Quarantine, Unused, Idle, Gone}
    /\ \A h : By(h) \notin {Quarantine, Unused, Idle, Gone}
    /\ Quarantine \notin {Unused, Idle, Gone} /\ Unused \notin {Idle, Gone} /\ Idle # Gone
BY DEF In, By, Quarantine, Unused, Idle, Gone

LEMMA Nobodies == Nobody \notin Handler /\ Nobody \notin Turn
BY DEF Nobody, Handler, Turn

\* A locked cell is full.
LEMMA Locked ==
    ASSUME PoolInv, NEW p \in Proc, guard[p] # Nobody
    PROVE  /\ guard[p] \in Handler /\ task[guard[p]].proc = p
           /\ \E t \in Turn : proc[p].at = In(t)
<1>1. guard[p] \in Handler
  BY DEF PoolInv, Types, HostTypes
<1> QED
  BY <1>1 DEF PoolInv, Served, Guarded, Full, Holding

\* The pool stays as it is while an idle process stays idle.
LEMMA PooledKept ==
    ASSUME PoolInv, idle' = idle, \A q \in Proc : proc[q].at = Idle => proc'[q].at = Idle
    PROVE  Pooled'
<1>1. \A i \in DOMAIN idle : idle[i] \in Proc
  BY DEF PoolInv, Types, HostTypes
<1> QED
  BY <1>1 DEF PoolInv, Pooled

\* A step of a call changes its own process and leaves the others as they are.
LEMMA CallFrame ==
    ASSUME PoolInv, Types', Pooled', auth' = auth, NEW h \in Handler, NEW p \in Proc,
           \A g \in Handler : g # h => task'[g] = task[g] /\ proc[p].at # By(g),
           \A q \in Proc : q # p =>
               /\ proc'[q] = proc[q] /\ guard'[q] = guard[q] /\ guard[q] # h
               /\ q \in dropped' <=> q \in dropped,
           guard[p] \in {Nobody, h},
           Served(h)', Guarded(p)', Isolated(p)', Current(p)'
    PROVE  PoolInv'
<1>1. ASSUME NEW g \in Handler, g # h PROVE Served(g)'
  <2>1. Served(g) /\ task'[g] = task[g] /\ task[g].proc \in Proc \cup {None}
    BY <1>1 DEF PoolInv, Types, CallTypes
  <2>2. CASE task[g].proc = p
    <3>1. task[g].pc \notin Owning \cup Holding
      BY <1>1, <2>1, <2>2, Nobodies DEF Served
    <3> QED
      BY <2>1, <2>2, <3>1 DEF Served, Owning
  <2>3. CASE task[g].proc \in Proc /\ task[g].proc # p
    BY <2>1, <2>3 DEF Served, Full
  <2>4. CASE task[g].proc \notin Proc
    BY <2>1, <2>4 DEF Served, Owning, Holding
  <2> QED
    BY <2>2, <2>3, <2>4
<1>2. ASSUME NEW q \in Proc, q # p PROVE Guarded(q)' /\ Isolated(q)' /\ Current(q)'
  <2>1. Guarded(q) /\ Isolated(q) /\ Current(q) /\ guard[q] \in Handler \cup {Nobody}
    BY DEF PoolInv, Types, HostTypes
  <2>2. proc'[q] = proc[q] /\ guard'[q] = guard[q] /\ (q \in dropped' <=> q \in dropped)
    BY <1>2
  <2>3. guard[q] # Nobody => task'[guard[q]] = task[guard[q]]
    BY <1>2, <2>1
  <2> QED
    BY <2>1, <2>2, <2>3 DEF Guarded, Isolated, Current, Listing, Told, Full
<1> QED
  BY <1>1, <1>2 DEF PoolInv

\* All of a process that the invariant speaks of is as it was.
Alike(q) ==
    /\ proc'[q].at = proc[q].at /\ proc'[q].key = proc[q].key
    /\ proc'[q].tools = proc[q].tools /\ proc'[q].view = proc[q].view
    /\ proc'[q].changed = proc[q].changed /\ proc'[q].note = proc[q].note
    /\ proc'[q].list = proc[q].list /\ proc'[q].answer = proc[q].answer
    /\ proc'[q].up = proc[q].up

\* A step of a call that is none of a process.
LEMMA SilentFrame ==
    ASSUME PoolInv, Types', UNCHANGED <<idle, auth, guard, dropped>>, NEW h \in Handler,
           \A q \in Proc : Alike(q),
           \A g \in Handler : g # h => task'[g] = task[g],
           \A q \in Proc : guard[q] # h, Served(h)'
    PROVE  PoolInv'
<1> USE DEF Alike
<1>1. ASSUME NEW g \in Handler, g # h PROVE Served(g)'
  <2>1. Served(g) /\ task'[g] = task[g] /\ task[g].proc \in Proc \cup {None}
    BY <1>1 DEF PoolInv, Types, CallTypes
  <2>2. CASE task[g].proc \in Proc
    BY <2>1, <2>2 DEF Served, Full
  <2>3. CASE task[g].proc \notin Proc
    BY <2>1, <2>3 DEF Served, Owning, Holding
  <2> QED
    BY <2>2, <2>3
<1>2. ASSUME NEW q \in Proc PROVE Guarded(q)' /\ Isolated(q)' /\ Current(q)'
  <2>1. guard[q] # Nobody => task'[guard[q]] = task[guard[q]]
    BY DEF PoolInv, Types, HostTypes
  <2> QED
    BY <2>1 DEF PoolInv, Guarded, Isolated, Current, Listing, Told, Full
<1>3. Pooled'
  BY PooledKept
<1> QED
  BY <1>1, <1>2, <1>3 DEF PoolInv

\* A step of a process, or one that the host takes with it.
LEMMA ProcFrame ==
    ASSUME PoolInv, Types', Pooled', UNCHANGED <<auth, guard, dropped, task>>, NEW p \in Proc,
           \A q \in Proc : q # p => proc'[q] = proc[q],
           \A g \in Handler : task[g].proc = p => Served(g)',
           Isolated(p)', Current(p)'
    PROVE  PoolInv'
<1>1. ASSUME NEW g \in Handler, task[g].proc # p PROVE Served(g)'
  <2>1. Served(g) /\ task[g].proc \in Proc \cup {None}
    BY <1>1 DEF PoolInv, Types, CallTypes
  <2> QED
    BY <1>1, <2>1 DEF Served, Full, Owning, Holding
<1>2. ASSUME NEW q \in Proc, q # p PROVE Isolated(q)' /\ Current(q)'
  BY <1>2 DEF PoolInv, Isolated, Current, Listing, Told, Full
<1>3. ASSUME NEW q \in Proc PROVE Guarded(q)'
  BY <1>3 DEF PoolInv, Guarded
<1> QED
  BY <1>1, <1>2, <1>3 DEF PoolInv
-----------------------------------------------------------------------------
LEMMA GetStep ==
    ASSUME PoolInv, NEW h \in Handler, Get(h)
    PROVE  PoolInv'
<1> USE NoProcess, Nobodies DEF Get, NotConnected, Done, Rest, ended
<1>1. ProcTypes' /\ HostTypes'
  BY DEF PoolInv, Types, ProcTypes, HostTypes
<1>2. CallTypes'
  BY DEF PoolInv, Types, CallTypes, HostTypes
<1>3. \A q \in Proc : guard[q] # h
  BY DEF PoolInv, Guarded, Holding
<1>4. Served(h)'
  BY <1>2 DEF PoolInv, Types, CallTypes, HostTypes, Served, Owning, Holding
<1>5. \A g \in Handler : g # h => task'[g] = task[g]
  BY DEF PoolInv, Types, CallTypes
<1> QED
  BY <1>1, <1>2, <1>3, <1>4, <1>5, SilentFrame DEF Alike, Types

LEMMA UnpublishStep ==
    ASSUME PoolInv, NEW h \in Handler, Unpublish(h)
    PROVE  PoolInv'
<1> USE NoProcess, Nobodies DEF Unpublish, NotConnected, Done, Rest, ended
<1>1. ProcTypes' /\ HostTypes'
  BY DEF PoolInv, Types, ProcTypes, HostTypes
<1>2. CallTypes'
  BY DEF PoolInv, Types, CallTypes, HostTypes
<1>3. \A q \in Proc : guard[q] # h
  BY DEF PoolInv, Guarded, Holding
<1>4. Served(h)'
  BY <1>2 DEF PoolInv, Types, CallTypes, HostTypes, Served, Owning, Holding
<1>5. \A g \in Handler : g # h => task'[g] = task[g]
  BY DEF PoolInv, Types, CallTypes
<1> QED
  BY <1>1, <1>2, <1>3, <1>4, <1>5, SilentFrame DEF Alike, Types

LEMMA ReleasedStep ==
    ASSUME PoolInv, NEW h \in Handler, Released(h)
    PROVE  PoolInv'
<1> USE NoProcess, Nobodies DEF Released, Done, Rest, ended
<1>1. ProcTypes' /\ HostTypes'
  BY DEF PoolInv, Types, ProcTypes, HostTypes
<1>2. CallTypes'
  BY DEF PoolInv, Types, CallTypes, HostTypes
<1>3. \A q \in Proc : guard[q] # h
  BY DEF PoolInv, Guarded, Holding
<1>4. Served(h)'
  BY <1>2 DEF PoolInv, Types, CallTypes, HostTypes, Served, Owning, Holding
<1>5. \A g \in Handler : g # h => task'[g] = task[g]
  BY DEF PoolInv, Types, CallTypes
<1> QED
  BY <1>1, <1>2, <1>3, <1>4, <1>5, SilentFrame DEF Alike, Types

LEMMA BeginStep ==
    ASSUME PoolInv, NEW h \in Handler, NEW t \in Turn, Begin(h, t)
    PROVE  PoolInv'
<1> USE NoProcess, Nobodies DEF Begin, Rest, ended
<1>1. ProcTypes' /\ HostTypes'
  BY DEF PoolInv, Types, ProcTypes, HostTypes
<1>2. CallTypes'
  BY DEF PoolInv, Types, CallTypes, HostTypes
<1>3. \A q \in Proc : guard[q] # h
  BY DEF PoolInv, Guarded, Holding
<1>4. Served(h)'
  BY <1>2 DEF PoolInv, Types, CallTypes, HostTypes, Served, Owning, Holding
<1>5. \A g \in Handler : g # h => task'[g] = task[g]
  BY DEF PoolInv, Types, CallTypes
<1> QED
  BY <1>1, <1>2, <1>3, <1>4, <1>5, SilentFrame DEF Alike, Types

\* The cell is emptied, its process discarded.
LEMMA TakeStep ==
    ASSUME PoolInv, NEW h \in Handler, NEW to \in {"unpublish", "unpublish_end"},
           task[h].pc \in Holding, Take(h, to), UNCHANGED <<idle, auth, slot, ended, dropped>>
    PROVE  PoolInv'
<1> USE NoProcess, Nobodies DEF Take, Discard, Unlock, Go, ended
<1>1. PICK p \in Proc : p = task[h].proc
  BY DEF PoolInv, Types, CallTypes, Served, Holding
<1>2. guard[p] = h /\ task[h].turn \in Turn /\ Full(task[h].turn, p)
  BY <1>1 DEF PoolInv, Served, Holding
<1>3. proc' = [proc EXCEPT ![p].at = Gone, ![p].up = FALSE, ![p].list = "no"]
  BY <1>1
<1>4. ProcTypes' /\ proc'[p].at = Gone /\ \A q \in Proc : q # p => proc'[q] = proc[q]
  BY <1>3 DEF PoolInv, Types, ProcTypes
<1>5. CallTypes'
  BY <1>1 DEF PoolInv, Types, CallTypes
<1>6. HostTypes'
  BY <1>1 DEF PoolInv, Types, HostTypes
<1>7. /\ \A g \in Handler : g # h => task'[g] = task[g] /\ proc[p].at # By(g)
      /\ \A q \in Proc : q # p => guard'[q] = guard[q] /\ guard[q] # h
      /\ proc[p].at # Idle
  BY <1>1, <1>2, PlacesApart DEF PoolInv, Guarded, Full, Types, CallTypes, HostTypes
<1>8. Served(h)'
  BY <1>1, <1>2 DEF PoolInv, Types, CallTypes, Served, Owning, Holding
<1>9. Guarded(p)' /\ Isolated(p)' /\ Current(p)'
  <2>1. guard'[p] = Nobody
    BY <1>1 DEF PoolInv, Types, HostTypes
  <2> QED
    BY <1>4, <2>1, PlacesApart DEF Guarded, Isolated, Current, Full
<1>10. Pooled'
  BY <1>4, <1>7, PooledKept
<1> QED
  BY <1>2, <1>4, <1>5, <1>6, <1>7, <1>8, <1>9, <1>10, CallFrame DEF Types

LEMMA CheckStep ==
    ASSUME PoolInv, NEW h \in Handler, Check(h)
    PROVE  PoolInv'
<1> USE NoProcess, Nobodies
<1>1. PICK p \in Proc : p = task[h].proc
  BY DEF PoolInv, Types, CallTypes, Served, Holding, Check
<1>2. /\ task[h].pc = "check" /\ guard[p] = h /\ task[h].turn \in Turn /\ Full(task[h].turn, p)
      /\ Isolated(p) /\ Current(p)
  BY <1>1 DEF PoolInv, Served, Holding, Check
<1>3. CASE Take(h, "unpublish") \/ Take(h, "unpublish_end")
  BY <1>2, <1>3, TakeStep DEF Check, Holding
<1>4. ASSUME \/ /\ proc[p].up /\ Go(h, "list") /\ UNCHANGED guard
                /\ proc' = [proc EXCEPT ![p].changed = FALSE, ![p].list = "sent"]
             \/ proc[p].up /\ ~proc[p].changed /\ UNCHANGED proc /\ GoOn(h, proc[p].view)
      PROVE  PoolInv'
  <2>0. UNCHANGED <<idle, auth, slot, turn, drain, dropped>>
    BY DEF Check, ended
  <2> USE <2>0, <1>1, <1>2, <1>4 DEF Unlock, GoOn, Done, Rest, Go, ended
  <2>1. ProcTypes' /\ \A q \in Proc : q # p => proc'[q] = proc[q]
    BY DEF PoolInv, Types, ProcTypes
  <2>2. CallTypes' /\ HostTypes'
    BY DEF PoolInv, Types, CallTypes, HostTypes
  <2>3. /\ \A g \in Handler : g # h => task'[g] = task[g] /\ proc[p].at # By(g)
        /\ \A q \in Proc : q # p => guard'[q] = guard[q] /\ guard[q] # h
        /\ proc[p].at # Idle
    BY PlacesApart DEF PoolInv, Guarded, Full, Types, CallTypes, HostTypes
  <2>4. /\ proc'[p].at = proc[p].at /\ proc'[p].key = proc[p].key
        /\ guard'[p] \in {h, Nobody}
    BY DEF PoolInv, Types, ProcTypes, HostTypes
  <2>5. \/ task'[h].pc = "free" /\ task'[h].proc = None /\ guard'[p] = Nobody
        \/ /\ task'[h].pc \in Holding /\ task'[h].proc = p
           /\ task'[h].turn = task[h].turn /\ guard'[p] = h
    BY DEF PoolInv, Types, CallTypes, HostTypes, Holding
  <2>6. Served(h)' /\ Guarded(p)'
    BY <2>4, <2>5 DEF Served, Guarded, Owning, Holding, Full
  <2>7. Isolated(p)'
    <3>1. /\ proc'[p].tools = proc[p].tools /\ proc'[p].view = proc[p].view
          /\ proc'[p].list = "got" => proc[p].list = "got" /\ proc'[p].answer = proc[p].answer
      BY DEF PoolInv, Types, ProcTypes
    <3>2. auth' = auth /\ \E t \in Turn : proc[p].at = In(t)
      BY DEF Full
    <3>3. \A t, u : In(t) = In(u) => t = u
      BY PlacesApart
    <3>4. \A t : In(t) # Unused
      BY PlacesApart
    <3> QED
      BY ONLY <1>2, <2>4, <3>1, <3>2, <3>3, <3>4 DEF Isolated, Full
  <2>8. Current(p)'
    BY <2>4, PlacesApart DEF PoolInv, Types, CallTypes, ProcTypes, HostTypes, Current,
       Listing, Told, Full
  <2>9. Pooled'
    BY <2>1, <2>3, <2>4, PooledKept
  <2> QED
    BY <2>1, <2>2, <2>3, <2>6, <2>7, <2>8, <2>9, CallFrame DEF Types
<1> QED
  BY <1>1, <1>3, <1>4 DEF Check

LEMMA ListedStep ==
    ASSUME PoolInv, NEW h \in Handler, Listed(h)
    PROVE  PoolInv'
<1> USE NoProcess, Nobodies
<1>1. PICK p \in Proc : p = task[h].proc
  BY DEF PoolInv, Types, CallTypes, Served, Holding, Listed
<1>2. /\ task[h].pc = "list" /\ guard[p] = h /\ task[h].turn \in Turn /\ Full(task[h].turn, p)
      /\ Isolated(p) /\ Current(p)
  BY <1>1 DEF PoolInv, Served, Holding, Listed
<1>3. CASE Take(h, "unpublish") \/ Take(h, "unpublish_end")
  BY <1>2, <1>3, TakeStep DEF Listed, Holding
<1>4. ASSUME /\ proc[p].list = "got"
             /\ proc' = [proc EXCEPT ![p].view = proc[p].answer, ![p].list = "no"]
             /\ GoOn(h, proc[p].answer)
      PROVE  PoolInv'
  <2>0. UNCHANGED <<idle, auth, slot, turn, drain, dropped>>
    BY DEF Listed, ended
  <2> USE <2>0, <1>1, <1>2, <1>4 DEF Unlock, GoOn, Done, Rest, Go, ended
  <2>1. ProcTypes' /\ \A q \in Proc : q # p => proc'[q] = proc[q]
    BY DEF PoolInv, Types, ProcTypes
  <2>2. CallTypes' /\ HostTypes'
    BY DEF PoolInv, Types, CallTypes, HostTypes
  <2>3. /\ \A g \in Handler : g # h => task'[g] = task[g] /\ proc[p].at # By(g)
        /\ \A q \in Proc : q # p => guard'[q] = guard[q] /\ guard[q] # h
        /\ proc[p].at # Idle
    BY PlacesApart DEF PoolInv, Guarded, Full, Types, CallTypes, HostTypes
  <2>4. /\ proc'[p].at = proc[p].at /\ proc'[p].key = proc[p].key
        /\ guard'[p] \in {h, Nobody}
    BY DEF PoolInv, Types, ProcTypes, HostTypes
  <2>5. \/ task'[h].pc = "free" /\ task'[h].proc = None /\ guard'[p] = Nobody
        \/ /\ task'[h].pc \in Holding /\ task'[h].proc = p
           /\ task'[h].turn = task[h].turn /\ guard'[p] = h
    BY DEF PoolInv, Types, CallTypes, HostTypes, Holding
  <2>6. Served(h)' /\ Guarded(p)'
    BY <2>4, <2>5 DEF Served, Guarded, Owning, Holding, Full
  <2>7. Isolated(p)'
    <3>1. /\ proc'[p].tools = proc[p].tools /\ proc'[p].view = proc[p].answer
          /\ proc'[p].list = "got" => FALSE
      BY DEF PoolInv, Types, ProcTypes
    <3>2. auth' = auth /\ \E t \in Turn : proc[p].at = In(t)
      BY DEF Full
    <3>3. \A t, u : In(t) = In(u) => t = u
      BY PlacesApart
    <3>4. \A t : In(t) # Unused
      BY PlacesApart
    <3> QED
      BY ONLY <1>2, <1>4, <2>4, <3>1, <3>2, <3>3, <3>4 DEF Isolated, Full
  <2>8. Current(p)'
    BY <2>4, PlacesApart DEF PoolInv, Types, CallTypes, ProcTypes, HostTypes, Current,
       Listing, Told, Full
  <2>9. Pooled'
    BY <2>1, <2>3, <2>4, PooledKept
  <2> QED
    BY <2>1, <2>2, <2>3, <2>6, <2>7, <2>8, <2>9, CallFrame DEF Types
<1> QED
  BY <1>1, <1>3, <1>4 DEF Listed, ListFails

LEMMA BackStep ==
    ASSUME PoolInv, NEW h \in Handler, Back(h)
    PROVE  PoolInv'
<1> USE NoProcess, Nobodies
<1>1. PICK p \in Proc : p = task[h].proc
  BY DEF PoolInv, Types, CallTypes, Served, Holding, Back
<1>2. /\ task[h].pc = "back" /\ guard[p] = h /\ task[h].turn \in Turn /\ Full(task[h].turn, p)
      /\ Isolated(p) /\ Current(p)
  BY <1>1 DEF PoolInv, Served, Holding, Back
<1>3. CASE Take(h, "unpublish") \/ Take(h, "unpublish_end")
  BY <1>2, <1>3, TakeStep DEF Back, Holding
<1>4. ASSUME \/ Done(h) /\ Unlock(p) /\ UNCHANGED proc
             \/ /\ proc' = [proc EXCEPT ![p].changed = FALSE, ![p].list = "sent"]
                /\ task' = [task EXCEPT ![h].pc = "list", ![h].post = TRUE]
                /\ UNCHANGED guard
      PROVE  PoolInv'
  <2>0. UNCHANGED <<idle, auth, slot, turn, drain, dropped>>
    BY DEF Back, ended
  <2> USE <2>0, <1>1, <1>2, <1>4 DEF Unlock, Done, Rest, Go, ended
  <2>1. ProcTypes' /\ \A q \in Proc : q # p => proc'[q] = proc[q]
    BY DEF PoolInv, Types, ProcTypes
  <2>2. CallTypes' /\ HostTypes'
    BY DEF PoolInv, Types, CallTypes, HostTypes
  <2>3. /\ \A g \in Handler : g # h => task'[g] = task[g] /\ proc[p].at # By(g)
        /\ \A q \in Proc : q # p => guard'[q] = guard[q] /\ guard[q] # h
        /\ proc[p].at # Idle
    BY PlacesApart DEF PoolInv, Guarded, Full, Types, CallTypes, HostTypes
  <2>4. /\ proc'[p].at = proc[p].at /\ proc'[p].key = proc[p].key
        /\ guard'[p] \in {h, Nobody}
    BY DEF PoolInv, Types, ProcTypes, HostTypes
  <2>5. \/ task'[h].pc = "free" /\ task'[h].proc = None /\ guard'[p] = Nobody
        \/ /\ task'[h].pc \in Holding /\ task'[h].proc = p
           /\ task'[h].turn = task[h].turn /\ guard'[p] = h
    BY DEF PoolInv, Types, CallTypes, HostTypes, Holding
  <2>6. Served(h)' /\ Guarded(p)'
    BY <2>4, <2>5 DEF Served, Guarded, Owning, Holding, Full
  <2>7. Isolated(p)'
    BY <2>4, PlacesApart DEF PoolInv, Types, ProcTypes, Isolated, Full
  <2>8. Current(p)'
    BY <2>4, PlacesApart DEF PoolInv, Types, CallTypes, ProcTypes, HostTypes, Current,
       Listing, Told, Full
  <2>9. Pooled'
    BY <2>1, <2>3, <2>4, PooledKept
  <2> QED
    BY <2>1, <2>2, <2>3, <2>6, <2>7, <2>8, <2>9, CallFrame DEF Types
<1> QED
  BY <1>1, <1>3, <1>4 DEF Back

LEMMA CallFailsStep ==
    ASSUME PoolInv, NEW h \in Handler, CallFails(h)
    PROVE  PoolInv'
<1> USE NoProcess, Nobodies
<1>1. PICK p \in Proc : p = task[h].proc
  BY DEF PoolInv, Types, CallTypes, Served, Holding, CallFails
<1>2. /\ task[h].pc = "wait" /\ guard[p] = h /\ task[h].turn \in Turn /\ Full(task[h].turn, p)
      /\ Isolated(p) /\ Current(p)
  BY <1>1 DEF PoolInv, Served, Holding, CallFails
<1>3. CASE Take(h, "unpublish") \/ Take(h, "unpublish_end")
  BY <1>2, <1>3, TakeStep DEF CallFails, Holding
<1>4. ASSUME /\ Done(h) /\ Unlock(p)
             /\ proc' = [proc EXCEPT ![p].late = IF task[h].op = "control"
                                                 THEN @ \cup {task[h].turn} ELSE @]
      PROVE  PoolInv'
  <2>0. UNCHANGED <<idle, auth, slot, turn, drain, dropped>>
    BY DEF CallFails, ended
  <2> USE <2>0, <1>1, <1>2, <1>4 DEF Unlock, Done, Rest, Go, ended
  <2>1. ProcTypes' /\ \A q \in Proc : q # p => proc'[q] = proc[q]
    BY DEF PoolInv, Types, ProcTypes
  <2>2. CallTypes' /\ HostTypes'
    BY DEF PoolInv, Types, CallTypes, HostTypes
  <2>3. /\ \A g \in Handler : g # h => task'[g] = task[g] /\ proc[p].at # By(g)
        /\ \A q \in Proc : q # p => guard'[q] = guard[q] /\ guard[q] # h
        /\ proc[p].at # Idle
    BY PlacesApart DEF PoolInv, Guarded, Full, Types, CallTypes, HostTypes
  <2>4. /\ proc'[p].at = proc[p].at /\ proc'[p].key = proc[p].key
        /\ guard'[p] \in {h, Nobody}
    BY DEF PoolInv, Types, ProcTypes, HostTypes
  <2>5. \/ task'[h].pc = "free" /\ task'[h].proc = None /\ guard'[p] = Nobody
        \/ /\ task'[h].pc \in Holding /\ task'[h].proc = p
           /\ task'[h].turn = task[h].turn /\ guard'[p] = h
    BY DEF PoolInv, Types, CallTypes, HostTypes, Holding
  <2>6. Served(h)' /\ Guarded(p)'
    BY <2>4, <2>5 DEF Served, Guarded, Owning, Holding, Full
  <2>7. Isolated(p)'
    BY <2>4, PlacesApart DEF PoolInv, Types, ProcTypes, Isolated, Full
  <2>8. Current(p)'
    BY <2>4, PlacesApart DEF PoolInv, Types, CallTypes, ProcTypes, HostTypes, Current,
       Listing, Told, Full
  <2>9. Pooled'
    BY <2>1, <2>3, <2>4, PooledKept
  <2> QED
    BY <2>1, <2>2, <2>3, <2>6, <2>7, <2>8, <2>9, CallFrame DEF Types
<1> QED
  BY <1>1, <1>3, <1>4 DEF CallFails

LEMMA ServeStep ==
    ASSUME PoolInv, NEW h \in Handler, Serve(h)
    PROVE  PoolInv'
<1> USE NoProcess, Nobodies
<1>1. PICK p \in Proc : p = task[h].proc
  BY DEF PoolInv, Types, CallTypes, Served, Holding, Serve
<1>2. /\ task[h].pc = "wait" /\ guard[p] = h /\ task[h].turn \in Turn /\ Full(task[h].turn, p)
      /\ Isolated(p) /\ Current(p)
  BY <1>1 DEF PoolInv, Served, Holding, Serve
<1>4. ASSUME \/ UNCHANGED proc
             \/ \E s \in {proc[p].tools \cup {task[h].turn}, {}} :
                  proc' = [proc EXCEPT ![p].tools = s, ![p].note = TRUE]
      PROVE  PoolInv'
  <2>0. UNCHANGED <<idle, auth, slot, turn, drain, dropped>>
    BY DEF Serve, ended
  <2> USE <2>0, <1>1, <1>2, <1>4 DEF Unlock, Go, ended
  <2>1. ProcTypes' /\ \A q \in Proc : q # p => proc'[q] = proc[q]
    BY DEF PoolInv, Types, ProcTypes
  <2>2. CallTypes' /\ HostTypes'
    BY DEF PoolInv, Types, CallTypes, HostTypes, Serve
  <2>3. /\ \A g \in Handler : g # h => task'[g] = task[g] /\ proc[p].at # By(g)
        /\ \A q \in Proc : q # p => guard'[q] = guard[q] /\ guard[q] # h
        /\ proc[p].at # Idle
    BY PlacesApart DEF PoolInv, Guarded, Full, Types, CallTypes, HostTypes, Serve
  <2>4. /\ proc'[p].at = proc[p].at /\ proc'[p].key = proc[p].key
        /\ guard'[p] \in {h, Nobody}
    BY DEF PoolInv, Types, ProcTypes, HostTypes, Serve
  <2>5. \/ task'[h].pc = "free" /\ task'[h].proc = None /\ guard'[p] = Nobody
        \/ /\ task'[h].pc \in Holding /\ task'[h].proc = p
           /\ task'[h].turn = task[h].turn /\ guard'[p] = h
    BY DEF PoolInv, Types, CallTypes, HostTypes, Holding, Serve
  <2>6. Served(h)' /\ Guarded(p)'
    BY <2>4, <2>5 DEF Served, Guarded, Owning, Holding, Full
  <2>7. Isolated(p)'
    BY <2>4, PlacesApart DEF PoolInv, Types, ProcTypes, Isolated, Full
  <2>8. Current(p)'
    BY <2>4, PlacesApart DEF PoolInv, Types, CallTypes, ProcTypes, HostTypes, Current,
       Listing, Told, Full, Serve
  <2>9. Pooled'
    BY <2>1, <2>3, <2>4, PooledKept
  <2> QED
    BY <2>1, <2>2, <2>3, <2>6, <2>7, <2>8, <2>9, CallFrame DEF Types
<1> QED
  BY <1>1, <1>4 DEF Serve

LEMMA LockStep ==
    ASSUME PoolInv, NEW h \in Handler, Lock(h)
    PROVE  PoolInv'
<1> USE NoProcess, Nobodies DEF Lock, Go, ended
<1>1. PICK p \in Proc : p = task[h].proc
  BY DEF PoolInv, Types, CallTypes, Served
<1>2. /\ task[h].pc = "lock" /\ guard[p] = Nobody /\ task[h].turn \in Turn
      /\ Isolated(p) /\ Current(p)
  BY <1>1 DEF PoolInv, Served
<1>3. ProcTypes' /\ CallTypes' /\ HostTypes'
  BY <1>1 DEF PoolInv, Types, ProcTypes, CallTypes, HostTypes
<1>4. /\ \A g \in Handler : g # h => task'[g] = task[g]
      /\ \A q \in Proc : guard[q] # h
      /\ \A q \in Proc : q # p => guard'[q] = guard[q]
  BY <1>1, <1>2 DEF PoolInv, Guarded, Holding, Types, CallTypes, HostTypes
<1>5. CASE Full(task[h].turn, p)
  <2>1. /\ guard'[p] = h /\ task'[h].pc = "check" /\ task'[h].proc = p
        /\ task'[h].turn = task[h].turn
    BY <1>1, <1>2, <1>5 DEF PoolInv, Types, CallTypes, HostTypes
  <2>2. Served(h)' /\ Guarded(p)' /\ Isolated(p)' /\ Current(p)'
    BY <1>1, <1>2, <1>5, <2>1
    DEF Served, Guarded, Isolated, Current, Listing, Told, Owning, Holding, Full
  <2>3. Pooled'
    BY PooledKept
  <2>4. \A g \in Handler : proc[p].at # By(g)
    BY <1>5, PlacesApart DEF Full
  <2> QED
    BY <1>2, <1>3, <1>4, <2>2, <2>3, <2>4, CallFrame DEF Types
<1>6. CASE ~Full(task[h].turn, p)
  <2>1. Served(h)'
    BY <1>1, <1>2, <1>6 DEF PoolInv, Types, CallTypes, Served, Owning, Holding
  <2> QED
    BY <1>1, <1>3, <1>4, <1>6, <2>1, SilentFrame DEF Alike, Types
<1> QED
  BY <1>5, <1>6

\* What a call owns is in nobody else's hands.
LEMMA OwnedAlone ==
    ASSUME PoolInv, NEW h \in Handler, task[h].pc \in Owning
    PROVE  \E p \in Proc :
             /\ p = task[h].proc /\ proc[p].at = By(h) /\ proc[p].key = auth[task[h].turn]
             /\ task[h].turn \in Turn /\ guard[p] = Nobody
             /\ \A g \in Handler : g # h => proc[p].at # By(g)
             /\ \A q \in Proc : guard[q] # h
<1>1. PICK p \in Proc : p = task[h].proc
  BY NoProcess DEF PoolInv, Types, CallTypes, Served, Owning
<1>2. proc[p].at = By(h) /\ proc[p].key = auth[task[h].turn] /\ task[h].turn \in Turn
  BY <1>1 DEF PoolInv, Served, Owning
<1>3. guard[p] = Nobody
  BY <1>2, Locked, PlacesApart
<1>4. \A q \in Proc : guard[q] # h
  BY Nobodies DEF PoolInv, Guarded, Owning, Holding
<1> QED
  BY <1>1, <1>2, <1>3, <1>4, PlacesApart

LEMMA PrepareStep ==
    ASSUME PoolInv, NEW h \in Handler, Prepare(h)
    PROVE  PoolInv'
<1> USE NoProcess, Nobodies DEF Prepare, Ask, Discard, Go, ended
<1>1. PICK p \in Proc :
        /\ p = task[h].proc /\ proc[p].at = By(h) /\ proc[p].key = auth[task[h].turn]
        /\ task[h].turn \in Turn /\ guard[p] = Nobody
        /\ \A g \in Handler : g # h => proc[p].at # By(g)
        /\ \A q \in Proc : guard[q] # h
  BY OwnedAlone DEF Owning
<1>2. Served(h)
  BY DEF PoolInv
<1>3. ProcTypes' /\ \A q \in Proc : q # p => proc'[q] = proc[q]
  BY <1>1 DEF PoolInv, Types, ProcTypes
<1>4. CallTypes' /\ \A g \in Handler : g # h => task'[g] = task[g]
  BY <1>1 DEF PoolInv, Types, CallTypes
<1>5. HostTypes'
  BY DEF PoolInv, Types, HostTypes
<1>6. Served(h)'
  BY <1>1, <1>2, <1>4 DEF PoolInv, Types, ProcTypes, CallTypes, Served, Owning, Holding
<1>7. proc'[p].at \in {By(h), Gone}
  BY <1>1 DEF PoolInv, Types, ProcTypes
<1>8. Guarded(p)' /\ Isolated(p)' /\ Current(p)'
  BY <1>1, <1>7, PlacesApart DEF Guarded, Isolated, Current, Full
<1>9. Pooled'
  BY <1>1, <1>3, PlacesApart, PooledKept
<1> QED
  BY <1>1, <1>3, <1>4, <1>5, <1>6, <1>8, <1>9, CallFrame DEF Types

LEMMA PreparedStep ==
    ASSUME PoolInv, NEW h \in Handler, Prepared(h)
    PROVE  PoolInv'
<1> USE NoProcess, Nobodies DEF Prepared, Discard, Go, ended
<1>1. PICK p \in Proc :
        /\ p = task[h].proc /\ proc[p].at = By(h) /\ proc[p].key = auth[task[h].turn]
        /\ task[h].turn \in Turn /\ guard[p] = Nobody
        /\ \A g \in Handler : g # h => proc[p].at # By(g)
        /\ \A q \in Proc : guard[q] # h
  BY OwnedAlone DEF Owning
<1>2. Served(h)
  BY DEF PoolInv
<1>3. ProcTypes' /\ \A q \in Proc : q # p => proc'[q] = proc[q]
  BY <1>1 DEF PoolInv, Types, ProcTypes
<1>4. CallTypes' /\ \A g \in Handler : g # h => task'[g] = task[g]
  BY <1>1 DEF PoolInv, Types, CallTypes
<1>5. HostTypes'
  BY DEF PoolInv, Types, HostTypes
<1>6. Served(h)'
  BY <1>1, <1>2, <1>4 DEF PoolInv, Types, ProcTypes, CallTypes, Served, Owning, Holding
<1>7. proc'[p].at \in {By(h), Gone}
  BY <1>1 DEF PoolInv, Types, ProcTypes
<1>8. Guarded(p)' /\ Isolated(p)' /\ Current(p)'
  BY <1>1, <1>7, PlacesApart DEF Guarded, Isolated, Current, Full
<1>9. Pooled'
  BY <1>1, <1>3, PlacesApart, PooledKept
<1> QED
  BY <1>1, <1>3, <1>4, <1>5, <1>6, <1>8, <1>9, CallFrame DEF Types

LEMMA InstallStep ==
    ASSUME PoolInv, NEW h \in Handler, Install(h)
    PROVE  PoolInv'
<1> USE NoProcess, Nobodies DEF Install, Discard, Go, Done, Rest, ended
<1>1. PICK p \in Proc :
        /\ p = task[h].proc /\ proc[p].at = By(h) /\ proc[p].key = auth[task[h].turn]
        /\ task[h].turn \in Turn /\ guard[p] = Nobody
        /\ \A g \in Handler : g # h => proc[p].at # By(g)
        /\ \A q \in Proc : guard[q] # h
  BY OwnedAlone DEF Owning
<1>2. Served(h)
  BY DEF PoolInv
<1>3. CallTypes' /\ \A g \in Handler : g # h => task'[g] = task[g]
  BY <1>1 DEF PoolInv, Types, CallTypes
<1>4. HostTypes'
  BY <1>1 DEF PoolInv, Types, HostTypes
<1>5. CASE turn[task[h].turn] = "open" /\ slot[task[h].turn] # None
  <2>1. ProcTypes'
    BY <1>5 DEF PoolInv, Types, ProcTypes
  <2>2. Served(h)'
    BY <1>1, <1>2, <1>3, <1>5 DEF PoolInv, Types, CallTypes, Served, Owning, Holding
  <2> QED
    BY <1>1, <1>3, <1>4, <1>5, <2>1, <2>2, SilentFrame DEF Alike, Types
<1>6. ASSUME Done(h),
             \/ proc' = [proc EXCEPT ![p].at = Gone, ![p].up = FALSE, ![p].list = "no"]
             \/ proc' = [proc EXCEPT ![p].at = In(task[h].turn)]
      PROVE  PoolInv'
  <2>1. ProcTypes' /\ \A q \in Proc : q # p => proc'[q] = proc[q]
    BY <1>1, <1>6 DEF PoolInv, Types, ProcTypes
  <2>2. Served(h)'
    <3>1. task'[h].pc = "free" /\ task'[h].proc = None
      BY <1>6 DEF PoolInv, Types, CallTypes
    <3> QED
      BY ONLY <3>1 DEF Served, Owning, Holding
  <2>3. proc[p].tools = {} /\ proc[p].view = {} /\ proc[p].list = "no"
    <3>1. task[h].pc = "install"
      BY DEF Install
    <3>2. task[h].proc = p
      BY <1>1
    <3> QED
      BY ONLY <1>2, <3>1, <3>2 DEF Served
  <2>4. \/ proc'[p].at = Gone
        \/ /\ proc'[p].at = In(task[h].turn) /\ proc'[p].key = auth[task[h].turn]
           /\ proc'[p].tools = {} /\ proc'[p].view = {} /\ proc'[p].list = "no"
    BY <1>1, <1>6, <2>3 DEF PoolInv, Types, ProcTypes
  <2>a. guard' = guard /\ auth' = auth /\ guard[p] = Nobody
    BY <1>1
  <2>b. /\ \A t, u : In(t) = In(u) => t = u
        /\ \A t : In(t) # Unused /\ In(t) # Gone
        /\ Gone # Unused
    BY PlacesApart
  <2>5. Guarded(p)' /\ Isolated(p)' /\ Current(p)'
    <3>1. Guarded(p)' /\ Isolated(p)'
      BY ONLY <2>4, <2>a, <2>b DEF Guarded, Isolated, Full
    <3>2. Current(p)'
      BY ONLY <2>4, <2>a, <2>b DEF Current, Listing, Full
    <3> QED
      BY <3>1, <3>2
  <2>6. Pooled'
    BY <1>1, <2>1, PlacesApart, PooledKept
  <2> QED
    BY <1>1, <1>3, <1>4, <2>1, <2>2, <2>5, <2>6, CallFrame DEF Types
<1> QED
  BY <1>1, <1>5, <1>6

LEMMA OccupiedStep ==
    ASSUME PoolInv, NEW h \in Handler, Occupied(h)
    PROVE  PoolInv'
<1> USE NoProcess, Nobodies DEF Occupied, Discard, Go, Done, Rest, ended
<1>1. PICK p \in Proc :
        /\ p = task[h].proc /\ proc[p].at = By(h) /\ proc[p].key = auth[task[h].turn]
        /\ task[h].turn \in Turn /\ guard[p] = Nobody
        /\ \A g \in Handler : g # h => proc[p].at # By(g)
        /\ \A q \in Proc : guard[q] # h
  BY OwnedAlone DEF Owning
<1>2. Served(h)
  BY DEF PoolInv
<1>3. CallTypes' /\ \A g \in Handler : g # h => task'[g] = task[g]
  BY <1>1 DEF PoolInv, Types, CallTypes
<1>4. HostTypes'
  BY <1>1 DEF PoolInv, Types, HostTypes
<1>5. CASE UNCHANGED proc /\ Go(h, "install")
  <2>1. ProcTypes'
    BY <1>5 DEF PoolInv, Types, ProcTypes
  <2>2. Served(h)'
    BY <1>1, <1>2, <1>3, <1>5 DEF PoolInv, Types, CallTypes, Served, Owning, Holding
  <2> QED
    BY <1>1, <1>3, <1>4, <1>5, <2>1, <2>2, SilentFrame DEF Alike, Types
<1>6. ASSUME Done(h) \/ Go(h, "release"),
             \/ proc' = [proc EXCEPT ![p].at = Gone, ![p].up = FALSE, ![p].list = "no"]
             \/ proc' = [proc EXCEPT ![p].at = Quarantine, ![p].phase = "check"]
      PROVE  PoolInv'
  <2>1. ProcTypes' /\ \A q \in Proc : q # p => proc'[q] = proc[q]
    BY <1>1, <1>6 DEF PoolInv, Types, ProcTypes
  <2>2. Served(h)'
    BY <1>1, <1>6 DEF PoolInv, Types, CallTypes, Served, Owning, Holding
  <2>3. proc'[p].at \in {Gone, Quarantine}
    BY <1>1, <1>6 DEF PoolInv, Types, ProcTypes
  <2>4. Guarded(p)' /\ Isolated(p)' /\ Current(p)'
    BY <1>1, <2>3, PlacesApart DEF Guarded, Isolated, Current, Full
  <2>5. Pooled'
    BY <1>1, <2>1, PlacesApart, PooledKept
  <2> QED
    BY <1>1, <1>3, <1>4, <2>1, <2>2, <2>4, <2>5, CallFrame DEF Types
<1> QED
  BY <1>1, <1>5, <1>6

LEMMA SpawnStep ==
    ASSUME PoolInv, NEW h \in Handler, Spawn(h)
    PROVE  PoolInv'
<1> USE NoProcess, Nobodies DEF Spawn, Done, Rest, ended
<1>0. task[h].pc = "spawn"
  OBVIOUS
<1>1. CallTypes' /\ \A g \in Handler : g # h => task'[g] = task[g]
  <2>1. CASE Done(h)
    BY <2>1 DEF PoolInv, Types, CallTypes
  <2>2. ASSUME NEW p \in Proc,
               task' = [task EXCEPT ![h].pc = "install", ![h].proc = p, ![h].pooled = FALSE]
        PROVE  CallTypes' /\ \A g \in Handler : g # h => task'[g] = task[g]
    BY <2>2 DEF PoolInv, Types, CallTypes
  <2> QED
    BY <2>1, <2>2
<1>a. (\A q \in Proc : guard[q] # h) /\ task[h].turn \in Turn
  <2> HIDE DEF Spawn
  <2> QED
    BY <1>0 DEF PoolInv, Guarded, Holding, Served
<1>2. HostTypes' /\ UNCHANGED <<idle, auth, guard, dropped>>
  BY DEF PoolInv, Types, HostTypes
<1> USE <1>a
<1>3. CASE UNCHANGED proc /\ Done(h)
  <2>1. ProcTypes'
    BY <1>3 DEF PoolInv, Types, ProcTypes
  <2>2. Served(h)'
    BY <1>3 DEF PoolInv, Types, CallTypes, Served, Owning, Holding
  <2> QED
    BY <1>1, <1>2, <1>3, <2>1, <2>2, SilentFrame DEF Alike, Types
<1>4. ASSUME NEW p \in Proc, proc[p].at = Unused,
             proc' = [proc EXCEPT ![p].at = By(h), ![p].key = auth[task[h].turn], ![p].up = TRUE],
             task' = [task EXCEPT ![h].pc = "install", ![h].proc = p, ![h].pooled = FALSE]
      PROVE  PoolInv'
  <2> HIDE DEF Spawn
  <2>1. /\ ProcTypes' /\ \A q \in Proc : q # p => proc'[q] = proc[q]
        /\ proc'[p].at = By(h) /\ proc'[p].key = auth[task[h].turn]
        /\ proc'[p].tools = proc[p].tools /\ proc'[p].view = proc[p].view
        /\ proc'[p].list = proc[p].list
    BY <1>4 DEF PoolInv, Types, ProcTypes
  <2>2. proc[p].tools = {} /\ proc[p].view = {} /\ proc[p].list = "no"
    BY <1>4 DEF PoolInv, Isolated
  <2>3. task'[h].pc = "install" /\ task'[h].proc = p /\ task'[h].turn = task[h].turn
    BY <1>4 DEF PoolInv, Types, CallTypes
  <2>4. Served(h)'
    BY <1>2, <2>1, <2>2, <2>3 DEF Served, Owning, Holding
  <2>5. guard[p] = Nobody
    BY <1>4, Locked, PlacesApart
  <2>6. Guarded(p)' /\ Isolated(p)' /\ Current(p)'
    BY <1>2, <2>1, <2>5, PlacesApart DEF Guarded, Isolated, Current, Full
  <2>7. Pooled'
    BY <1>2, <1>4, <2>1, PlacesApart, PooledKept
  <2> QED
    BY <1>1, <1>2, <1>4, <2>1, <2>4, <2>5, <2>6, <2>7, PlacesApart, CallFrame DEF Types
<1> QED
  BY <1>3, <1>4

LEMMA AnswerStep ==
    ASSUME PoolInv, NEW p \in Proc, Answer(p)
    PROVE  PoolInv'
<1> USE NoProcess, Nobodies DEF Answer, ended
<1>1. ProcTypes'
  BY DEF PoolInv, Types, ProcTypes
<1>2. CallTypes' /\ HostTypes'
  BY DEF PoolInv, Types, CallTypes, HostTypes
<1>3. \A q \in Proc : q # p => proc'[q] = proc[q]
  BY DEF PoolInv, Types, ProcTypes
<1>4. ASSUME NEW g \in Handler, task[g].proc = p PROVE Served(g)'
  BY <1>4, PlacesApart DEF PoolInv, Types, ProcTypes, Served, Owning, Holding, Full
<1>5. Isolated(p)'
  BY PlacesApart DEF PoolInv, Types, ProcTypes, Isolated, Full
<1>6. Current(p)'
  BY PlacesApart DEF PoolInv, Types, ProcTypes, Current, Listing, Told, Full
<1>7. \A q \in Proc : proc[q].at = Idle => proc'[q].at = Idle
  BY <1>3, PlacesApart DEF PoolInv, Types, ProcTypes
<1>8. Pooled'
  BY <1>7, PooledKept
<1> QED
  BY <1>1, <1>2, <1>3, <1>4, <1>5, <1>6, <1>8, ProcFrame DEF Types

LEMMA ExitStep ==
    ASSUME PoolInv, NEW p \in Proc, Exit(p)
    PROVE  PoolInv'
<1> USE NoProcess, Nobodies DEF Exit, ended
<1>1. ProcTypes'
  BY DEF PoolInv, Types, ProcTypes
<1>2. CallTypes' /\ HostTypes'
  BY DEF PoolInv, Types, CallTypes, HostTypes
<1>3. \A q \in Proc : q # p => proc'[q] = proc[q]
  BY DEF PoolInv, Types, ProcTypes
<1>4. ASSUME NEW g \in Handler, task[g].proc = p PROVE Served(g)'
  BY <1>4, PlacesApart DEF PoolInv, Types, ProcTypes, Served, Owning, Holding, Full
<1>5. Isolated(p)'
  BY PlacesApart DEF PoolInv, Types, ProcTypes, Isolated, Full
<1>6. Current(p)'
  BY PlacesApart DEF PoolInv, Types, ProcTypes, Current, Listing, Told, Full
<1>7. \A q \in Proc : proc[q].at = Idle => proc'[q].at = Idle
  BY <1>3, PlacesApart DEF PoolInv, Types, ProcTypes
<1>8. Pooled'
  BY <1>7, PooledKept
<1> QED
  BY <1>1, <1>2, <1>3, <1>4, <1>5, <1>6, <1>8, ProcFrame DEF Types

LEMMA NotifyStep ==
    ASSUME PoolInv, NEW p \in Proc, Notify(p)
    PROVE  PoolInv'
<1> USE NoProcess, Nobodies DEF Notify, ended
<1>1. ProcTypes'
  BY DEF PoolInv, Types, ProcTypes
<1>2. CallTypes' /\ HostTypes'
  BY DEF PoolInv, Types, CallTypes, HostTypes
<1>3. \A q \in Proc : q # p => proc'[q] = proc[q]
  BY DEF PoolInv, Types, ProcTypes
<1>4. ASSUME NEW g \in Handler, task[g].proc = p PROVE Served(g)'
  BY <1>4, PlacesApart DEF PoolInv, Types, ProcTypes, Served, Owning, Holding, Full
<1>5. Isolated(p)'
  BY PlacesApart DEF PoolInv, Types, ProcTypes, Isolated, Full
<1>6. Current(p)'
  BY PlacesApart DEF PoolInv, Types, ProcTypes, Current, Listing, Told, Full
<1>7. \A q \in Proc : proc[q].at = Idle => proc'[q].at = Idle
  BY <1>3, PlacesApart DEF PoolInv, Types, ProcTypes
<1>8. Pooled'
  BY <1>7, PooledKept
<1> QED
  BY <1>1, <1>2, <1>3, <1>4, <1>5, <1>6, <1>8, ProcFrame DEF Types

LEMMA LateStep ==
    ASSUME PoolInv, NEW p \in Proc, Late(p)
    PROVE  PoolInv'
<1> USE NoProcess, Nobodies DEF Late, ended
<1>1. ProcTypes'
  BY DEF PoolInv, Types, ProcTypes
<1>2. CallTypes' /\ HostTypes'
  BY DEF PoolInv, Types, CallTypes, HostTypes
<1>3. \A q \in Proc : q # p => proc'[q] = proc[q]
  BY DEF PoolInv, Types, ProcTypes
<1>4. ASSUME NEW g \in Handler, task[g].proc = p PROVE Served(g)'
  BY <1>4, PlacesApart DEF PoolInv, Types, ProcTypes, Served, Owning, Holding, Full
<1>5. Isolated(p)'
  BY PlacesApart DEF PoolInv, Types, ProcTypes, Isolated, Full
<1>6. Current(p)'
  BY PlacesApart DEF PoolInv, Types, ProcTypes, Current, Listing, Told, Full
<1>7. \A q \in Proc : proc[q].at = Idle => proc'[q].at = Idle
  BY <1>3, PlacesApart DEF PoolInv, Types, ProcTypes
<1>8. Pooled'
  BY <1>7, PooledKept
<1> QED
  BY <1>1, <1>2, <1>3, <1>4, <1>5, <1>6, <1>8, ProcFrame DEF Types

LEMMA ResetStep ==
    ASSUME PoolInv, NEW p \in Proc, Reset(p)
    PROVE  PoolInv'
<1> USE NoProcess, Nobodies DEF Reset, Discard, ended
<1>1. ProcTypes'
  BY DEF PoolInv, Types, ProcTypes
<1>2. CallTypes' /\ HostTypes'
  BY DEF PoolInv, Types, CallTypes, HostTypes
<1>3. \A q \in Proc : q # p => proc'[q] = proc[q]
  BY DEF PoolInv, Types, ProcTypes
<1>4. ASSUME NEW g \in Handler, task[g].proc = p PROVE Served(g)'
  BY <1>4, PlacesApart DEF PoolInv, Types, ProcTypes, Served, Owning, Holding, Full
<1>5. Isolated(p)'
  BY PlacesApart DEF PoolInv, Types, ProcTypes, Isolated, Full
<1>6. Current(p)'
  BY PlacesApart DEF PoolInv, Types, ProcTypes, Current, Listing, Told, Full
<1>7. \A q \in Proc : proc[q].at = Idle => proc'[q].at = Idle
  BY <1>3, PlacesApart DEF PoolInv, Types, ProcTypes
<1>8. Pooled'
  BY <1>7, PooledKept
<1> QED
  BY <1>1, <1>2, <1>3, <1>4, <1>5, <1>6, <1>8, ProcFrame DEF Types

LEMMA AbortStep ==
    ASSUME PoolInv, NEW h \in Handler, Abort(h)
    PROVE  PoolInv'
<1> USE NoProcess, Nobodies DEF Abort, Done, Rest, ended
<1>1. /\ CallTypes' /\ task'[h].pc = "free" /\ task'[h].proc = None
      /\ \A g \in Handler : g # h => task'[g] = task[g]
  BY DEF PoolInv, Types, CallTypes
<1>2. Served(h)'
  BY <1>1 DEF Served, Owning, Holding
<1>3. CASE task[h].proc = None
  <2>1. UNCHANGED <<proc, guard, dropped, idle, auth, slot, turn, drain>>
    BY <1>3
  <2>2. \A q \in Proc : guard[q] # h
    BY <1>3 DEF PoolInv, Guarded
  <2> QED
    BY <1>1, <1>2, <2>1, <2>2, SilentFrame DEF Alike, PoolInv, Types, ProcTypes, HostTypes
<1>4. ASSUME NEW p \in Proc, p = task[h].proc
      PROVE  PoolInv'
  <2>1. /\ UNCHANGED <<idle, auth, slot, turn, drain>>
        /\ guard' = [guard EXCEPT ![p] = IF @ = h THEN Nobody ELSE @]
        /\ dropped' = IF task[h].pc = "list" THEN dropped \cup {p} ELSE dropped
        /\ IF proc[p].at = By(h) \/ (task[h].pc = "release" /\ proc[p].at = Quarantine)
           THEN proc' = [proc EXCEPT ![p].at = Gone, ![p].up = FALSE, ![p].list = "no"]
           ELSE proc' = [proc EXCEPT
                  ![p].list = IF task[h].pc = "list" THEN "no" ELSE @,
                  ![p].late = IF task[h].pc = "wait" /\ task[h].op = "control"
                              THEN @ \cup {task[h].turn} ELSE @]
    BY <1>4 DEF Discard
  <2> HIDE DEF Abort
  <2>2. HostTypes' /\ \A q \in Proc : q # p => guard'[q] = guard[q] /\ guard[q] # h
    BY <1>4, <2>1 DEF PoolInv, Types, HostTypes, Guarded
  <2>3. ProcTypes' /\ \A q \in Proc : q # p => proc'[q] = proc[q]
    BY <2>1 DEF PoolInv, Types, ProcTypes
  <2>4. Guarded(p) /\ Isolated(p) /\ Current(p) /\ Served(h)
    BY DEF PoolInv
  <2>5. CASE guard[p] = h
    <3>1. task[h].pc \in Holding /\ Full(task[h].turn, p) /\ task[h].turn \in Turn
      BY <2>4, <2>5 DEF Guarded, Served, Holding
    <3>2. /\ guard'[p] = Nobody
          /\ proc' = [proc EXCEPT
               ![p].list = IF task[h].pc = "list" THEN "no" ELSE @,
               ![p].late = IF task[h].pc = "wait" /\ task[h].op = "control"
                           THEN @ \cup {task[h].turn} ELSE @]
      BY <2>1, <2>5, <3>1, PlacesApart DEF PoolInv, Types, HostTypes, Full
    <3>3. /\ proc'[p].at = proc[p].at /\ proc'[p].key = proc[p].key
          /\ proc'[p].tools = proc[p].tools /\ proc'[p].view = proc[p].view
          /\ proc'[p].changed = proc[p].changed /\ proc'[p].note = proc[p].note
          /\ proc'[p].up = proc[p].up /\ proc'[p].answer = proc[p].answer
          /\ proc'[p].list \in {"no", proc[p].list}
      BY <3>2 DEF PoolInv, Types, ProcTypes
    <3>4. Guarded(p)' /\ Isolated(p)'
      BY <2>1, <2>4, <3>2, <3>3 DEF Guarded, Isolated, Full
    <3>5. Current(p)'
      BY <2>1, <2>4, <2>5, <3>2, <3>3 DEF Current, Listing, Told, Full
    <3>6. Pooled'
      BY <2>1, <2>3, <3>3, PooledKept
    <3>7. \A g \in Handler : proc[p].at # By(g)
      BY <3>1, PlacesApart DEF Full
    <3>8. \A q \in Proc : q # p => (q \in dropped' <=> q \in dropped)
      BY <2>1
    <3> QED
      BY <1>1, <1>2, <2>1, <2>2, <2>3, <2>5, <3>4, <3>5, <3>6, <3>7, <3>8, CallFrame DEF Types
  <2>6. CASE guard[p] # h
    <3>1. guard' = guard
      BY <2>1, <2>6 DEF PoolInv, Types, HostTypes
    <3>2. task[h].pc \notin Holding
      BY <1>4, <2>4, <2>6 DEF Served
    <3>3. dropped' = dropped /\ task[h].pc \notin {"list", "wait"}
      BY <2>1, <3>2 DEF Holding
    <3>5. CASE /\ proc[p].at \in {By(h), Quarantine}
               /\ proc' = [proc EXCEPT ![p].at = Gone, ![p].up = FALSE, ![p].list = "no"]
      <4>1. guard[p] = Nobody
        BY <3>5, Locked, PlacesApart
      <4>2. proc'[p].at = Gone
        BY <3>5 DEF PoolInv, Types, ProcTypes
      <4>3. Guarded(p)' /\ Isolated(p)' /\ Current(p)'
        BY <3>1, <4>1, <4>2, PlacesApart DEF Guarded, Isolated, Current, Full
      <4>4. Pooled'
        BY <2>1, <2>3, <3>5, PlacesApart, PooledKept
      <4>5. \A g \in Handler : g # h => proc[p].at # By(g)
        BY <3>5, PlacesApart
      <4> QED
        BY <1>1, <1>2, <2>1, <2>2, <2>3, <3>1, <3>3, <4>1, <4>3, <4>4, <4>5, CallFrame DEF Types
    <3>6. CASE ~(proc[p].at = By(h) \/ (task[h].pc = "release" /\ proc[p].at = Quarantine))
      <4>1. \A q \in Proc : Alike(q)
        BY <2>1, <3>3, <3>6 DEF PoolInv, Types, ProcTypes, Alike
      <4> QED
        BY <1>1, <1>2, <2>1, <2>2, <2>3, <2>6, <3>1, <3>3, <4>1, SilentFrame DEF Alike, Types
    <3> QED
      BY <2>1, <3>5, <3>6
  <2> QED
    BY <2>5, <2>6
<1> QED
  BY <1>3, <1>4 DEF PoolInv, Types, CallTypes

LEMMA DrainStep ==
    ASSUME PoolInv, NEW t \in Turn, Drain(t)
    PROVE  PoolInv'
<1> USE NoProcess, Nobodies DEF Drain, ended
<1>1. CallTypes' /\ HostTypes'
  BY DEF PoolInv, Types, CallTypes, HostTypes
<1>2. CASE proc' = proc
  BY <1>1, <1>2 DEF PoolInv, Types, ProcTypes, Pooled, Served, Guarded, Isolated, Current,
     Listing, Told, Full
<1>3. ASSUME NEW p \in Proc, guard[p] = Nobody, Full(t, p),
             proc' = [proc EXCEPT ![p].at = Quarantine, ![p].phase = "check"]
      PROVE  PoolInv'
  <2>1. /\ ProcTypes' /\ \A q \in Proc : q # p => proc'[q] = proc[q]
        /\ proc'[p].at = Quarantine
    BY <1>3 DEF PoolInv, Types, ProcTypes
  <2>2. ASSUME NEW g \in Handler, task[g].proc = p PROVE Served(g)'
    BY <1>3, <2>2, PlacesApart DEF PoolInv, Served, Owning, Holding, Full
  <2>3. Isolated(p)' /\ Current(p)'
    BY <2>1, PlacesApart DEF Isolated, Current, Full
  <2>4. Pooled'
    BY <1>3, <2>1, PlacesApart, PooledKept DEF Full
  <2> QED
    BY <1>1, <2>1, <2>2, <2>3, <2>4, ProcFrame DEF Types
<1> QED
  BY <1>2, <1>3 DEF PoolInv, Types, HostTypes

LEMMA EndTurnStep ==
    ASSUME PoolInv, NEW t \in Turn, EndTurn(t)
    PROVE  PoolInv'
<1>1. HostTypes'
  BY DEF PoolInv, Types, HostTypes, EndTurn
<1> QED
  BY <1>1 DEF EndTurn, PoolInv, Types, ProcTypes, CallTypes, Pooled, Served, Guarded, Isolated,
     Current, Listing, Told, Full
-----------------------------------------------------------------------------
\* What is left of the pool when its oldest are gone.
LEMMA FreshIs ==
    ASSUME idle \in Seq(Proc), NEW n \in 0 .. Len(idle)
    PROVE  /\ Fresh(n) \in Seq(Proc) /\ Len(Fresh(n)) = Len(idle) - n /\ Len(Fresh(n)) \in Nat
           /\ \A i \in 1 .. Len(Fresh(n)) : i + n \in 1 .. Len(idle) /\ Fresh(n)[i] = idle[i + n]
           /\ \A i \in 1 .. n : i \in 1 .. Len(idle)
BY DEF Fresh

\* What the pool keeps, and whom it gives up.
LEMMA Expiring ==
    ASSUME PoolInv, NEW n \in 0 .. Len(idle)
    PROVE  /\ Expired(n) \subseteq Proc /\ \A q \in Expired(n) : proc[q].at = Idle
           /\ \A i \in 1 .. Len(Fresh(n)) :
                /\ Fresh(n)[i] \in Proc \ Expired(n) /\ proc[Fresh(n)[i]].at = Idle
                /\ \A j \in 1 .. Len(Fresh(n)) : Fresh(n)[i] = Fresh(n)[j] => i = j
           /\ DOMAIN GoneFrom(proc, Expired(n)) = Proc
           /\ \A q \in Expired(n) : GoneFrom(proc, Expired(n))[q].at = Gone
           /\ \A q \in Proc : DOMAIN GoneFrom(proc, Expired(n))[q] = DOMAIN proc[q]
           /\ \A q \in Proc \ Expired(n) : GoneFrom(proc, Expired(n))[q] = proc[q]
<1>1. idle \in Seq(Proc) /\ DOMAIN idle = 1 .. Len(idle) /\ Len(idle) \in Nat
  BY DEF PoolInv, Types, HostTypes
<1>2. \A i \in 1 .. Len(idle) : idle[i] \in Proc /\ proc[idle[i]].at = Idle
  BY <1>1 DEF PoolInv, Pooled
<1>3. \A i, j \in 1 .. Len(idle) : idle[i] = idle[j] => i = j
  BY <1>1 DEF PoolInv, Pooled
<1>4. \A q \in Expired(n) : \E i \in 1 .. n : i \in 1 .. Len(idle) /\ q = idle[i]
  BY <1>1 DEF Expired
<1>5. Expired(n) \subseteq Proc /\ \A q \in Expired(n) : proc[q].at = Idle
  BY <1>2, <1>4
<1>6. ASSUME NEW i \in 1 .. Len(Fresh(n))
      PROVE  /\ Fresh(n)[i] \in Proc \ Expired(n) /\ proc[Fresh(n)[i]].at = Idle
             /\ \A j \in 1 .. Len(Fresh(n)) : Fresh(n)[i] = Fresh(n)[j] => i = j
  <2>0. Len(Fresh(n)) \in Nat
    BY <1>1, FreshIs
  <2>1. i + n \in 1 .. Len(idle) /\ Fresh(n)[i] = idle[i + n]
    BY <1>1, FreshIs
  <2>2. ASSUME NEW j \in 1 .. Len(Fresh(n)), Fresh(n)[i] = Fresh(n)[j] PROVE i = j
    <3>1. j + n \in 1 .. Len(idle) /\ Fresh(n)[j] = idle[j + n]
      BY <1>1, FreshIs
    <3>2. i + n = j + n
      BY <1>3, <2>1, <2>2, <3>1
    <3> QED
      BY <1>1, <2>0, <3>2
  <2>3. idle[i + n] \notin Expired(n)
    <3> SUFFICES ASSUME NEW k \in 1 .. n, k \in 1 .. Len(idle), idle[i + n] = idle[k]
                 PROVE  FALSE
      BY <1>4
    <3>1. i + n = k
      BY <1>3, <2>1
    <3> QED
      BY <1>1, <3>1
  <2> QED
    BY <1>2, <2>1, <2>2, <2>3
<1>7. /\ DOMAIN GoneFrom(proc, Expired(n)) = Proc
      /\ \A q \in Proc \ Expired(n) : GoneFrom(proc, Expired(n))[q] = proc[q]
  BY DEF GoneFrom
<1>8. ASSUME NEW q \in Proc
      PROVE  /\ DOMAIN GoneFrom(proc, Expired(n))[q] = DOMAIN proc[q]
             /\ q \in Expired(n) => GoneFrom(proc, Expired(n))[q].at = Gone
  <2>1. q \in Expired(n) =>
          GoneFrom(proc, Expired(n))[q] = [proc[q] EXCEPT !.at = Gone, !.up = FALSE]
    BY DEF GoneFrom
  <2> QED
    BY <1>7, <2>1 DEF PoolInv, Types, ProcTypes
<1> QED
  BY <1>5, <1>6, <1>7, <1>8

\* The least-number principle.
LEMMA Smallest ==
    ASSUME NEW S \in SUBSET Nat, S # {}
    PROVE  \E n \in S : \A k \in S : n <= k
<1> DEFINE T == {1..n : n \in S}
<1>1. \A n \in Nat : IsFiniteSet(1..n)
  BY FS_Interval
<1>2. T \subseteq FiniteSubsetsOf(Nat) /\ T # {}
  <2>1. \A n \in S : 1..n \in SUBSET Nat /\ IsFiniteSet(1..n)
    BY <1>1
  <2>2. \A x \in T : x \in FiniteSubsetsOf(Nat)
    BY <2>1 DEF FiniteSubsetsOf
  <2>3. T # {}
    OBVIOUS
  <2> QED
    BY <2>2, <2>3
<1>3. IsWellFoundedOn(StrictSubsetOrdering(Nat), FiniteSubsetsOf(Nat))
  BY FS_StrictSubsetOrderingWellFounded
<1> HIDE DEF T
<1>4. PICK x \in T : \A y \in T : <<y, x>> \notin StrictSubsetOrdering(Nat)
  BY <1>2, <1>3, WFMin
<1>5. PICK n \in S : x = 1..n
  BY DEF T
<1>6. ASSUME NEW k \in S, k < n
      PROVE  FALSE
  <2>1. n \in 1..n /\ n \notin 1..k /\ 1..k \subseteq 1..n
    BY <1>6
  <2>2. 1..k \in T
    BY DEF T
  <2>3. <<1..k, x>> \in StrictSubsetOrdering(Nat)
    BY <1>5, <2>1 DEF StrictSubsetOrdering
  <2> QED
    BY <1>4, <2>2, <2>3
<1> QED
  BY <1>6

\* Idle processes are nobody's: they may be discarded, and one taken.
LEMMA IdleFrame ==
    ASSUME PoolInv, Types', UNCHANGED <<auth, guard, dropped>>,
           NEW ps \in SUBSET Proc, \A q \in ps : proc[q].at \in {Idle, Quarantine},
           \A q \in Proc : q \notin ps => proc'[q] = proc[q],
           \A q \in ps : proc'[q].at \in {Gone, Idle} \/ \E h \in Handler : proc'[q].at = By(h),
           \A g \in Handler : task'[g] = task[g] \/ (Served(g)' /\ task[g].pc \notin Holding),
           Pooled'
    PROVE  PoolInv'
<1>1. ASSUME NEW g \in Handler, task'[g] = task[g] PROVE Served(g)'
  <2>1. Served(g) /\ task[g].proc \in Proc \cup {None}
    BY DEF PoolInv, Types, CallTypes
  <2>2. CASE task[g].proc \in ps
    <3>1. task[g].pc \notin Owning \cup Holding
      BY <2>1, <2>2, PlacesApart DEF Served, Full
    <3> QED
      BY <1>1, <2>1, <3>1 DEF Served, Owning
  <2>3. CASE task[g].proc \in Proc /\ task[g].proc \notin ps
    BY <1>1, <2>1, <2>3 DEF Served, Full
  <2>4. CASE task[g].proc \notin Proc
    BY <1>1, <2>1, <2>4, NoProcess DEF Served, Owning, Holding
  <2> QED
    BY <2>2, <2>3, <2>4
<1>2. ASSUME NEW q \in Proc, guard[q] # Nobody PROVE task'[guard[q]] = task[guard[q]]
  BY <1>2 DEF PoolInv, Types, HostTypes, Guarded
<1>3. ASSUME NEW q \in Proc PROVE Guarded(q)'
  BY <1>2 DEF PoolInv, Guarded
<1>4. ASSUME NEW q \in Proc PROVE Isolated(q)' /\ Current(q)'
  <2>1. CASE q \in ps
    BY <2>1, PlacesApart DEF Isolated, Current, Full
  <2>2. CASE q \notin ps
    BY <1>2, <2>2 DEF PoolInv, Isolated, Current, Listing, Told, Full
  <2> QED
    BY <2>1, <2>2
<1> QED
  BY <1>1, <1>3, <1>4 DEF PoolInv

LEMMA AcquireStep ==
    ASSUME PoolInv, NEW h \in Handler, Acquire(h)
    PROVE  PoolInv'
<1> USE NoProcess, Nobodies
<1>1. /\ task[h].pc = "acquire" /\ task[h].turn \in Turn
      /\ UNCHANGED <<auth, slot, turn, drain, guard, dropped>>
  BY DEF Acquire, PoolInv, Served, ended
<1>2. PICK n \in 0 .. Len(idle) :
        LET rest  == Fresh(n)
            match == {i \in DOMAIN rest : proc[rest[i]].key = auth[task[h].turn]}
            kept  == GoneFrom(proc, Expired(n))
        IN IF match = {}
           THEN proc' = kept /\ idle' = rest /\ Go(h, "spawn")
           ELSE LET i == CHOOSE i \in match : \A j \in match : i <= j IN
                /\ proc' = [kept EXCEPT ![rest[i]].at = By(h)]
                /\ idle' = RemoveAt(rest, i)
                /\ task' = [task EXCEPT ![h].pc = "prepare", ![h].proc = rest[i], ![h].pooled = TRUE]
  BY DEF Acquire
<1> DEFINE rest == Fresh(n)
           kept == GoneFrom(proc, Expired(n))
<1>3. idle \in Seq(Proc)
  BY DEF PoolInv, Types, HostTypes
<1>4. /\ rest \in Seq(Proc) /\ Len(rest) = Len(idle) - n
      /\ \A i \in 1 .. Len(rest) : i + n \in 1 .. Len(idle) /\ rest[i] = idle[i + n]
  BY <1>3, FreshIs
<1>6. DOMAIN rest = 1 .. Len(rest) /\ Len(rest) \in Nat
  BY <1>4
<1>5. /\ Expired(n) \subseteq Proc /\ \A q \in Expired(n) : proc[q].at = Idle
      /\ \A i \in 1 .. Len(rest) :
           /\ rest[i] \in Proc \ Expired(n) /\ proc[rest[i]].at = Idle
           /\ \A j \in 1 .. Len(rest) : rest[i] = rest[j] => i = j
      /\ DOMAIN kept = Proc
      /\ \A q \in Expired(n) : kept[q].at = Gone
      /\ \A q \in Proc : DOMAIN kept[q] = DOMAIN proc[q]
      /\ \A q \in Proc \ Expired(n) : kept[q] = proc[q]
  BY Expiring
<1> HIDE DEF rest, kept
<1>8. CASE proc' = kept /\ idle' = rest /\ Go(h, "spawn")
  <2>1. ProcTypes' /\ HostTypes'
    BY <1>1, <1>4, <1>5, <1>8 DEF PoolInv, Types, ProcTypes, HostTypes
  <2>2. /\ CallTypes' /\ task'[h].pc = "spawn" /\ task'[h].turn = task[h].turn
        /\ \A g \in Handler : g # h => task'[g] = task[g]
    BY <1>8 DEF PoolInv, Types, CallTypes, Go
  <2>3. Served(h)'
    BY <1>1, <2>2 DEF Served, Owning, Holding
  <2>4. Pooled'
    BY <1>4, <1>5, <1>6, <1>8 DEF Pooled
  <2> QED
    BY <1>1, <1>5, <1>8, <2>1, <2>2, <2>3, <2>4, IdleFrame DEF Types, Holding
<1>9. ASSUME NEW i \in 1 .. Len(rest), proc[rest[i]].key = auth[task[h].turn],
             proc' = [kept EXCEPT ![rest[i]].at = By(h)], idle' = RemoveAt(rest, i),
             task' = [task EXCEPT ![h].pc = "prepare", ![h].proc = rest[i], ![h].pooled = TRUE]
      PROVE  PoolInv'
  <2>1. PICK p \in Proc : p = rest[i]
    BY <1>4
  <2>2. p \notin Expired(n) /\ proc[p].at = Idle
    BY <1>5, <2>1
  <2>3. /\ ProcTypes' /\ proc'[p].at = By(h) /\ proc'[p].key = auth[task[h].turn]
        /\ \A q \in Proc : q # p => proc'[q] = kept[q]
    BY <1>5, <1>9, <2>1, <2>2 DEF PoolInv, Types, ProcTypes
  <2>4. /\ CallTypes' /\ task'[h].pc = "prepare" /\ task'[h].turn = task[h].turn
        /\ task'[h].proc = p /\ \A g \in Handler : g # h => task'[g] = task[g]
    BY <1>9, <2>1 DEF PoolInv, Types, CallTypes
  <2>5. Served(h)'
    BY <1>1, <2>3, <2>4 DEF Served, Owning, Holding
  <2> DEFINE front == SubSeq(rest, 1, i - 1)
             back  == SubSeq(rest, i + 1, Len(rest))
  <2>a. /\ front \in Seq(Proc) /\ Len(front) = i - 1
        /\ \A j \in 1 .. i - 1 : front[j] = rest[j]
    BY <1>4, <1>6
  <2>b. /\ back \in Seq(Proc) /\ Len(back) = Len(rest) - i
        /\ \A j \in 1 .. Len(rest) - i : back[j] = rest[i + j]
    <3>1. i + 1 \in 1 .. Len(rest) + 1 /\ Len(rest) \in (i + 1) - 1 .. Len(rest)
      BY <1>6
    <3>2. /\ back \in Seq(Proc)
          /\ Len(back) = IF i + 1 <= Len(rest) THEN Len(rest) - (i + 1) + 1 ELSE 0
          /\ \A j \in 1 .. Len(rest) - (i + 1) + 1 : back[j] = rest[(i + 1) + j - 1]
      BY <1>4, <3>1, SubSeqProperties
    <3> HIDE DEF front, back
    <3>3. Len(rest) \in Nat /\ i \in Nat /\ i <= Len(rest)
      BY <1>6
    <3>4. Len(back) = Len(rest) - i
      BY <3>2, <3>3
    <3>5. ASSUME NEW j \in 1 .. Len(rest) - i PROVE back[j] = rest[i + j]
      <4>1. j \in 1 .. Len(rest) - (i + 1) + 1 /\ (i + 1) + j - 1 = i + j
        BY <3>3
      <4> QED
        BY <3>2, <4>1
    <3> QED
      BY <3>2, <3>4, <3>5
  <2>c. idle' = front \o back
    BY <1>9 DEF RemoveAt
  <2> HIDE DEF front, back
  <2>6. /\ idle' \in Seq(Proc) /\ DOMAIN idle' = 1 .. Len(rest) - 1
        /\ \A j \in 1 .. Len(rest) - 1 : idle'[j] = IF j < i THEN rest[j] ELSE rest[j + 1]
    <3>1. /\ idle' \in Seq(Proc) /\ Len(idle') = Len(front) + Len(back)
          /\ \A j \in 1 .. Len(front) + Len(back) :
               idle'[j] = IF j <= Len(front) THEN front[j] ELSE back[j - Len(front)]
      BY <2>a, <2>b, <2>c, ConcatProperties
    <3>2. Len(front) + Len(back) = Len(rest) - 1 /\ DOMAIN idle' = 1 .. Len(idle')
      BY <1>6, <2>a, <2>b, <3>1
    <3>3. ASSUME NEW j \in 1 .. Len(rest) - 1
          PROVE  idle'[j] = IF j < i THEN rest[j] ELSE rest[j + 1]
      <4>1. CASE j < i
        BY <1>6, <2>a, <3>1, <3>2, <4>1
      <4>2. CASE ~(j < i)
        <5>1. idle'[j] = back[j - (i - 1)] /\ j - (i - 1) \in 1 .. Len(rest) - i
          BY <1>6, <2>a, <3>1, <3>2, <4>2
        <5>2. back[j - (i - 1)] = rest[i + (j - (i - 1))] /\ i + (j - (i - 1)) = j + 1
          BY <1>6, <2>b, <5>1
        <5> QED
          BY <4>2, <5>1, <5>2
      <4> QED
        BY <4>1, <4>2
    <3> QED
      BY <3>1, <3>2, <3>3
  <2>7. Pooled'
    <3>1. ASSUME NEW j \in DOMAIN idle' PROVE proc'[idle'[j]].at = Idle
      <4>1. PICK k \in 1 .. Len(rest) : k # i /\ idle'[j] = rest[k]
        <5>1. CASE j < i
          BY <1>6, <2>6, <5>1
        <5>2. CASE ~(j < i)
          <6>1. j + 1 \in 1 .. Len(rest) /\ j + 1 # i
            BY <1>6, <2>6, <5>2
          <6> QED
            BY <2>6, <5>2, <6>1
        <5> QED
          BY <5>1, <5>2
      <4>2. rest[k] # p /\ rest[k] \notin Expired(n) /\ proc[rest[k]].at = Idle /\ rest[k] \in Proc
        BY <1>4, <1>5, <2>1, <4>1
      <4> QED
        BY <1>5, <2>3, <4>1, <4>2
    <3>2. ASSUME NEW j \in DOMAIN idle', NEW k \in DOMAIN idle', idle'[j] = idle'[k] PROVE j = k
      <4> DEFINE at(x) == IF x < i THEN x ELSE x + 1
      <4>1. /\ at(j) \in 1 .. Len(rest) /\ at(k) \in 1 .. Len(rest)
            /\ at(j) = at(k) => j = k
        BY <1>6, <2>6
      <4>2. idle'[j] = rest[at(j)] /\ idle'[k] = rest[at(k)]
        BY <2>6
      <4> HIDE DEF at
      <4> QED
        BY <1>5, <3>2, <4>1, <4>2
    <3> QED
      BY <3>1, <3>2 DEF Pooled
  <2>8. HostTypes'
    BY <1>1, <2>6 DEF PoolInv, Types, HostTypes
  <2> DEFINE ps == Expired(n) \cup {p}
  <2>9. /\ ps \subseteq Proc /\ \A q \in ps : proc[q].at \in {Idle, Quarantine}
        /\ \A q \in Proc : q \notin ps => proc'[q] = proc[q]
        /\ \A q \in ps : proc'[q].at \in {Gone, Idle} \/ \E g \in Handler : proc'[q].at = By(g)
    BY <1>5, <2>2, <2>3
  <2> HIDE DEF ps
  <2> QED
    BY <1>1, <2>3, <2>4, <2>5, <2>7, <2>8, <2>9, IdleFrame DEF Types, Holding
<1>10. CASE {i \in DOMAIN rest : proc[rest[i]].key = auth[task[h].turn]} = {}
  BY <1>2, <1>8, <1>10 DEF rest, kept
<1>11. CASE {i \in DOMAIN rest : proc[rest[i]].key = auth[task[h].turn]} # {}
  <2> DEFINE match == {i \in DOMAIN rest : proc[rest[i]].key = auth[task[h].turn]}
             m     == CHOOSE i \in match : \A j \in match : i <= j
  <2>1. \E i \in match : \A j \in match : i <= j
    <3>1. match \subseteq Nat /\ match # {}
      BY <1>4, <1>11
    <3> HIDE DEF match
    <3> QED
      BY <3>1, Smallest
  <2>2. m \in match
    BY <2>1
  <2>3. m \in 1 .. Len(rest) /\ proc[rest[m]].key = auth[task[h].turn]
    BY <1>6, <2>2
  <2>4. /\ proc' = [kept EXCEPT ![rest[m]].at = By(h)] /\ idle' = RemoveAt(rest, m)
        /\ task' = [task EXCEPT ![h].pc = "prepare", ![h].proc = rest[m], ![h].pooled = TRUE]
    BY <1>2, <1>11 DEF rest, kept
  <2> HIDE DEF m
  <2> QED
    BY <1>9, <2>3, <2>4
<1> QED
  BY <1>10, <1>11

LEMMA EnterStep ==
    ASSUME PoolInv, NEW p \in Proc, Enter(p)
    PROVE  PoolInv'
<1>1. PICK n \in 0 .. Len(idle) :
        LET rest == Fresh(n)
            over == IF Len(rest) >= MaxIdle THEN Len(rest) - MaxIdle + 1 ELSE 0
        IN /\ idle' = Append(Fresh(n + over), p)
           /\ proc' = [GoneFrom(proc, Expired(n + over)) EXCEPT ![p].at = Idle, ![p].phase = None]
  BY DEF Enter
<1>2. idle \in Seq(Proc) /\ MaxIdle \in Nat \ {0}
  BY BoundsAssumption DEF PoolInv, Types, HostTypes
<1>3. PICK m \in 0 .. Len(idle) :
        /\ idle' = Append(Fresh(m), p)
        /\ proc' = [GoneFrom(proc, Expired(m)) EXCEPT ![p].at = Idle, ![p].phase = None]
  <2>1. Len(Fresh(n)) = Len(idle) - n /\ Len(idle) \in Nat
    BY <1>2, FreshIs
  <2> DEFINE over == IF Len(Fresh(n)) >= MaxIdle THEN Len(Fresh(n)) - MaxIdle + 1 ELSE 0
  <2>2. n + over \in 0 .. Len(idle)
    BY <1>2, <2>1
  <2> QED
    BY <1>1, <2>2
<1> DEFINE rest == Fresh(m)
           kept == GoneFrom(proc, Expired(m))
<1>4. /\ rest \in Seq(Proc) /\ Len(rest) = Len(idle) - m
      /\ \A i \in 1 .. Len(rest) : i + m \in 1 .. Len(idle) /\ rest[i] = idle[i + m]
  BY <1>2, FreshIs
<1>5. /\ Expired(m) \subseteq Proc /\ \A q \in Expired(m) : proc[q].at = Idle
      /\ \A i \in 1 .. Len(rest) :
           /\ rest[i] \in Proc \ Expired(m) /\ proc[rest[i]].at = Idle
           /\ \A j \in 1 .. Len(rest) : rest[i] = rest[j] => i = j
      /\ DOMAIN kept = Proc
      /\ \A q \in Expired(m) : kept[q].at = Gone
      /\ \A q \in Proc : DOMAIN kept[q] = DOMAIN proc[q]
      /\ \A q \in Proc \ Expired(m) : kept[q] = proc[q]
  BY Expiring
<1>8. proc[p].at = Quarantine /\ p \notin Expired(m)
  BY <1>5, PlacesApart DEF Enter
<1>9. idle' = Append(rest, p) /\ proc' = [kept EXCEPT ![p].at = Idle, ![p].phase = None]
      /\ UNCHANGED <<auth, slot, turn, drain, guard, task, dropped>>
  BY <1>3 DEF Enter, ended
<1> HIDE DEF rest, kept
<1>10. /\ ProcTypes' /\ proc'[p].at = Idle
       /\ \A q \in Proc : q # p => proc'[q] = kept[q]
  BY <1>5, <1>9 DEF PoolInv, Types, ProcTypes
<1>11. /\ idle' \in Seq(Proc) /\ DOMAIN idle' = 1 .. Len(rest) + 1
       /\ \A i \in 1 .. Len(rest) : idle'[i] = rest[i]
       /\ idle'[Len(rest) + 1] = p /\ Len(rest) \in Nat
  BY <1>4, <1>9
<1>12. Pooled'
  <2>1. \A i \in 1 .. Len(rest) : rest[i] # p /\ proc'[rest[i]].at = Idle
    BY <1>4, <1>5, <1>8, <1>10, PlacesApart
  <2>2. ASSUME NEW i \in DOMAIN idle' PROVE proc'[idle'[i]].at = Idle
    BY <1>10, <1>11, <2>1
  <2>3. ASSUME NEW i \in DOMAIN idle', NEW j \in DOMAIN idle', idle'[i] = idle'[j] PROVE i = j
    BY <1>5, <1>11, <2>1, <2>3
  <2> QED
    BY <2>2, <2>3 DEF Pooled
<1>13. HostTypes' /\ CallTypes'
  BY <1>9, <1>11 DEF PoolInv, Types, HostTypes, CallTypes
<1> DEFINE ps == Expired(m) \cup {p}
<1>14. /\ ps \subseteq Proc /\ \A q \in ps : proc[q].at \in {Idle, Quarantine}
       /\ \A q \in Proc : q \notin ps => proc'[q] = proc[q]
       /\ \A q \in ps : proc'[q].at \in {Gone, Idle} \/ \E g \in Handler : proc'[q].at = By(g)
  BY <1>5, <1>8, <1>10
<1> HIDE DEF ps
<1> QED
  BY <1>9, <1>10, <1>12, <1>13, <1>14, IdleFrame DEF Types
-----------------------------------------------------------------------------
LEMMA PoolInit == Init => PoolInv
<1> SUFFICES ASSUME Init PROVE PoolInv
  OBVIOUS
<1> USE NoProcess, Nobodies DEF Init
<1>1. ProcTypes /\ CallTypes
  BY DEF ProcTypes, CallTypes, NewProc, Rest
<1>2. HostTypes
  BY DEF HostTypes
<1>3. Pooled
  BY DEF Pooled
<1>4. ASSUME NEW h \in Handler PROVE Served(h)
  BY DEF Served, Rest, Owning, Holding
<1>5. ASSUME NEW p \in Proc PROVE Guarded(p) /\ Isolated(p) /\ Current(p)
  BY PlacesApart DEF Guarded, Isolated, Current, NewProc, Full
<1> QED
  BY <1>1, <1>2, <1>3, <1>4, <1>5 DEF PoolInv, Types

\* Every step of every actor keeps the invariant.
LEMMA PoolStep == PoolInv /\ [Next]_vars => PoolInv'
<1> SUFFICES ASSUME PoolInv, [Next]_vars PROVE PoolInv'
  OBVIOUS
<1>1. ASSUME NEW h \in Handler, Step(h) PROVE PoolInv'
  BY <1>1, GetStep, LockStep, UnpublishStep, CheckStep, ListedStep, BackStep, CallFailsStep,
     AcquireStep, PrepareStep, PreparedStep, SpawnStep, InstallStep, OccupiedStep, ReleasedStep
  DEF Step
<1>2. ASSUME NEW h \in Handler, Serve(h) \/ Abort(h) PROVE PoolInv'
  BY <1>2, ServeStep, AbortStep
<1>3. ASSUME NEW h \in Handler, NEW t \in Turn, Begin(h, t) PROVE PoolInv'
  BY <1>3, BeginStep
<1>4. ASSUME NEW p \in Proc, Process(p) \/ Reset(p) \/ Enter(p) PROVE PoolInv'
  BY <1>4, AnswerStep, NotifyStep, LateStep, ExitStep, ResetStep, EnterStep DEF Process
<1>5. ASSUME NEW t \in Turn, EndTurn(t) \/ Drain(t) PROVE PoolInv'
  BY <1>5, EndTurnStep, DrainStep
<1>6. CASE UNCHANGED vars
  BY <1>6 DEF vars, ended, PoolInv, Types, ProcTypes, CallTypes, HostTypes, Pooled, Served,
     Guarded, Isolated, Current, Listing, Told, Full
<1> QED
  BY <1>1, <1>2, <1>3, <1>4, <1>5, <1>6 DEF Next

\* Who holds and owns what, and what each process has told and been asked.
THEOREM Invariance == Spec => []PoolInv
BY PoolInit, PoolStep, PTL DEF Spec

\* Both halves of what the agent of a turn is shown: a process of its own Guru
\* and authority with no tools but those that this turn activated, and no change
\* of them missed (mcp_pool.rs:164, mcp_host.rs:1241).
THEOREM ShownToolsAreTheTurns == Spec => []ToolsAreTheTurns
<1>1. PoolInv => ToolsAreTheTurns
  <2> SUFFICES ASSUME PoolInv, NEW t \in Turn, NEW p \in Proc, Full(t, p)
               PROVE  /\ proc[p].key = auth[t] /\ proc[p].tools \cup proc[p].view \subseteq {t}
                      /\ guard[p] = Nobody /\ proc[p].up /\ p \notin dropped =>
                           proc[p].tools = proc[p].view \/ proc[p].changed \/ proc[p].note
    BY DEF ToolsAreTheTurns, TurnsAreIsolated, InventoryIsCurrent
  <2> QED
    BY DEF PoolInv, Isolated, Current, Listing, Told
<1> QED
  BY <1>1, Invariance, PTL
=============================================================================
