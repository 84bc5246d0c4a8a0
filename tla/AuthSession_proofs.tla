------------------------- MODULE AuthSession_proofs -------------------------
(***************************************************************************)
(* Proofs about the workbench's login session, for any number of worker    *)
(* threads, token pairs and starts.                                        *)
(*                                                                         *)
(* That a refresh is judged a replay only of a doubted pair depends on     *)
(* what the threads hold: a pair in hand for a refresh has not been given  *)
(* up for a successor unless it is doubted, and the successor on its way   *)
(* to the file is known to the thread that saves it and to nobody else     *)
(* (ThreadInv); the stored pair is current, or doubted, or about to be     *)
(* replaced (FileInv).  OwnInv keeps the numbers of pairs in order.        *)
(*                                                                         *)
(* The second part is about AccountLogin, for any number of tabs and       *)
(* sessions and any limit and length of the lock.  LockBoundsGuesses       *)
(* speaks of the past; GuessInv ties that past to the account row: the row *)
(* counts the wrong passwords, and once the limit is reached the lock ends *)
(* a lock's length after the last of them.  AbandonedIsExplained needs to  *)
(* know, of each tab that awaits a request or comes back from one, what    *)
(* its token was when it was sent (TabInv).                                *)
(***************************************************************************)
EXTENDS AuthSession, AccountLogin, TLAPS

Saves  == {"save", "saving"}
InHand == {"refresh", "save", "saving"}

OwnInv ==
    /\ \A k \in 1..issued : owner[k] \in 1..issued
    /\ \A s \in Sessions :
         /\ session[s].current <= issued /\ session[s].previous <= issued
         /\ s > issued => session[s].status = "ABSENT"
         /\ session[s].current # 0 => owner[session[s].current] = s
    /\ file <= issued
    /\ \A t \in Threads : thread[t].used <= issued /\ thread[t].new <= issued

\* What a thread that refreshes a pair knows of it.
RefreshInv(t) ==
    thread[t].pc = "refresh" =>
        /\ thread[t].used # 0
        /\ \A s \in Sessions :
             session[s].previous = thread[t].used => thread[t].used \in doubted

\* The pair that a thread is about to save.
SaveInv(t) ==
    thread[t].pc \in Saves =>
        LET n == thread[t].new IN
        /\ n # 0 /\ file # n
        /\ session[owner[n]].status = "ACTIVE" => session[owner[n]].current = n
        /\ \A s \in Sessions : session[s].previous # n
        /\ \A u \in Threads : /\ thread[u].used # n
                              /\ u # t /\ thread[u].pc \in Saves => thread[u].new # n

\* Two threads with one pair have been noticed.
OverlapInv(t) ==
    \A u \in Threads \ {t} :
        /\ thread[t].pc \in InHand /\ thread[u].pc \in InHand
        /\ thread[t].used # 0 /\ thread[u].used = thread[t].used
        => thread[t].used \in doubted

ThreadInv == \A t \in Threads : RefreshInv(t) /\ SaveInv(t) /\ OverlapInv(t)

\* The stored pair has a successor on the way.
Succeeded(k) == \E u \in Threads : thread[u].pc \in Saves /\ thread[u].used = k

FileInv ==
    file # 0 =>
        /\ session[owner[file]].status = "ACTIVE" =>
              \/ session[owner[file]].current = file
              \/ file \in doubted \/ Succeeded(file)
        /\ \A s \in Sessions :
              session[s].previous = file => file \in doubted \/ Succeeded(file)

IInv == TypeOK /\ OwnInv /\ ThreadInv /\ FileInv /\ ReplayIsExplained

-----------------------------------------------------------------------------
(***************************************************************************)
(* Types                                                                   *)
(***************************************************************************)

LEMMA StepFacts ==
    ASSUME TypeOK, NEW t \in Threads, NEW next \in Thread, Step(t, next)
    PROVE  /\ thread' \in [Threads -> Thread]
           /\ thread'[t] = next
           /\ \A u \in Threads \ {t} : thread'[u] = thread[u]
BY DEF TypeOK, Step

LEMMA ThreadFacts ==
    ASSUME TypeOK, NEW t \in Threads
    PROVE  /\ thread[t] \in Thread /\ Idle \in Thread
           /\ thread[t].pc \in PCs /\ thread[t].retried \in BOOLEAN
           /\ thread[t].used \in Pairs \union {0}
           /\ thread[t].new \in Pairs \union {0}
BY DEF TypeOK, Thread, Idle, PCs

LEMMA ReturnFacts ==
    ASSUME TypeOK, NEW t \in Threads, NEW ok \in BOOLEAN, Return(t, ok)
    PROVE  /\ Step(t, Idle) /\ app' \in Apps
           /\ thread' \in [Threads -> Thread]
           /\ thread'[t] = Idle
           /\ \A u \in Threads \ {t} : thread'[u] = thread[u]
<1>1. Step(t, Idle) /\ app' \in Apps
  BY DEF Return, TypeOK, Apps
<1>2. QED
  BY <1>1, StepFacts, ThreadFacts

\* A new pair, of a session of its own or of one that is rotated.
LEMMA IssueFacts ==
    ASSUME TypeOK, NEW s \in Sessions, NEW row \in Row, Issue(s, row)
    PROVE  /\ issued + 1 \in Pairs /\ issued' = issued + 1 /\ issued \in Nat
           /\ issued' \in 0..MaxPairs
           /\ owner' \in [Pairs -> Sessions \union {0}]
           /\ owner'[issued + 1] = s
           /\ \A k \in Pairs \ {issued + 1} : owner'[k] = owner[k]
           /\ session' \in [Sessions -> Row]
           /\ session'[s] = row
           /\ \A r \in Sessions \ {s} : session'[r] = session[r]
<1> USE AuthAssumption DEF AuthAssumption
<1>1. /\ issued + 1 \in Pairs /\ issued' = issued + 1 /\ issued \in Nat
      /\ issued' \in 0..MaxPairs
  BY DEF TypeOK, Issue, Pairs
<1>2. /\ owner' = [owner EXCEPT ![issued + 1] = s]
      /\ session' = [session EXCEPT ![s] = row]
      /\ owner \in [Pairs -> Sessions \union {0}] /\ session \in [Sessions -> Row]
  BY DEF TypeOK, Issue
<1>3. QED
  BY <1>1, <1>2

LEMMA RotateFacts ==
    ASSUME TypeOK, NEW k \in Pairs, Rotate(k)
    PROVE  \E s \in Sessions :
             /\ session[s].current = k /\ session[s].status = "ACTIVE"
             /\ issued + 1 \in Pairs /\ issued' = issued + 1 /\ issued \in Nat
             /\ issued' \in 0..MaxPairs
             /\ owner' \in [Pairs -> Sessions \union {0}]
             /\ owner'[issued + 1] = s
             /\ \A j \in Pairs \ {issued + 1} : owner'[j] = owner[j]
             /\ session' \in [Sessions -> Row]
             /\ session'[s] = [status |-> "ACTIVE", current |-> issued + 1,
                               previous |-> k]
             /\ \A r \in Sessions \ {s} : session'[r] = session[r]
<1>1. PICK s \in Sessions :
        /\ session[s].current = k /\ session[s].status = "ACTIVE"
        /\ Issue(s, [session[s] EXCEPT !.current = issued + 1, !.previous = k])
  BY DEF Rotate, IsCurrent
<1>2. issued + 1 \in Pairs
  BY <1>1, AuthAssumption DEF Issue, TypeOK, Pairs, AuthAssumption
<1>3. /\ session[s] \in Row
      /\ [session[s] EXCEPT !.current = issued + 1, !.previous = k]
           = [status |-> "ACTIVE", current |-> issued + 1, previous |-> k]
  <2>1. session[s] \in Row
    BY DEF TypeOK
  <2> DEFINE r1 == [session[s] EXCEPT !.current = issued + 1]
  <2>2. PICK st \in {"ABSENT", "ACTIVE", "EXPIRED", "REVOKED"},
             c \in Pairs \union {0}, p \in Pairs \union {0} :
          session[s] = [status |-> st, current |-> c, previous |-> p]
    BY <2>1 DEF Row
  <2>3. st = "ACTIVE"
    BY <1>1, <2>2
  <2>4. r1 = [status |-> "ACTIVE", current |-> issued + 1, previous |-> p]
    BY <2>2, <2>3
  <2> HIDE DEF r1
  <2>5. [r1 EXCEPT !.previous = k]
          = [status |-> "ACTIVE", current |-> issued + 1, previous |-> k]
    BY <2>4
  <2> USE DEF r1
  <2>6. QED
    BY <2>1, <2>5, Zenon
<1>4. [status |-> "ACTIVE", current |-> issued + 1, previous |-> k] \in Row
  BY <1>2 DEF Row
<1>5. QED
  BY <1>1, <1>3, <1>4, IssueFacts

LEMMA ReplayFacts ==
    ASSUME TypeOK, NEW k \in Pairs, Replay(k)
    PROVE  /\ session' \in [Sessions -> Row]
           /\ \A s \in Sessions :
                /\ session'[s].current = session[s].current
                /\ session'[s].previous = session[s].previous
                /\ session'[s].status \in {"ABSENT", "REVOKED"}
                /\ session[s].status = "ABSENT" => session'[s] = session[s]
                /\ session[s].status = "REVOKED" => session'[s] = session[s]
           /\ \E s \in Sessions : session[s].previous = k
           /\ UNCHANGED <<issued, owner>>
<1>1. ASSUME NEW s \in Sessions
      PROVE  /\ session[s] \in Row
             /\ [session[s] EXCEPT !.status = "REVOKED"] \in Row
             /\ [session[s] EXCEPT !.status = "REVOKED"]
                  = [status |-> "REVOKED", current |-> session[s].current,
                     previous |-> session[s].previous]
             /\ session[s].status = "REVOKED" =>
                  [session[s] EXCEPT !.status = "REVOKED"] = session[s]
  BY DEF TypeOK, Row
<1>2. \A s \in Sessions :
        session'[s] = IF session[s].status = "ABSENT" THEN session[s]
                      ELSE [session[s] EXCEPT !.status = "REVOKED"]
  BY DEF Replay
<1>3. session' \in [Sessions -> Row]
  BY <1>1 DEF Replay
<1>4. ASSUME NEW s \in Sessions
      PROVE  /\ session'[s].current = session[s].current
             /\ session'[s].previous = session[s].previous
             /\ session'[s].status \in {"ABSENT", "REVOKED"}
             /\ session[s].status = "ABSENT" => session'[s] = session[s]
             /\ session[s].status = "REVOKED" => session'[s] = session[s]
  <2>1. CASE session[s].status = "ABSENT"
    BY <1>2, <2>1
  <2>2. CASE session[s].status # "ABSENT"
    <3>1. session'[s] = [session[s] EXCEPT !.status = "REVOKED"]
      BY <1>2, <2>2
    <3>2. session'[s] = [status |-> "REVOKED", current |-> session[s].current,
                         previous |-> session[s].previous]
      BY <1>1, <3>1
    <3>3. /\ session'[s].current = session[s].current
          /\ session'[s].previous = session[s].previous
          /\ session'[s].status = "REVOKED"
      BY <3>2
    <3>4. session[s].status = "REVOKED" => session'[s] = session[s]
      BY <1>1, <3>1
    <3>5. QED
      BY <2>2, <3>3, <3>4
  <2>3. QED
    BY <2>1, <2>2
<1>5. /\ \E s \in Sessions : session[s].previous = k
      /\ UNCHANGED <<issued, owner>>
  BY DEF Replay, IsPrevious
<1>6. QED
  BY <1>3, <1>4, <1>5

-----------------------------------------------------------------------------
(***************************************************************************)
(* Steps that neither rotate a pair nor touch the file                     *)
(***************************************************************************)

\* A session stays as it is, or stops being active.
Falls(s) ==
    /\ session'[s].current = session[s].current
    /\ session'[s].previous = session[s].previous
    /\ session'[s].status = session[s].status \/ session'[s].status # "ACTIVE"
    /\ session[s].status = "ABSENT" => session'[s].status = "ABSENT"

\* A thread stays where it is, or lets go of what it had, not having begun to
\* save.
Rests(u) ==
    \/ thread'[u] = thread[u]
    \/ /\ thread[u].pc \notin Saves /\ thread'[u].pc \notin InHand
       /\ thread'[u].used \in {0, thread[u].used, file}
       /\ thread'[u].new \in {0, thread[u].new}

\* The pairs that the tables know and their owners are in range.
LEMMA OwnerFacts ==
    ASSUME TypeOK, OwnInv
    PROVE  /\ issued \in Nat /\ issued <= MaxPairs
           /\ \A k \in Pairs \union {0} :
                k # 0 /\ k <= issued => owner[k] \in Sessions /\ owner[k] <= issued
<1>1. issued \in Nat /\ issued <= MaxPairs /\ MaxPairs \in Nat
  BY AuthAssumption DEF TypeOK, AuthAssumption
<1>2. \A k \in Pairs \union {0} : k # 0 /\ k <= issued => k \in 1..issued
  BY <1>1 DEF Pairs
<1>3. \A k \in 1..issued : owner[k] \in Sessions /\ owner[k] <= issued
  BY <1>1 DEF OwnInv, Sessions, Pairs
<1>4. QED
  BY <1>1, <1>2, <1>3

LEMMA Calm ==
    ASSUME IInv, \A s \in Sessions : Falls(s), \A u \in Threads : Rests(u),
           UNCHANGED <<issued, owner, file>>, doubted \subseteq doubted'
    PROVE  OwnInv' /\ ThreadInv' /\ FileInv'
<1> USE DEF IInv
<1>0. /\ issued \in Nat
      /\ file \in Pairs \union {0} /\ file <= issued
      /\ \A t \in Threads : /\ thread[t].used \in Pairs \union {0}
                            /\ thread[t].new \in Pairs \union {0}
                            /\ thread[t].used <= issued /\ thread[t].new <= issued
  BY OwnerFacts, ThreadFacts DEF OwnInv, TypeOK
<1>1. OwnInv'
  <2>1. \A s \in Sessions :
          /\ session'[s].current <= issued /\ session'[s].previous <= issued
          /\ s > issued => session'[s].status = "ABSENT"
          /\ session'[s].current # 0 => owner[session'[s].current] = s
    BY DEF OwnInv, Falls
  <2>2. \A t \in Threads : thread'[t].used <= issued /\ thread'[t].new <= issued
    BY <1>0 DEF Rests
  <2>3. QED
    BY <2>1, <2>2 DEF OwnInv
<1>2. ASSUME NEW u \in Threads
      PROVE  (RefreshInv(u) /\ SaveInv(u) /\ OverlapInv(u))'
  <2>0. RefreshInv(u) /\ SaveInv(u) /\ OverlapInv(u) /\ Rests(u)
    BY DEF ThreadInv
  <2>1. RefreshInv(u)'
    BY <2>0 DEF RefreshInv, Falls, Rests, InHand
  <2>2. SaveInv(u)'
    <3> DEFINE n == thread[u].new
    <3> SUFFICES ASSUME thread'[u].pc \in Saves
                 PROVE  /\ thread'[u].new # 0 /\ file # thread'[u].new
                        /\ session'[owner[thread'[u].new]].status = "ACTIVE"
                             => session'[owner[thread'[u].new]].current
                                  = thread'[u].new
                        /\ \A s \in Sessions : session'[s].previous # thread'[u].new
                        /\ \A v \in Threads :
                             /\ thread'[v].used # thread'[u].new
                             /\ v # u /\ thread'[v].pc \in Saves
                                  => thread'[v].new # thread'[u].new
      BY DEF SaveInv
    <3>1. thread'[u] = thread[u] /\ thread[u].pc \in Saves
      BY <2>0 DEF Rests, Saves, InHand
    <3>2. /\ n # 0 /\ file # n
          /\ session[owner[n]].status = "ACTIVE" => session[owner[n]].current = n
          /\ \A s \in Sessions : session[s].previous # n
          /\ \A v \in Threads : /\ thread[v].used # n
                                /\ v # u /\ thread[v].pc \in Saves
                                     => thread[v].new # n
      BY <2>0, <3>1 DEF SaveInv
    <3>3. owner[n] \in Sessions
      BY <1>0, <3>2, OwnerFacts
    <3>4. session'[owner[n]].status = "ACTIVE" => session'[owner[n]].current = n
      BY <3>2, <3>3 DEF Falls
    <3>5. \A s \in Sessions : session'[s].previous # n
      BY <3>2 DEF Falls
    <3>6. \A v \in Threads : /\ thread'[v].used # n
                             /\ v # u /\ thread'[v].pc \in Saves
                                  => thread'[v].new # n
      BY <3>2 DEF Rests, Saves, InHand
    <3>7. QED
      BY <3>1, <3>2, <3>4, <3>5, <3>6
  <2>3. OverlapInv(u)'
    BY <2>0 DEF OverlapInv, Rests, InHand
  <2>4. QED
    BY <2>1, <2>2, <2>3
<1>3. FileInv'
  <2>1. Succeeded(file) => Succeeded(file)'
    BY DEF Succeeded, Rests
  <2>2. CASE file = 0
    BY <2>2 DEF FileInv
  <2>3. CASE file # 0
    <3>1. owner[file] \in Sessions
      BY <1>0, <2>3, OwnerFacts
    <3>2. Falls(owner[file])
      BY <3>1
    <3>3. session'[owner[file]].status = "ACTIVE" =>
            session'[owner[file]].current = file \/ file \in doubted' \/ Succeeded(file)'
      BY <2>1, <2>3, <3>2 DEF FileInv, Falls
    <3>4. \A s \in Sessions :
            session'[s].previous = file => file \in doubted' \/ Succeeded(file)'
      BY <2>1, <2>3 DEF FileInv, Falls
    <3>5. Succeeded(file)' = \E v \in Threads : thread'[v].pc \in Saves
                                                /\ thread'[v].used = file
      BY DEF Succeeded
    <3>6. QED
      BY <3>3, <3>4, <3>5 DEF FileInv, Succeeded
  <2>4. QED
    BY <2>2, <2>3
<1>4. QED
  BY <1>1, <1>2, <1>3 DEF ThreadInv

\* One thread rests or lets go, the others wait.
LEMMA RestStep ==
    ASSUME TypeOK, NEW t \in Threads, NEW next \in Thread, Step(t, next),
           thread[t].pc \notin Saves, next.pc \notin InHand,
           next.used \in {0, thread[t].used, file}, next.new \in {0, thread[t].new}
    PROVE  \A u \in Threads : Rests(u)
BY StepFacts DEF Rests

LEMMA RangeFacts ==
    ASSUME TypeOK, OwnInv
    PROVE  /\ file \in Pairs \union {0} /\ file <= issued
           /\ \A t \in Threads : /\ thread[t].used \in Pairs \union {0}
                                 /\ thread[t].new \in Pairs \union {0}
                                 /\ thread[t].used <= issued
                                 /\ thread[t].new <= issued
           /\ \A s \in Sessions : /\ session[s].current \in Pairs \union {0}
                                  /\ session[s].previous \in Pairs \union {0}
                                  /\ session[s].current <= issued
                                  /\ session[s].previous <= issued
<1>1. \A s \in Sessions : session[s] \in Row
  BY DEF TypeOK
<1>2. QED
  BY <1>1, ThreadFacts DEF OwnInv, TypeOK, Row

-----------------------------------------------------------------------------
(***************************************************************************)
(* A refresh: the pair is loaded, rotated and saved                        *)
(***************************************************************************)

\* The stored pair is loaded to be refreshed: what FileInv says of the file
\* becomes what RefreshInv says of the thread.
LEMMA Loads ==
    ASSUME IInv, NEW t \in Threads, Reload(t), file # 0
    PROVE  OwnInv' /\ ThreadInv' /\ FileInv' /\ doubted \subseteq doubted'
<1> USE DEF IInv
<1> DEFINE next == [thread[t] EXCEPT !.pc = "refresh", !.used = file]
<1>1. /\ Step(t, next) /\ thread[t].pc = "reload"
      /\ doubted' = IF Refreshing(file) = {} THEN doubted ELSE doubted \union {file}
      /\ UNCHANGED <<session, issued, owner, file>>
  BY DEF Reload
<1>2. /\ next \in Thread /\ next.pc = "refresh" /\ next.used = file
      /\ next.new = thread[t].new
  BY ThreadFacts, RangeFacts DEF Thread, PCs
<1> HIDE DEF next
<1>3. /\ thread'[t] = next
      /\ \A u \in Threads \ {t} : thread'[u] = thread[u]
  BY <1>1, <1>2, StepFacts
<1>4. /\ doubted \subseteq doubted'
      /\ \A u \in Threads : thread[u].pc \in InHand /\ thread[u].used = file
            => file \in doubted'
      /\ Succeeded(file) => file \in doubted'
  BY <1>1 DEF Refreshing, Succeeded, Saves, InHand
<1>5. OwnInv'
  BY <1>1, <1>2, <1>3, RangeFacts DEF OwnInv
<1>6. RefreshInv(t)' /\ SaveInv(t)' /\ OverlapInv(t)'
  <2>1. RefreshInv(t)'
    BY <1>1, <1>2, <1>3, <1>4 DEF RefreshInv, FileInv
  <2>2. SaveInv(t)'
    BY <1>2, <1>3 DEF SaveInv, Saves
  <2>3. OverlapInv(t)'
    BY <1>2, <1>3, <1>4 DEF OverlapInv
  <2>4. QED
    BY <2>1, <2>2, <2>3
<1>7. ASSUME NEW u \in Threads \ {t}
      PROVE  (RefreshInv(u) /\ SaveInv(u) /\ OverlapInv(u))'
  <2>0. thread'[u] = thread[u] /\ RefreshInv(u) /\ SaveInv(u) /\ OverlapInv(u)
    BY <1>3 DEF ThreadInv
  <2>1. RefreshInv(u)'
    BY <1>1, <1>4, <2>0 DEF RefreshInv
  <2>2. SaveInv(u)'
    BY <1>1, <1>2, <1>3, <2>0 DEF SaveInv, Saves
  <2>3. OverlapInv(u)'
    BY <1>2, <1>3, <1>4, <2>0 DEF OverlapInv
  <2>4. QED
    BY <2>1, <2>2, <2>3
<1>8. FileInv'
  <2>1. \A v \in Threads : thread[v].pc \in Saves => thread'[v] = thread[v]
    BY <1>1, <1>3 DEF Saves
  <2>2. Succeeded(file) => Succeeded(file)'
    BY <2>1, <1>1 DEF Succeeded
  <2>3. QED
    BY <1>1, <1>4, <2>2 DEF FileInv
<1>9. QED
  BY <1>4, <1>5, <1>6, <1>7, <1>8 DEF ThreadInv

\* A pair is rotated and its thread gets the new pair, or learns nothing.
LEMMA Rotates ==
    ASSUME IInv, NEW t \in Threads, thread[t].pc = "refresh",
           Rotate(thread[t].used), UNCHANGED file,
           \/ /\ Step(t, [thread[t] EXCEPT !.pc = "save", !.new = issued + 1])
              /\ UNCHANGED doubted
           \/ /\ Step(t, Idle)
              /\ doubted' = doubted \union {thread[t].used}
    PROVE  OwnInv' /\ ThreadInv' /\ FileInv' /\ doubted \subseteq doubted'
<1> USE DEF IInv
<1> DEFINE k == thread[t].used  n == issued + 1
           saves == [thread[t] EXCEPT !.pc = "save", !.new = issued + 1]
<1>0. RefreshInv(t) /\ OverlapInv(t)
  BY DEF ThreadInv
<1>1. k # 0 /\ k \in Pairs /\ k <= issued
  BY <1>0, RangeFacts DEF RefreshInv
<1>2. PICK s \in Sessions :
        /\ session[s].current = k /\ session[s].status = "ACTIVE"
        /\ n \in Pairs /\ issued' = n /\ issued \in Nat
        /\ owner'[n] = s
        /\ \A j \in Pairs \ {n} : owner'[j] = owner[j]
        /\ session'[s] = [status |-> "ACTIVE", current |-> n, previous |-> k]
        /\ \A r \in Sessions \ {s} : session'[r] = session[r]
  BY <1>1, RotateFacts
<1>3. /\ session'[s].status = "ACTIVE" /\ session'[s].current = n
      /\ session'[s].previous = k
  BY <1>2
<1>4. saves \in Thread /\ saves.pc = "save" /\ saves.new = n /\ saves.used = k
  BY <1>2, ThreadFacts DEF Thread, PCs
<1>5. /\ doubted \subseteq doubted'
      /\ \A u \in Threads \ {t} : thread'[u] = thread[u]
      /\ \/ thread'[t] = saves
         \/ thread'[t] = Idle /\ k \in doubted'
  <2>1. CASE Step(t, saves) /\ UNCHANGED doubted
    BY <1>4, <2>1, StepFacts
  <2>2. CASE Step(t, Idle) /\ doubted' = doubted \union {k}
    BY <2>2, ThreadFacts, StepFacts
  <2>3. QED
    BY <2>1, <2>2
<1> HIDE DEF saves
<1>6. Idle.pc = "idle" /\ Idle.used = 0 /\ Idle.new = 0
  BY DEF Idle
<1>7. \A j \in Pairs \union {0} : j # 0 /\ j <= issued =>
        owner'[j] = owner[j] /\ owner[j] \in Sessions /\ j # n /\ owner[j] <= issued
  BY <1>2, OwnerFacts DEF Pairs
<1>8. s <= issued /\ owner[k] = s
  BY <1>1, <1>2 DEF OwnInv, Sessions, Pairs
<1>9. OwnInv'
  <2>1. \A j \in 1..issued' : owner'[j] \in 1..issued'
    <3> SUFFICES ASSUME NEW j \in 1..issued'
                 PROVE  owner'[j] \in 1..issued'
      OBVIOUS
    <3>1. CASE j = n
      <4>1. s \in Nat /\ s >= 1 /\ s <= issued
        BY <1>8 DEF Sessions, Pairs
      <4>2. QED
        BY <1>2, <3>1, <4>1
    <3>2. CASE j # n
      <4>1. j \in 1..issued /\ j \in Pairs \ {n}
        BY <1>2, <3>2, AuthAssumption DEF Pairs, AuthAssumption
      <4>2. owner'[j] = owner[j] /\ owner[j] \in 1..issued
        BY <1>2, <4>1 DEF OwnInv
      <4>3. QED
        BY <1>2, <4>2
    <3>3. QED
      BY <3>1, <3>2
  <2>2. \A r \in Sessions :
          /\ session'[r].current <= issued' /\ session'[r].previous <= issued'
          /\ r > issued' => session'[r].status = "ABSENT"
          /\ session'[r].current # 0 => owner'[session'[r].current] = r
    <3> SUFFICES ASSUME NEW r \in Sessions
                 PROVE  /\ session'[r].current <= issued'
                        /\ session'[r].previous <= issued'
                        /\ r > issued' => session'[r].status = "ABSENT"
                        /\ session'[r].current # 0
                             => owner'[session'[r].current] = r
      OBVIOUS
    <3>1. CASE r = s
      BY <1>1, <1>2, <1>3, <1>8, <3>1 DEF Sessions, Pairs
    <3>2. CASE r # s
      <4>1. /\ session'[r] = session[r] /\ issued' = issued + 1
            /\ session[r].current \in Nat /\ session[r].previous \in Nat
            /\ session[r].current \in Pairs \union {0}
            /\ session[r].current <= issued /\ session[r].previous <= issued
        BY <1>2, <3>2, RangeFacts DEF Pairs
      <4>2. r > issued' => session[r].status = "ABSENT"
        BY <1>2 DEF OwnInv, Sessions, Pairs
      <4>3. session[r].current # 0 => owner'[session[r].current] = r
        BY <1>7, <4>1 DEF OwnInv
      <4>4. QED
        BY <1>2, <4>1, <4>2, <4>3
    <3>3. QED
      BY <3>1, <3>2
  <2>3. /\ file' <= issued'
        /\ \A u \in Threads : thread'[u].used <= issued' /\ thread'[u].new <= issued'
    <3>1. /\ \A j \in Pairs \union {0} : j <= issued => j <= issued'
          /\ n <= issued' /\ 0 <= issued'
      BY <1>2 DEF Pairs
    <3>2. QED
      BY <1>1, <1>4, <1>5, <1>6, <3>1, RangeFacts
  <2>4. QED
    BY <2>1, <2>2, <2>3 DEF OwnInv
<1>10. \A r \in Sessions :
         session'[r].previous = k \/ session'[r].previous = session[r].previous
  BY <1>2, <1>3
<1>11. \A r \in Sessions : session'[r].previous # n
  BY <1>2, <1>1, <1>10, RangeFacts DEF Pairs
<1>12. \A u \in Threads : thread[u].used # n /\ thread[u].new # n /\ file # n
  BY <1>2, RangeFacts DEF Pairs
<1>13. RefreshInv(t)' /\ SaveInv(t)' /\ OverlapInv(t)'
  <2>1. RefreshInv(t)'
    BY <1>4, <1>5, <1>6 DEF RefreshInv
  <2>2. SaveInv(t)'
    <3>1. CASE thread'[t] = Idle
      BY <1>6, <3>1 DEF SaveInv, Saves
    <3>2. CASE thread'[t] = saves
      <4>1. /\ thread'[t].new = n /\ n # 0 /\ file' # n
            /\ session'[owner'[n]].current = n
        BY <1>2, <1>3, <1>4, <1>12, <3>2
      <4>2. \A u \in Threads : /\ thread'[u].used # n
                               /\ u # t => thread'[u].new # n
        BY <1>1, <1>2, <1>4, <1>5, <1>12, <3>2
      <4>3. QED
        BY <1>11, <4>1, <4>2 DEF SaveInv
    <3>3. QED
      BY <1>5, <3>1, <3>2
  <2>3. OverlapInv(t)'
    BY <1>0, <1>4, <1>5, <1>6 DEF OverlapInv, InHand
  <2>4. QED
    BY <2>1, <2>2, <2>3
<1>14. ASSUME NEW u \in Threads \ {t}
       PROVE  (RefreshInv(u) /\ SaveInv(u) /\ OverlapInv(u))'
  <2>0. thread'[u] = thread[u] /\ RefreshInv(u) /\ SaveInv(u) /\ OverlapInv(u)
    BY <1>5 DEF ThreadInv
  <2>1. RefreshInv(u)'
    <3>1. CASE thread[u].used = k
      <4>1. thread[u].pc = "refresh" => k \in doubted
        BY <1>0, <1>1, <3>1 DEF OverlapInv, InHand
      <4>2. QED
        BY <1>5, <2>0, <3>1, <4>1, <1>1 DEF RefreshInv
    <3>2. CASE thread[u].used # k
      BY <1>5, <1>10, <2>0, <3>2 DEF RefreshInv
    <3>3. QED
      BY <3>1, <3>2
  <2>2. SaveInv(u)'
    <3> DEFINE m == thread[u].new
    <3>1. CASE thread[u].pc \notin Saves
      BY <2>0, <3>1 DEF SaveInv
    <3>2. CASE thread[u].pc \in Saves
      <4>1. /\ m # 0 /\ file # m
            /\ session[owner[m]].status = "ACTIVE" => session[owner[m]].current = m
            /\ \A r \in Sessions : session[r].previous # m
            /\ \A v \in Threads : /\ thread[v].used # m
                                  /\ v # u /\ thread[v].pc \in Saves
                                       => thread[v].new # m
        BY <2>0, <3>2 DEF SaveInv
      <4>2. m # k /\ m # n /\ owner'[m] = owner[m] /\ owner[m] \in Sessions
        BY <1>7, <1>12, <4>1, RangeFacts
      <4>3. owner[m] # s
        BY <1>2, <4>1, <4>2
      <4>4. session'[owner'[m]] = session[owner[m]]
        BY <1>2, <4>2, <4>3
      <4>5. \A r \in Sessions : session'[r].previous # m
        BY <1>10, <4>1, <4>2
      <4>6. \A v \in Threads : /\ thread'[v].used # m
                               /\ v # u /\ thread'[v].pc \in Saves
                                    => thread'[v].new # m
        BY <1>4, <1>5, <1>6, <4>1, <4>2 DEF Saves
      <4>7. QED
        BY <2>0, <4>1, <4>4, <4>5, <4>6 DEF SaveInv
    <3>3. QED
      BY <3>1, <3>2
  <2>3. OverlapInv(u)'
    <3>1. ASSUME NEW v \in Threads \ {u},
                 thread'[u].pc \in InHand, thread'[v].pc \in InHand,
                 thread'[u].used # 0, thread'[v].used = thread'[u].used
          PROVE  thread'[u].used \in doubted'
      <4>1. /\ thread[v].pc \in InHand /\ thread[v].used = thread'[v].used
        BY <1>4, <1>5, <1>6, <3>1 DEF InHand
      <4>2. QED
        BY <1>5, <2>0, <3>1, <4>1 DEF OverlapInv
    <3>2. QED
      BY <3>1 DEF OverlapInv
  <2>4. QED
    BY <2>1, <2>2, <2>3
<1>15. FileInv'
  <2>1. \A v \in Threads : thread[v].pc \in Saves => thread'[v] = thread[v]
    BY <1>5 DEF Saves
  <2>2. Succeeded(file) => Succeeded(file)'
    BY <2>1 DEF Succeeded
  <2>3. file = k => file \in doubted' \/ Succeeded(file)'
    BY <1>4, <1>5 DEF Succeeded, Saves
  <2>4. CASE file = 0
    BY <2>4 DEF FileInv
  <2>5. CASE file # 0
    <3>1. owner'[file] = owner[file] /\ owner[file] \in Sessions
      BY <1>7, <2>5, RangeFacts
    <3>2. session'[owner[file]].status = "ACTIVE" =>
            \/ session'[owner[file]].current = file
            \/ file \in doubted' \/ Succeeded(file)'
      <4>1. CASE owner[file] = s
        BY <1>2, <1>5, <2>2, <2>3, <2>5, <4>1 DEF FileInv
      <4>2. CASE owner[file] # s
        BY <1>2, <1>5, <2>2, <2>5, <3>1, <4>2 DEF FileInv
      <4>3. QED
        BY <4>1, <4>2
    <3>3. \A r \in Sessions :
            session'[r].previous = file => file \in doubted' \/ Succeeded(file)'
      BY <1>5, <1>10, <2>2, <2>3, <2>5 DEF FileInv
    <3>4. QED
      BY <3>1, <3>2, <3>3 DEF FileInv, Succeeded
  <2>6. QED
    BY <2>4, <2>5
<1>16. QED
  BY <1>5, <1>9, <1>13, <1>14, <1>15 DEF ThreadInv

\* The file is emptied for the new pair.
LEMMA Empties ==
    ASSUME IInv, NEW t \in Threads, SaveBegin(t)
    PROVE  OwnInv' /\ ThreadInv' /\ FileInv'
<1> USE DEF IInv
<1> DEFINE next == [thread[t] EXCEPT !.pc = "saving"]
<1>1. /\ Step(t, next) /\ thread[t].pc = "save" /\ file' = 0
      /\ UNCHANGED <<session, issued, owner, doubted>>
  BY DEF SaveBegin
<1>2. /\ next \in Thread /\ next.pc = "saving" /\ next.used = thread[t].used
      /\ next.new = thread[t].new
  BY ThreadFacts DEF Thread, PCs
<1> HIDE DEF next
<1>3. \A u \in Threads :
        /\ thread'[u].used = thread[u].used /\ thread'[u].new = thread[u].new
        /\ thread'[u].pc \in Saves <=> thread[u].pc \in Saves
        /\ thread'[u].pc \in InHand <=> thread[u].pc \in InHand
        /\ thread'[u].pc = "refresh" <=> thread[u].pc = "refresh"
  BY <1>1, <1>2, StepFacts DEF Saves, InHand
<1>4. OwnInv'
  BY <1>1, <1>3, OwnerFacts DEF OwnInv
<1>5. ASSUME NEW u \in Threads
      PROVE  (RefreshInv(u) /\ SaveInv(u) /\ OverlapInv(u))'
  <2>0. RefreshInv(u) /\ SaveInv(u) /\ OverlapInv(u)
    BY DEF ThreadInv
  <2>1. RefreshInv(u)'
    BY <1>1, <1>3, <2>0 DEF RefreshInv
  <2>2. SaveInv(u)'
    BY <1>1, <1>3, <2>0 DEF SaveInv
  <2>3. OverlapInv(u)'
    BY <1>1, <1>3, <2>0 DEF OverlapInv
  <2>4. QED
    BY <2>1, <2>2, <2>3
<1>6. FileInv'
  BY <1>1 DEF FileInv
<1>7. QED
  BY <1>4, <1>5, <1>6 DEF ThreadInv

\* The new pair is in the file: what SaveInv says of it becomes FileInv.
LEMMA Stores ==
    ASSUME IInv, NEW t \in Threads, SaveEnd(t)
    PROVE  OwnInv' /\ ThreadInv' /\ FileInv'
<1> USE DEF IInv
<1> DEFINE n == thread[t].new
<1>1. /\ thread[t].pc \in Saves /\ file' = n
      /\ UNCHANGED <<session, issued, owner, doubted>>
  BY DEF SaveEnd, Saves
<1>2. PICK next \in Thread :
        Step(t, next) /\ next.pc \notin InHand /\ next.used = 0 /\ next.new = 0
  <2>1. Idle \in Thread /\ [Idle EXCEPT !.pc = "resend"] \in Thread
    BY DEF Idle, Thread, PCs
  <2>2. QED
    BY <2>1 DEF SaveEnd, Idle, InHand
<1>3. thread'[t] = next /\ \A u \in Threads \ {t} : thread'[u] = thread[u]
  BY <1>2, StepFacts
<1>4. /\ n # 0 /\ n \in Pairs \union {0} /\ n <= issued
      /\ session[owner[n]].status = "ACTIVE" => session[owner[n]].current = n
      /\ \A s \in Sessions : session[s].previous # n
      /\ \A u \in Threads : /\ thread[u].used # n
                            /\ u # t /\ thread[u].pc \in Saves => thread[u].new # n
  BY <1>1, RangeFacts DEF ThreadInv, SaveInv
<1>5. OwnInv'
  BY <1>1, <1>2, <1>3, <1>4, OwnerFacts DEF OwnInv
<1>6. ASSUME NEW u \in Threads
      PROVE  (RefreshInv(u) /\ SaveInv(u) /\ OverlapInv(u))'
  <2>1. CASE u = t
    <3>1. RefreshInv(u)' /\ SaveInv(u)'
      BY <1>2, <1>3, <2>1 DEF RefreshInv, SaveInv, InHand, Saves
    <3>2. OverlapInv(u)'
      BY <1>2, <1>3, <2>1 DEF OverlapInv
    <3>3. QED
      BY <3>1, <3>2
  <2>2. CASE u # t
    <3>0. thread'[u] = thread[u] /\ RefreshInv(u) /\ SaveInv(u) /\ OverlapInv(u)
      BY <1>3, <2>2 DEF ThreadInv
    <3>1. RefreshInv(u)'
      BY <1>1, <3>0 DEF RefreshInv
    <3>2. SaveInv(u)'
      <4>1. thread[u].pc \in Saves => file' # thread[u].new
        BY <1>1, <1>4, <2>2
      <4>2. \A v \in Threads :
              /\ thread'[v].used = thread[v].used \/ thread'[v].used = 0
              /\ thread'[v].pc \in Saves => thread'[v] = thread[v]
        BY <1>2, <1>3 DEF InHand, Saves
      <4>3. QED
        BY <1>1, <3>0, <4>1, <4>2 DEF SaveInv
    <3>3. OverlapInv(u)'
      BY <1>1, <1>2, <1>3, <3>0 DEF OverlapInv
    <3>4. QED
      BY <3>1, <3>2, <3>3
  <2>3. QED
    BY <2>1, <2>2
<1>7. FileInv'
  BY <1>1, <1>4 DEF FileInv
<1>8. QED
  BY <1>5, <1>6, <1>7 DEF ThreadInv

-----------------------------------------------------------------------------
(***************************************************************************)
(* The workbench                                                           *)
(***************************************************************************)

\* A login begins a session of its own with the next pair.
LEMMA LogsIn ==
    ASSUME IInv, NEW answered \in BOOLEAN, Login(answered)
    PROVE  OwnInv' /\ ThreadInv' /\ FileInv'
<1> USE DEF IInv
<1> DEFINE n == issued + 1
           row == [status |-> "ACTIVE", current |-> n, previous |-> 0]
           saves == [Idle EXCEPT !.pc = "save", !.new = n]
<1>0. UI \in Threads /\ thread[UI].pc = "idle"
  BY DEF Login, Threads
<1>1. /\ Issue(n, row) /\ UNCHANGED <<file, doubted>>
      /\ Step(UI, saves) \/ UNCHANGED thread
  BY DEF Login
<1>2. n \in Pairs /\ n \in Sessions
  BY <1>1, AuthAssumption DEF Issue, TypeOK, Pairs, Sessions, AuthAssumption
<1>3. row \in Row
  BY <1>2 DEF Row
<1>4. /\ issued' = n /\ issued \in Nat /\ owner'[n] = n
      /\ \A j \in Pairs \ {n} : owner'[j] = owner[j]
      /\ session'[n] = row
      /\ \A r \in Sessions \ {n} : session'[r] = session[r]
  BY <1>1, <1>2, <1>3, IssueFacts
<1>5. row.status = "ACTIVE" /\ row.current = n /\ row.previous = 0
  OBVIOUS
<1>6. saves \in Thread /\ saves.pc = "save" /\ saves.new = n /\ saves.used = 0
  BY <1>2 DEF Idle, Thread, PCs
<1> HIDE DEF row, saves
<1>7. /\ \A u \in Threads \ {UI} : thread'[u] = thread[u]
      /\ thread'[UI] = saves \/ thread'[UI] = thread[UI]
  BY <1>0, <1>1, <1>6, StepFacts
<1>8. \A j \in Pairs \union {0} : j # 0 /\ j <= issued =>
        /\ owner'[j] = owner[j] /\ owner[j] \in Sessions /\ j # n
        /\ owner[j] # n /\ session'[owner[j]] = session[owner[j]]
  <2>1. \A j \in Pairs \union {0} : j # 0 /\ j <= issued =>
          j # n /\ owner[j] # n
    BY <1>4, OwnerFacts DEF Pairs, Sessions
  <2>2. QED
    BY <1>4, <2>1, OwnerFacts
<1>9. \A r \in Sessions :
        session'[r].previous = 0 \/ session'[r].previous = session[r].previous
  BY <1>4, <1>5
<1>10. OwnInv'
  <2>1. \A j \in 1..issued' : owner'[j] \in 1..issued'
    <3> SUFFICES ASSUME NEW j \in 1..issued'
                 PROVE  owner'[j] \in 1..issued'
      OBVIOUS
    <3>1. CASE j = n
      BY <1>4, <3>1
    <3>2. CASE j # n
      <4>1. j \in 1..issued /\ j \in Pairs \ {n}
        BY <1>2, <1>4, <3>2, AuthAssumption DEF Pairs, AuthAssumption
      <4>2. owner'[j] = owner[j] /\ owner[j] \in 1..issued
        BY <1>4, <4>1 DEF OwnInv
      <4>3. QED
        BY <1>4, <4>2
    <3>3. QED
      BY <3>1, <3>2
  <2>2. ASSUME NEW r \in Sessions
        PROVE  /\ session'[r].current <= issued'
               /\ session'[r].previous <= issued'
               /\ r > issued' => session'[r].status = "ABSENT"
               /\ session'[r].current # 0 => owner'[session'[r].current] = r
    <3>1. CASE r = n
      BY <1>4, <1>5, <3>1
    <3>2. CASE r # n
      <4>1. /\ session'[r] = session[r]
            /\ session[r].current \in Nat /\ session[r].previous \in Nat
            /\ session[r].current \in Pairs \union {0}
            /\ session[r].current <= issued /\ session[r].previous <= issued
        BY <1>4, <3>2, RangeFacts DEF Pairs
      <4>2. r > issued' => session[r].status = "ABSENT"
        BY <1>4 DEF OwnInv, Sessions, Pairs
      <4>3. session[r].current # 0 => owner'[session[r].current] = r
        BY <1>8, <4>1 DEF OwnInv
      <4>4. QED
        BY <1>4, <4>1, <4>2, <4>3
    <3>3. QED
      BY <3>1, <3>2
  <2>3. /\ file' <= issued'
        /\ \A u \in Threads : thread'[u].used <= issued' /\ thread'[u].new <= issued'
    <3>1. /\ \A j \in Pairs \union {0} : j <= issued => j <= issued'
          /\ n <= issued' /\ 0 <= issued'
      BY <1>4 DEF Pairs
    <3>2. QED
      BY <1>1, <1>6, <1>7, <3>1, RangeFacts
  <2>4. QED
    BY <2>1, <2>2, <2>3 DEF OwnInv
<1>11. \A u \in Threads : thread[u].used # n /\ thread[u].new # n /\ file # n
  BY <1>4, RangeFacts DEF Pairs
<1>12. \A r \in Sessions : session'[r].previous # n
  BY <1>4, <1>9, RangeFacts DEF Pairs
<1>13. ASSUME NEW u \in Threads
       PROVE  (RefreshInv(u) /\ SaveInv(u) /\ OverlapInv(u))'
  <2>0. RefreshInv(u) /\ SaveInv(u) /\ OverlapInv(u)
    BY DEF ThreadInv
  <2>1. RefreshInv(u)'
    <3>1. thread'[u].pc = "refresh" => thread'[u] = thread[u]
      BY <1>6, <1>7
    <3>2. QED
      BY <1>1, <1>9, <2>0, <3>1 DEF RefreshInv
  <2>2. SaveInv(u)'
    <3>1. CASE thread'[u] = thread[u] /\ thread[u].pc \notin Saves
      BY <3>1 DEF SaveInv
    <3>2. CASE thread'[u] = thread[u] /\ thread[u].pc \in Saves
      <4> DEFINE m == thread[u].new
      <4>1. /\ m # 0 /\ file # m
            /\ session[owner[m]].status = "ACTIVE" => session[owner[m]].current = m
            /\ \A r \in Sessions : session[r].previous # m
            /\ \A v \in Threads : /\ thread[v].used # m
                                  /\ v # u /\ thread[v].pc \in Saves
                                       => thread[v].new # m
        BY <2>0, <3>2 DEF SaveInv
      <4>2. m # n /\ session'[owner'[m]] = session[owner[m]]
        BY <1>8, <4>1, RangeFacts
      <4>3. \A r \in Sessions : session'[r].previous # m
        BY <1>9, <4>1
      <4>4. \A v \in Threads : /\ thread'[v].used # m
                               /\ v # u /\ thread'[v].pc \in Saves
                                    => thread'[v].new # m
        BY <1>6, <1>7, <4>1, <4>2
      <4>5. QED
        BY <1>1, <3>2, <4>1, <4>2, <4>3, <4>4 DEF SaveInv
    <3>3. CASE u = UI /\ thread'[UI] = saves
      <4>1. /\ thread'[u].new = n /\ n # 0 /\ file' # n
            /\ session'[owner'[n]].current = n
        BY <1>1, <1>2, <1>4, <1>5, <1>6, <1>11, <3>3
      <4>2. \A v \in Threads : /\ thread'[v].used # n
                               /\ v # u => thread'[v].new # n
        BY <1>4, <1>6, <1>7, <1>11, <3>3
      <4>3. QED
        BY <1>12, <4>1, <4>2 DEF SaveInv
    <3>4. QED
      BY <1>7, <3>1, <3>2, <3>3
  <2>3. OverlapInv(u)'
    <3>1. \A v \in Threads : thread'[v].used = 0 \/ thread'[v] = thread[v]
      BY <1>6, <1>7
    <3>2. QED
      BY <1>1, <2>0, <3>1 DEF OverlapInv
  <2>4. QED
    BY <2>1, <2>2, <2>3
<1>14. FileInv'
  <2>1. Succeeded(file) => Succeeded(file)'
    <3>1. \A v \in Threads : thread[v].pc \in Saves => thread'[v] = thread[v]
      BY <1>0, <1>7 DEF Saves
    <3>2. QED
      BY <1>1, <3>1 DEF Succeeded
  <2>2. CASE file = 0
    BY <1>1, <2>2 DEF FileInv
  <2>3. CASE file # 0
    <3>1. session'[owner'[file]] = session[owner[file]]
      BY <1>8, <2>3, RangeFacts
    <3>2. QED
      BY <1>1, <1>9, <2>1, <2>3, <3>1 DEF FileInv, Succeeded
  <2>4. QED
    BY <2>2, <2>3
<1>15. QED
  BY <1>10, <1>13, <1>14 DEF ThreadInv

\* The end of the process leaves every pair that was on its way doubted.
LEMMA Quits ==
    ASSUME IInv, Quit
    PROVE  OwnInv' /\ ThreadInv' /\ FileInv' /\ doubted \subseteq doubted'
<1> USE DEF IInv
<1>1. /\ UNCHANGED <<session, issued, owner, file>>
      /\ doubted \subseteq doubted'
      /\ \A u \in Threads : thread[u].pc \in Saves /\ thread[u].used # 0
                              => thread[u].used \in doubted'
      /\ \A u \in Threads : thread'[u] = Idle
  BY DEF Quit, Saves
<1>2. Idle.pc = "idle" /\ Idle.used = 0 /\ Idle.new = 0
  BY DEF Idle
<1>3. OwnInv'
  BY <1>1, <1>2, OwnerFacts DEF OwnInv
<1>4. ThreadInv'
  BY <1>1, <1>2 DEF ThreadInv, RefreshInv, SaveInv, OverlapInv, Saves, InHand
<1>5. file # 0 /\ Succeeded(file) => file \in doubted'
  BY <1>1 DEF Succeeded
<1>6. FileInv'
  BY <1>1, <1>5 DEF FileInv
<1>7. QED
  BY <1>1, <1>3, <1>4, <1>6

-----------------------------------------------------------------------------
(***************************************************************************)
(* Every step keeps the types                                              *)
(***************************************************************************)

\* The part of TypeOK that a thread's step within the client can disturb.
LEMMA ClientTypes ==
    ASSUME IInv, NEW t \in Threads, ClientStep(t)
    PROVE  TypeOK'
<1> USE DEF IInv
<1>0. thread[t] \in Thread /\ Idle \in Thread /\ file \in Pairs \union {0}
  BY ThreadFacts, RangeFacts
<1>1. CASE Request(t)
  <2>1. [Idle EXCEPT !.pc = "call", !.used = file] \in Thread
    BY <1>0 DEF Idle, Thread, PCs
  <2>2. QED
    BY <1>1, <2>1, StepFacts DEF Request, TypeOK
<1>2. CASE Answer(t)
  BY <1>2, ReturnFacts DEF Answer, TypeOK
<1>3. CASE Unauthorized(t)
  <2>1. [thread[t] EXCEPT !.pc = "reload"] \in Thread
    BY <1>0 DEF Thread, PCs
  <2>2. QED
    BY <1>3, <2>1, StepFacts DEF Unauthorized, TypeOK
<1>4. CASE Reload(t)
  <2>1. [thread[t] EXCEPT !.pc = "refresh", !.used = file] \in Thread
    BY <1>0 DEF Thread, PCs
  <2>2. doubted' \in SUBSET Pairs
    BY <1>4, <1>0 DEF Reload, TypeOK
  <2>3. thread' \in [Threads -> Thread] /\ app' \in Apps
    BY <1>4, <2>1, StepFacts, ReturnFacts DEF Reload, TypeOK
  <2>4. QED
    BY <1>4, <2>2, <2>3 DEF Reload, TypeOK
<1>5. ASSUME NEW answered \in BOOLEAN, Refresh(t, answered)
      PROVE  TypeOK'
  <2> DEFINE k == thread[t].used
  <2>1. k \in Pairs /\ thread[t].pc = "refresh"
    BY <1>5, RangeFacts DEF Refresh, ThreadInv, RefreshInv
  <2>2. UNCHANGED <<expired, file, opens>>
    BY <1>5 DEF Refresh
  <2>3. CASE Rotate(k)
    <3>1. /\ issued' \in 0..MaxPairs /\ owner' \in [Pairs -> Sessions \union {0}]
          /\ session' \in [Sessions -> Row] /\ issued + 1 \in Pairs
      BY <2>1, <2>3, RotateFacts
    <3>2. [thread[t] EXCEPT !.pc = "save", !.new = issued + 1] \in Thread
      BY <1>0, <3>1 DEF Thread, PCs
    <3>3. ~Replay(k) /\ ~Deny(k)
      BY <2>1, <2>3 DEF Rotate, Replay, Deny, IsCurrent
    <3>4. /\ thread' \in [Threads -> Thread] /\ app' \in Apps
          /\ doubted' \in SUBSET Pairs
      <4>1. \/ /\ Step(t, [thread[t] EXCEPT !.pc = "save", !.new = issued + 1])
               /\ UNCHANGED <<app, doubted>>
            \/ Return(t, FALSE) /\ doubted' = doubted \union {k}
        BY <1>5, <3>3 DEF Refresh
      <4>2. QED
        BY <2>1, <3>2, <4>1, StepFacts, ReturnFacts DEF TypeOK
    <3>5. UNCHANGED <<replayed, told>>
      BY <1>5, <3>3 DEF Refresh
    <3>6. QED
      BY <2>2, <3>1, <3>4, <3>5 DEF TypeOK
  <2>4. CASE Replay(k)
    <3>1. session' \in [Sessions -> Row] /\ UNCHANGED <<issued, owner>>
      BY <2>1, <2>4, ReplayFacts
    <3>2. ~Rotate(k) /\ ~Deny(k)
      BY <2>4 DEF Rotate, Replay, Deny, IsCurrent
    <3>3. /\ Return(t, FALSE) /\ replayed' = replayed \union {k}
          /\ told' = (told \/ answered) /\ UNCHANGED doubted
      BY <1>5, <3>2 DEF Refresh
    <3>4. thread' \in [Threads -> Thread] /\ app' \in Apps
      BY <3>3, ReturnFacts
    <3>5. QED
      BY <2>1, <2>2, <3>1, <3>3, <3>4 DEF TypeOK
  <2>5. CASE ~Rotate(k) /\ ~Replay(k)
    <3>1. /\ UNCHANGED <<session, issued, owner>>
          /\ Return(t, FALSE) /\ UNCHANGED <<doubted, replayed, told>>
      BY <1>5, <2>5 DEF Refresh, Deny
    <3>2. thread' \in [Threads -> Thread] /\ app' \in Apps
      BY <3>1, ReturnFacts
    <3>3. QED
      BY <2>2, <3>1, <3>2 DEF TypeOK
  <2>6. QED
    BY <2>3, <2>4, <2>5
<1>6. CASE RefreshUnsent(t)
  BY <1>6, ReturnFacts DEF RefreshUnsent, TypeOK
<1>7. CASE SaveBegin(t)
  <2>1. [thread[t] EXCEPT !.pc = "saving"] \in Thread
    BY <1>0 DEF Thread, PCs
  <2>2. QED
    BY <1>7, <2>1, StepFacts DEF SaveBegin, TypeOK
<1>8. CASE SaveEnd(t)
  <2>1. thread[t].new \in Pairs
    BY <1>8, RangeFacts DEF SaveEnd, ThreadInv, SaveInv, Saves
  <2>2. [Idle EXCEPT !.pc = "resend"] \in Thread
    BY DEF Idle, Thread, PCs
  <2>3. thread' \in [Threads -> Thread]
    BY <1>8, <1>0, <2>2, StepFacts DEF SaveEnd
  <2>4. app' \in Apps /\ told' \in BOOLEAN
    BY <1>8 DEF SaveEnd, TypeOK, Apps
  <2>5. QED
    BY <1>8, <2>1, <2>3, <2>4 DEF SaveEnd, TypeOK
<1>9. CASE Resend(t)
  <2>1. [pc |-> "call", used |-> file, new |-> 0, retried |-> TRUE] \in Thread
    BY <1>0 DEF Thread, PCs
  <2>2. QED
    BY <1>9, <2>1, StepFacts DEF Resend, TypeOK
<1>10. QED
  BY <1>1, <1>2, <1>3, <1>4, <1>5, <1>6, <1>7, <1>8, <1>9 DEF ClientStep

\* Those of the workbench and of time.
LEMMA OtherTypes ==
    ASSUME IInv,
           \/ Open \/ StartWorkers \/ Quit
           \/ \E answered \in BOOLEAN : Login(answered)
           \/ \E k \in Pairs : Expire(k)
           \/ \E s \in Sessions : ExpireSession(s)
    PROVE  TypeOK'
<1> USE DEF IInv
<1>1. CASE Open
  BY <1>1, AuthAssumption DEF Open, TypeOK, Apps, AuthAssumption
<1>2. CASE StartWorkers
  BY <1>2 DEF StartWorkers, TypeOK, Apps
<1>3. CASE Quit
  <2>1. thread' \in [Threads -> Thread]
    BY <1>3 DEF Quit, Idle, Thread, PCs
  <2>2. \A t \in Threads : thread[t].used # 0 => thread[t].used \in Pairs
    BY RangeFacts
  <2>3. doubted' \in SUBSET Pairs
    BY <1>3, <2>2 DEF Quit, TypeOK
  <2>4. QED
    BY <1>3, <2>1, <2>3 DEF Quit, TypeOK, Apps
<1>4. ASSUME NEW answered \in BOOLEAN, Login(answered)
      PROVE  TypeOK'
  <2> DEFINE row == [status |-> "ACTIVE", current |-> issued + 1, previous |-> 0]
             saves == [Idle EXCEPT !.pc = "save", !.new = issued + 1]
  <2>1. /\ Issue(issued + 1, row) /\ (Step(UI, saves) \/ UNCHANGED thread)
        /\ UNCHANGED <<expired, file, app, opens, doubted, replayed, told>>
    BY <1>4 DEF Login
  <2>2. issued + 1 \in Pairs /\ issued + 1 \in Sessions /\ UI \in Threads
    BY <2>1, AuthAssumption
    DEF Issue, TypeOK, Pairs, Sessions, AuthAssumption, Threads
  <2>3. row \in Row /\ saves \in Thread
    BY <2>2 DEF Row, Idle, Thread, PCs
  <2>4. /\ issued' \in 0..MaxPairs /\ owner' \in [Pairs -> Sessions \union {0}]
        /\ session' \in [Sessions -> Row]
    BY <2>1, <2>2, <2>3, IssueFacts
  <2>5. thread' \in [Threads -> Thread]
    BY <2>1, <2>2, <2>3, StepFacts DEF TypeOK
  <2>6. QED
    BY <2>1, <2>4, <2>5 DEF TypeOK
<1>5. ASSUME NEW k \in Pairs, Expire(k)
      PROVE  TypeOK'
  BY <1>5 DEF Expire, TypeOK
<1>6. ASSUME NEW s \in Sessions, ExpireSession(s)
      PROVE  TypeOK'
  <2>1. [session[s] EXCEPT !.status = "EXPIRED"] \in Row
    BY DEF TypeOK, Row
  <2>2. session' \in [Sessions -> Row] /\ expired' \in SUBSET Pairs
    BY <1>6, <2>1 DEF ExpireSession, TypeOK
  <2>3. QED
    BY <1>6, <2>2 DEF ExpireSession, TypeOK
<1>7. QED
  BY <1>1, <1>2, <1>3, <1>4, <1>5, <1>6

-----------------------------------------------------------------------------
(***************************************************************************)
(* Every step keeps the invariant                                          *)
(***************************************************************************)

\* A session that stays as it is rests.
LEMMA SameFalls ==
    ASSUME UNCHANGED session
    PROVE  \A s \in Sessions : Falls(s)
BY DEF Falls

\* A request that is refused or lost leaves a resting thread.
LEMMA Returns ==
    ASSUME TypeOK, NEW t \in Threads, NEW ok \in BOOLEAN, Return(t, ok),
           thread[t].pc \notin Saves
    PROVE  \A u \in Threads : Rests(u)
<1>1. Step(t, Idle) /\ Idle \in Thread
  BY ReturnFacts, ThreadFacts
<1>2. Idle.pc \notin InHand /\ Idle.used = 0 /\ Idle.new = 0
  BY DEF Idle, InHand
<1>3. QED
  BY <1>1, <1>2, RestStep

\* A refresh, in each of its answers.
LEMMA Refreshes ==
    ASSUME IInv, NEW t \in Threads, NEW answered \in BOOLEAN, Refresh(t, answered)
    PROVE  OwnInv' /\ ThreadInv' /\ FileInv' /\ ReplayIsExplained'
<1> USE DEF IInv
<1> DEFINE k == thread[t].used
<1>1. /\ k \in Pairs /\ thread[t].pc = "refresh" /\ RefreshInv(t)
      /\ UNCHANGED file /\ thread[t].pc \notin Saves
  BY RangeFacts DEF Refresh, ThreadInv, RefreshInv, Saves
<1>2. CASE Rotate(k)
  <2>1. ~Replay(k) /\ ~Deny(k)
    BY <1>1, <1>2 DEF Rotate, Replay, Deny, IsCurrent
  <2>2. /\ \/ /\ Step(t, [thread[t] EXCEPT !.pc = "save", !.new = issued + 1])
              /\ UNCHANGED doubted
           \/ Step(t, Idle) /\ doubted' = doubted \union {k}
        /\ UNCHANGED replayed
    BY <2>1 DEF Refresh, Return
  <2>3. OwnInv' /\ ThreadInv' /\ FileInv' /\ doubted \subseteq doubted'
    BY <1>1, <1>2, <2>2, Rotates
  <2>4. QED
    BY <2>2, <2>3 DEF ReplayIsExplained
<1>3. CASE Replay(k)
  <2>1. ~Rotate(k) /\ ~Deny(k)
    BY <1>3 DEF Rotate, Replay, Deny, IsCurrent
  <2>2. Return(t, FALSE) /\ replayed' = replayed \union {k} /\ UNCHANGED doubted
    BY <2>1 DEF Refresh
  <2>3. /\ \A s \in Sessions : Falls(s)
        /\ \E s \in Sessions : session[s].previous = k
        /\ UNCHANGED <<issued, owner>>
    BY <1>1, <1>3, ReplayFacts DEF Falls
  <2>4. OwnInv' /\ ThreadInv' /\ FileInv'
    BY <1>1, <2>2, <2>3, Returns, Calm
  <2>5. k \in doubted
    BY <1>1, <2>3 DEF RefreshInv
  <2>6. QED
    BY <2>2, <2>4, <2>5 DEF ReplayIsExplained
<1>4. CASE ~Rotate(k) /\ ~Replay(k)
  <2>1. /\ UNCHANGED <<session, issued, owner, doubted, replayed>>
        /\ Return(t, FALSE)
    BY <1>4 DEF Refresh, Deny
  <2>2. OwnInv' /\ ThreadInv' /\ FileInv'
    BY <1>1, <2>1, Returns, SameFalls, Calm
  <2>3. QED
    BY <2>1, <2>2 DEF ReplayIsExplained
<1>5. QED
  BY <1>2, <1>3, <1>4

\* One step of one thread inside the client.
LEMMA ClientKeeps ==
    ASSUME IInv, NEW t \in Threads, ClientStep(t)
    PROVE  IInv'
<1> USE DEF IInv
<1>0. TypeOK' /\ thread[t] \in Thread /\ Idle \in Thread /\ file \in Pairs \union {0}
  BY ClientTypes, ThreadFacts, RangeFacts
<1>1. CASE Request(t)
  <2> DEFINE next == [Idle EXCEPT !.pc = "call", !.used = file]
  <2>1. /\ next \in Thread /\ next.pc = "call" /\ next.used = file /\ next.new = 0
        /\ thread[t].pc = "idle" /\ Step(t, next)
        /\ UNCHANGED <<session, issued, owner, file, doubted, replayed>>
    BY <1>0, <1>1 DEF Request, Idle, Thread, PCs
  <2> HIDE DEF next
  <2>2. \A u \in Threads : Rests(u)
    BY <2>1, RestStep DEF Saves, InHand
  <2>3. QED
    BY <1>0, <2>1, <2>2, SameFalls, Calm DEF ReplayIsExplained
<1>2. CASE Answer(t)
  <2>1. /\ thread[t].pc = "call" /\ \E ok \in BOOLEAN : Return(t, ok)
        /\ UNCHANGED <<session, issued, owner, file, doubted, replayed>>
    BY <1>2 DEF Answer
  <2>2. \A u \in Threads : Rests(u)
    BY <2>1, Returns DEF Saves
  <2>3. QED
    BY <1>0, <2>1, <2>2, SameFalls, Calm DEF ReplayIsExplained
<1>3. CASE Unauthorized(t)
  <2> DEFINE next == [thread[t] EXCEPT !.pc = "reload"]
  <2>1. /\ next \in Thread /\ next.pc = "reload" /\ next.used = thread[t].used
        /\ next.new = thread[t].new /\ thread[t].pc = "call" /\ Step(t, next)
        /\ UNCHANGED <<session, issued, owner, file, doubted, replayed>>
    BY <1>0, <1>3 DEF Unauthorized, Thread, PCs
  <2> HIDE DEF next
  <2>2. \A u \in Threads : Rests(u)
    BY <2>1, RestStep DEF Saves, InHand
  <2>3. QED
    BY <1>0, <2>1, <2>2, SameFalls, Calm DEF ReplayIsExplained
<1>4. CASE Reload(t) /\ file = 0
  <2>1. /\ thread[t].pc = "reload" /\ Return(t, FALSE)
        /\ UNCHANGED <<session, issued, owner, file, doubted, replayed>>
    BY <1>4 DEF Reload
  <2>2. \A u \in Threads : Rests(u)
    BY <2>1, Returns DEF Saves
  <2>3. QED
    BY <1>0, <2>1, <2>2, SameFalls, Calm DEF ReplayIsExplained
<1>5. CASE Reload(t) /\ file # 0
  <2>1. UNCHANGED replayed
    BY <1>5 DEF Reload
  <2>2. QED
    BY <1>0, <1>5, <2>1, Loads DEF ReplayIsExplained
<1>6. ASSUME NEW answered \in BOOLEAN, Refresh(t, answered)
      PROVE  IInv'
  BY <1>0, <1>6, Refreshes
<1>7. CASE RefreshUnsent(t)
  <2>1. /\ thread[t].pc = "refresh" /\ Return(t, FALSE)
        /\ UNCHANGED <<session, issued, owner, file, doubted, replayed>>
    BY <1>7 DEF RefreshUnsent
  <2>2. \A u \in Threads : Rests(u)
    BY <2>1, Returns DEF Saves
  <2>3. QED
    BY <1>0, <2>1, <2>2, SameFalls, Calm DEF ReplayIsExplained
<1>8. CASE SaveBegin(t)
  <2>1. UNCHANGED <<doubted, replayed>>
    BY <1>8 DEF SaveBegin
  <2>2. QED
    BY <1>0, <1>8, <2>1, Empties DEF ReplayIsExplained
<1>9. CASE SaveEnd(t)
  <2>1. UNCHANGED <<doubted, replayed>>
    BY <1>9 DEF SaveEnd
  <2>2. QED
    BY <1>0, <1>9, <2>1, Stores DEF ReplayIsExplained
<1>10. CASE Resend(t)
  <2> DEFINE next == [pc |-> "call", used |-> file, new |-> 0, retried |-> TRUE]
  <2>1. /\ next \in Thread /\ next.pc = "call" /\ next.used = file /\ next.new = 0
        /\ thread[t].pc = "resend" /\ Step(t, next)
        /\ UNCHANGED <<session, issued, owner, file, doubted, replayed>>
    BY <1>0, <1>10 DEF Resend, Thread, PCs
  <2> HIDE DEF next
  <2>2. \A u \in Threads : Rests(u)
    BY <2>1, RestStep DEF Saves, InHand
  <2>3. QED
    BY <1>0, <2>1, <2>2, SameFalls, Calm DEF ReplayIsExplained
<1>11. QED
  BY <1>1, <1>2, <1>3, <1>4, <1>5, <1>6, <1>7, <1>8, <1>9, <1>10 DEF ClientStep

LEMMA StepKeeps ==
    ASSUME IInv, [Next]_vars
    PROVE  IInv'
<1> USE DEF IInv
<1>1. ASSUME NEW t \in Threads, ClientStep(t)
      PROVE  IInv'
  BY <1>1, ClientKeeps
<1>2. CASE Open \/ StartWorkers \/ \E k \in Pairs : Expire(k)
  <2>1. UNCHANGED <<session, issued, owner, file, thread, doubted, replayed>>
    BY <1>2 DEF Open, StartWorkers, Expire
  <2>2. QED
    BY <1>2, <2>1, OtherTypes, SameFalls, Calm DEF Rests, ReplayIsExplained
<1>3. CASE Quit
  <2>1. UNCHANGED replayed
    BY <1>3 DEF Quit
  <2>2. QED
    BY <1>3, <2>1, OtherTypes, Quits DEF ReplayIsExplained
<1>4. ASSUME NEW answered \in BOOLEAN, Login(answered)
      PROVE  IInv'
  <2>1. UNCHANGED <<doubted, replayed>>
    BY <1>4 DEF Login
  <2>2. QED
    BY <1>4, <2>1, OtherTypes, LogsIn DEF ReplayIsExplained
<1>5. ASSUME NEW s \in Sessions, ExpireSession(s)
      PROVE  IInv'
  <2>1. UNCHANGED <<issued, owner, file, thread, doubted, replayed>>
    BY <1>5 DEF ExpireSession
  <2>2. /\ session' = [session EXCEPT ![s].status = "EXPIRED"]
        /\ session[s].status = "ACTIVE" /\ session \in [Sessions -> Row]
    BY <1>5 DEF ExpireSession, TypeOK
  <2>3. /\ session'[s] = [session[s] EXCEPT !.status = "EXPIRED"]
        /\ session[s] \in Row
        /\ \A r \in Sessions \ {s} : session'[r] = session[r]
    BY <2>2
  <2>4. /\ session'[s].current = session[s].current
        /\ session'[s].previous = session[s].previous
        /\ session'[s].status = "EXPIRED"
    BY <2>3 DEF Row
  <2>5. \A r \in Sessions : Falls(r)
    BY <2>2, <2>3, <2>4 DEF Falls
  <2>6. QED
    BY <1>5, <2>1, <2>5, OtherTypes, Calm DEF Rests, ReplayIsExplained
<1>6. CASE UNCHANGED vars
  <2>1. UNCHANGED <<session, issued, owner, file, thread, doubted, replayed>>
    BY <1>6 DEF vars
  <2>2. TypeOK'
    BY <1>6 DEF vars, TypeOK
  <2>3. QED
    BY <2>1, <2>2, SameFalls, Calm DEF Rests, ReplayIsExplained
<1>7. QED
  BY <1>1, <1>2, <1>3, <1>4, <1>5, <1>6 DEF Next

-----------------------------------------------------------------------------
(***************************************************************************)
(* Theorems                                                                *)
(***************************************************************************)

\* IInv holds in every reachable state.
THEOREM Invariance == Spec => []IInv
<1>1. Init => IInv
  <2> SUFFICES ASSUME Init PROVE IInv
    OBVIOUS
  <2> USE DEF Init
  <2>1. TypeOK
    <3>1. Idle \in Thread
      BY DEF Idle, Thread, PCs
    <3>2. [status |-> "ABSENT", current |-> 0, previous |-> 0] \in Row
      BY DEF Row
    <3>3. /\ session \in [Sessions -> Row] /\ thread \in [Threads -> Thread]
          /\ owner \in [Pairs -> Sessions \union {0}]
      BY <3>1, <3>2
    <3>4. issued \in 0..MaxPairs /\ opens \in 0..MaxOpens
      BY AuthAssumption DEF AuthAssumption
    <3>5. app \in Apps /\ file \in Pairs \union {0} /\ told \in BOOLEAN
      BY DEF Apps
    <3>6. QED
      BY <3>3, <3>4, <3>5 DEF TypeOK
  <2>2. OwnInv
    BY AuthAssumption DEF OwnInv, AuthAssumption, Idle, Sessions, Pairs
  <2>3. ThreadInv
    BY DEF ThreadInv, RefreshInv, SaveInv, OverlapInv, Idle, Saves, InHand
  <2>4. FileInv /\ ReplayIsExplained
    BY DEF FileInv, ReplayIsExplained
  <2>5. QED
    BY <2>1, <2>2, <2>3, <2>4 DEF IInv
<1>2. IInv /\ [Next]_vars => IInv'
  BY StepKeeps
<1>3. QED
  BY <1>1, <1>2, PTL DEF Spec

\* The tables, the file, the threads and the workbench keep their types.
THEOREM SessionTypeCorrect == Spec => []TypeOK
<1>1. IInv => TypeOK
  BY DEF IInv
<1>2. QED
  BY <1>1, Invariance, PTL

\* However many threads share the client and however their refreshes
\* interleave, only a doubted pair is ever judged a replay: threads that take
\* turns never cost the user the login.
THEOREM SequentialIsSafe == Spec => []ReplayIsExplained
<1>1. IInv => ReplayIsExplained
  BY DEF IInv
<1>2. QED
  BY <1>1, Invariance, PTL

\* The pair in the token file is the one that its session accepts, is doubted,
\* or is about to be replaced.
THEOREM FileFollowsSession == Spec => []StoredPairIsCurrent
<1>1. IInv => StoredPairIsCurrent
  <2> SUFFICES ASSUME IInv, file # 0, session[owner[file]].status = "ACTIVE"
               PROVE  \/ IsCurrent(file, owner[file])
                      \/ file \in doubted
                      \/ \E u \in Refreshing(file) : thread[u].pc # "refresh"
    BY DEF StoredPairIsCurrent
  <2>1. \/ session[owner[file]].current = file
        \/ file \in doubted \/ Succeeded(file)
    BY DEF IInv, FileInv
  <2>2. Succeeded(file) => \E u \in Refreshing(file) : thread[u].pc # "refresh"
    BY DEF Succeeded, Refreshing, Saves
  <2>3. QED
    BY <2>1, <2>2 DEF IsCurrent
<1>2. QED
  BY <1>1, Invariance, PTL

\* No step of the control plane changes a revoked session.
THEOREM RevocationStands == Spec => RevokedIsFinal
<1> DEFINE Keeps == \A s \in Sessions :
                      session[s].status = "REVOKED" => session'[s] = session[s]
<1>1. IInv /\ [Next]_vars => Keeps
  <2> SUFFICES ASSUME IInv, [Next]_vars, NEW s \in Sessions,
                      session[s].status = "REVOKED"
               PROVE  session'[s] = session[s]
    OBVIOUS
  <2> USE DEF IInv
  <2>1. ASSUME NEW t \in Threads, ClientStep(t)
        PROVE  session'[s] = session[s]
    <3>1. CASE \E answered \in BOOLEAN : Refresh(t, answered)
      <4>1. /\ thread[t].used \in Pairs
            /\ \/ Rotate(thread[t].used) \/ Replay(thread[t].used)
               \/ UNCHANGED session
        BY <3>1, RangeFacts DEF Refresh, ThreadInv, RefreshInv, Deny
      <4>2. CASE Rotate(thread[t].used)
        BY <4>1, <4>2, RotateFacts
      <4>3. CASE Replay(thread[t].used)
        BY <4>1, <4>3, ReplayFacts
      <4>4. QED
        BY <4>1, <4>2, <4>3
    <3>2. CASE ~\E answered \in BOOLEAN : Refresh(t, answered)
      BY <2>1, <3>2
      DEF ClientStep, Request, Answer, Unauthorized, Reload, RefreshUnsent,
          SaveBegin, SaveEnd, Resend
    <3>3. QED
      BY <3>1, <3>2
  <2>2. ASSUME NEW answered \in BOOLEAN, Login(answered)
        PROVE  session'[s] = session[s]
    <3> DEFINE row == [status |-> "ACTIVE", current |-> issued + 1, previous |-> 0]
    <3>1. Issue(issued + 1, row) /\ session \in [Sessions -> Row]
      BY <2>2 DEF Login, TypeOK
    <3>2. s # issued + 1
      BY OwnerFacts DEF OwnInv, Sessions, Pairs
    <3>3. session' = [session EXCEPT ![issued + 1] = row]
      BY <3>1 DEF Issue
    <3>4. QED
      BY <3>1, <3>2, <3>3
  <2>3. ASSUME NEW r \in Sessions, ExpireSession(r)
        PROVE  session'[s] = session[s]
    BY <2>3 DEF ExpireSession, TypeOK
  <2>4. CASE Open \/ StartWorkers \/ Quit \/ (\E k \in Pairs : Expire(k))
             \/ UNCHANGED vars
    BY <2>4 DEF Open, StartWorkers, Quit, Expire, vars
  <2>5. QED
    BY <2>1, <2>2, <2>3, <2>4 DEF Next
<1>2. IInv /\ [Next]_vars => [Keeps]_vars
  BY <1>1
<1>3. QED
  BY <1>2, Invariance, PTL DEF Spec, RevokedIsFinal

-----------------------------------------------------------------------------
(***************************************************************************)
(* Logins and logouts of browser tabs                                      *)
(***************************************************************************)
GuessInv ==
    account.status # "DISABLED" =>
        /\ Len(wrong) = account.failed
        /\ account.failed >= MaxFailed =>
              /\ account.status = "LOCKED"
              /\ account.until = wrong[Len(wrong)] + LockTime

\* A session is given up, or not one to be ended any more.
Settled(s) == s \in loose \/ table[s].status # "ACTIVE"

TabInv ==
    /\ stored # NoLogin => table[stored].status # "ABSENT"
    /\ \A t \in Tabs :
         LET s == tab[t].sent IN
         /\ tab[t].page = "dashboard" => s = NoLogin
         /\ s # NoLogin => table[s].status # "ABSENT"
         /\ tab[t].page \in {"loading", "leaving"} /\ s # NoLogin
              => stored = s \/ Settled(s)
         /\ tab[t].page = "left" /\ s # NoLogin => Settled(s)

LoginInv ==
    /\ LoginTypeOK
    /\ GuessInv /\ LockBoundsGuesses
    /\ TabInv /\ AbandonedIsExplained

-----------------------------------------------------------------------------
(***************************************************************************)
(* Types                                                                   *)
(***************************************************************************)

LEMMA GoType ==
    ASSUME LoginTypeOK, NEW t \in Tabs, NEW page \in Pages,
           NEW s \in Logins \union {NoLogin}, Go(t, page, s)
    PROVE  /\ tab' \in [Tabs -> Tab]
           /\ tab'[t] = [page |-> page, sent |-> s]
           /\ \A u \in Tabs \ {t} : tab'[u] = tab[u]
BY DEF LoginTypeOK, Go, Tab

LEMMA TabTypeStep ==
    ASSUME LoginTypeOK, NEW t \in Tabs, TabStep(t)
    PROVE  LoginTypeOK'
<1> USE LoginAssumption DEF LoginAssumption, LoginTypeOK
<1>1. ASSUME NEW answered \in BOOLEAN, NEW recorded \in BOOLEAN,
             SignIn(t, answered, recorded)
      PROVE  LoginTypeOK'
  <2>1. PICK s \in Logins :
          /\ Opened(s)
          /\ audit' \in {audit, audit \union {s}}
          /\ \/ /\ tab' = [tab EXCEPT ![t] = [page |-> "welcome", sent |-> s]]
                /\ UNCHANGED loose
             \/ loose' = loose \union {s} /\ UNCHANGED tab
    BY <1>1 DEF SignIn, Record
  <2>2. account' \in Account /\ wrong' \in Seq(Nat) /\ table' \in [Logins -> SessionRow]
    BY <2>1 DEF Opened, RegisterSuccess, Account, SessionRow
  <2>3. tab' \in [Tabs -> Tab]
    BY <2>1 DEF Tab, Pages
  <2>4. QED
    BY <1>1, <2>1, <2>2, <2>3 DEF SignIn
<1>2. CASE \/ Welcome(t) \/ Visit(t) \/ Load(t) \/ Loaded(t) \/ LoadRefused(t)
           \/ Logout(t) \/ LogoutRefused(t) \/ Leave(t)
  <2>1. tab[t].sent \in Logins \union {NoLogin}
    BY DEF Tab
  <2>2. PICK page \in Pages, s \in Logins \union {NoLogin} : Go(t, page, s)
    BY <1>2, <2>1 DEF Welcome, Visit, Load, Loaded, LoadRefused, Logout,
       LogoutRefused, Leave, Pages
  <2>3. tab' \in [Tabs -> Tab]
    BY <2>2, GoType
  <2>4. QED
    BY <1>2, <2>1, <2>3 DEF Welcome, Visit, Load, Loaded, LoadRefused, Logout,
       LogoutRefused, Leave, Forget
<1>3. CASE LogoutHandled(t)
  <2>1. tab[t].sent \in Logins
    BY <1>3 DEF LogoutHandled, TokenRuns, Tab
  <2>2. tab' \in [Tabs -> Tab]
    BY <1>3, <2>1, GoType DEF LogoutHandled, Pages
  <2>3. table' \in [Logins -> SessionRow]
    BY <1>3, <2>1 DEF LogoutHandled, SessionRow
  <2>4. QED
    BY <1>3, <2>2, <2>3 DEF LogoutHandled
<1>4. QED
  BY <1>1, <1>2, <1>3 DEF TabStep

LEMMA TypeStep ==
    ASSUME LoginTypeOK, [LoginNext]_loginVars
    PROVE  LoginTypeOK'
<1> USE LoginAssumption DEF LoginAssumption, LoginTypeOK
<1>1. CASE UNCHANGED loginVars
  BY <1>1 DEF loginVars
<1>2. CASE Tick
  BY <1>2 DEF Tick
<1>3. CASE WrongPassword
  <2>1. account.failed + 1 \in Nat /\ now + LockTime \in Nat /\ now \in Nat
    BY DEF Account
  <2>2. account' \in Account
    <3>1. CASE account.failed + 1 >= MaxFailed
      <4>1. account' = [status |-> "LOCKED", failed |-> account.failed + 1,
                        until |-> now + LockTime]
        BY <1>3, <3>1 DEF WrongPassword, RegisterFailure
      <4>2. QED
        BY <2>1, <4>1 DEF Account
    <3>2. CASE ~(account.failed + 1 >= MaxFailed)
      <4>1. account' = [account EXCEPT !.failed = account.failed + 1]
        BY <1>3, <3>2 DEF WrongPassword, RegisterFailure
      <4>2. QED
        BY <2>1, <4>1 DEF Account
    <3>3. QED
      BY <3>1, <3>2
  <2>3. wrong' \in Seq(Nat)
    BY <1>3, <2>1 DEF WrongPassword
  <2>4. QED
    BY <1>3, <2>2, <2>3 DEF WrongPassword
<1>4. CASE LoginCutShort
  BY <1>4 DEF LoginCutShort, RegisterSuccess, Account
<1>5. CASE Disable \/ Suspend
  BY <1>5 DEF Disable, Suspend, Account
<1>6. CASE RevokeAll
  BY <1>6 DEF RevokeAll, SessionRow
<1>7. QED
  BY <1>1, <1>2, <1>3, <1>4, <1>5, <1>6, TabTypeStep DEF LoginNext

-----------------------------------------------------------------------------
(***************************************************************************)
(* The lock                                                                *)
(***************************************************************************)

\* A good password starts a new history.
LEMMA SuccessClears ==
    ASSUME LoginTypeOK, account' = RegisterSuccess(account), wrong' = << >>
    PROVE  GuessInv' /\ LockBoundsGuesses'
<1>1. Len(wrong') = 0 /\ account'.failed = 0
  BY DEF RegisterSuccess
<1>2. QED
  BY <1>1, LoginAssumption DEF LoginAssumption, GuessInv, LockBoundsGuesses

\* A guess beyond the limit is judged only after the lock of the one before.
LEMMA WrongStep ==
    ASSUME LoginTypeOK, GuessInv, LockBoundsGuesses, WrongPassword
    PROVE  GuessInv' /\ LockBoundsGuesses'
<1> USE LoginAssumption DEF LoginAssumption
<1>1. /\ account.failed \in Nat /\ account.until \in Nat /\ now \in Nat
      /\ wrong \in Seq(Nat) /\ Len(wrong) \in Nat
      /\ wrong' = Append(wrong, now)
  BY DEF LoginTypeOK, Account, WrongPassword
<1>2. /\ Len(wrong') = Len(wrong) + 1
      /\ wrong'[Len(wrong) + 1] = now
      /\ \A i \in 1..Len(wrong) : wrong'[i] = wrong[i] /\ wrong[i] \in Nat
  BY <1>1
<1>3. /\ Len(wrong) = account.failed
      /\ account.failed >= MaxFailed => now >= wrong[Len(wrong)] + LockTime
  BY <1>1 DEF WrongPassword, CanLogin, IsLocked, GuessInv
<1>4. GuessInv'
  <2>1. CASE account.failed + 1 >= MaxFailed
    <3>1. account' = [status |-> "LOCKED", failed |-> account.failed + 1,
                      until |-> now + LockTime]
      BY <2>1 DEF WrongPassword, RegisterFailure
    <3>2. /\ account'.failed = account.failed + 1
          /\ account'.until = now + LockTime
          /\ account'.status = "LOCKED"
      BY <3>1
    <3>3. wrong'[Len(wrong')] = now
      BY <1>2
    <3>4. QED
      BY <1>1, <1>2, <1>3, <3>2, <3>3 DEF GuessInv
  <2>2. CASE ~(account.failed + 1 >= MaxFailed)
    <3>1. account' = [account EXCEPT !.failed = account.failed + 1]
      BY <2>2 DEF WrongPassword, RegisterFailure
    <3>2. account'.failed = account.failed + 1
      BY <3>1 DEF LoginTypeOK, Account
    <3>3. QED
      BY <1>1, <1>2, <1>3, <2>2, <3>2 DEF GuessInv
  <2>3. QED
    BY <2>1, <2>2
<1>5. LockBoundsGuesses'
  <2> SUFFICES ASSUME NEW i \in 1..(Len(wrong) + 1), i > MaxFailed
               PROVE  wrong'[i] >= wrong'[i - 1] + LockTime
    BY <1>2 DEF LockBoundsGuesses
  <2>1. CASE i = Len(wrong) + 1
    <3>1. /\ account.failed >= MaxFailed
          /\ Len(wrong) \in 1..Len(wrong) /\ i - 1 = Len(wrong)
      <4>1. /\ Len(wrong) = account.failed
            /\ account.failed + 1 > MaxFailed /\ MaxFailed > 0
        BY <1>3, <2>1
      <4>2. account.failed \in Nat /\ MaxFailed \in Nat
        BY <1>1
      <4>3. account.failed >= MaxFailed /\ account.failed > 0
        BY <4>1, <4>2
      <4>4. QED
        BY <2>1, <4>1, <4>2, <4>3
    <3>2. wrong'[i] = now /\ wrong'[i - 1] = wrong[Len(wrong)]
      BY <1>2, <2>1, <3>1
    <3>3. QED
      BY <1>3, <3>1, <3>2
  <2>2. CASE i \in 1..Len(wrong)
    BY <1>1, <1>2, <2>2 DEF LockBoundsGuesses
  <2>3. QED
    BY <1>1, <2>1, <2>2
<1>6. QED
  BY <1>4, <1>5

LEMMA GuessStep ==
    ASSUME LoginTypeOK, GuessInv, LockBoundsGuesses, [LoginNext]_loginVars
    PROVE  GuessInv' /\ LockBoundsGuesses'
<1>1. CASE UNCHANGED <<account, wrong>>
  BY <1>1 DEF GuessInv, LockBoundsGuesses
<1>2. CASE Disable
  <2>1. account'.status = "DISABLED" /\ wrong' = wrong
    BY <1>2 DEF Disable, LoginTypeOK, Account
  <2>2. QED
    BY <2>1 DEF GuessInv, LockBoundsGuesses
<1>3. CASE LoginCutShort
  BY <1>3, SuccessClears DEF LoginCutShort
<1>4. ASSUME NEW t \in Tabs, NEW answered \in BOOLEAN, NEW recorded \in BOOLEAN,
             SignIn(t, answered, recorded)
      PROVE  GuessInv' /\ LockBoundsGuesses'
  BY <1>4, SuccessClears DEF SignIn, Opened
<1>5. QED
  BY <1>1, <1>2, <1>3, <1>4, WrongStep
  DEF LoginNext, loginVars, Tick, Suspend, RevokeAll, TabStep, Welcome, Visit, Load,
      Loaded, LoadRefused, Logout, LogoutHandled, LogoutRefused, Leave

-----------------------------------------------------------------------------
(***************************************************************************)
(* Abandoned sessions                                                      *)
(***************************************************************************)

\* The same after the step, for a session that may depend on the state.
SettledNext(s) == s \in loose' \/ table'[s].status # "ACTIVE"

\* A session that was opened stays opened, and settled once it is settled.
LEMMA Monotone ==
    ASSUME LoginTypeOK, [LoginNext]_loginVars
    PROVE  \A s \in Logins :
             table[s].status # "ABSENT" =>
               /\ table'[s].status # "ABSENT"
               /\ Settled(s) => SettledNext(s)
<1> USE DEF LoginTypeOK, Settled, SettledNext
<1>1. CASE UNCHANGED table /\ loose \subseteq loose'
  BY <1>1
<1>2. CASE RevokeAll
  BY <1>2 DEF RevokeAll, SessionRow
<1>3. ASSUME NEW t \in Tabs, NEW answered \in BOOLEAN, NEW recorded \in BOOLEAN,
             SignIn(t, answered, recorded)
      PROVE  \A s \in Logins :
               table[s].status # "ABSENT" =>
                 table'[s] = table[s] /\ loose \subseteq loose'
  BY <1>3 DEF SignIn, MayOpen, Opened
<1>4. ASSUME NEW t \in Tabs, LogoutHandled(t)
      PROVE  \A s \in Logins :
               /\ table'[s] = table[s] \/ table'[s].status = "REVOKED"
               /\ loose' = loose
  BY <1>4 DEF LogoutHandled, SessionRow
<1>5. ASSUME NEW t \in Tabs, TabStep(t), ~LogoutHandled(t), UNCHANGED table
      PROVE  loose \subseteq loose'
  BY <1>5 DEF TabStep, SignIn, Welcome, Visit, Load, Loaded, LoadRefused, Logout,
     LogoutRefused, Leave, Forget
<1>6. CASE Tick \/ WrongPassword \/ LoginCutShort \/ Disable \/ Suspend
           \/ UNCHANGED loginVars
  BY <1>1, <1>6 DEF Tick, WrongPassword, LoginCutShort, Disable, Suspend, loginVars
<1>7. ASSUME NEW t \in Tabs, TabStep(t)
      PROVE  \A s \in Logins :
               table[s].status # "ABSENT" =>
                 /\ table'[s].status # "ABSENT"
                 /\ Settled(s) => SettledNext(s)
  <2>1. CASE LogoutHandled(t)
    BY <1>4, <2>1
  <2>2. CASE \E answered, recorded \in BOOLEAN : SignIn(t, answered, recorded)
    BY <1>3, <2>2
  <2>3. CASE \/ Welcome(t) \/ Visit(t) \/ Load(t) \/ Loaded(t) \/ LoadRefused(t)
             \/ Logout(t) \/ LogoutRefused(t) \/ Leave(t)
    <3>1. UNCHANGED table
      BY <2>3 DEF Welcome, Visit, Load, Loaded, LoadRefused, Logout,
         LogoutRefused, Leave
    <3>2. loose \subseteq loose'
      BY <2>3 DEF Welcome, Visit, Load, Loaded, LoadRefused, Logout,
         LogoutRefused, Leave, Forget
    <3>3. QED
      BY <1>1, <3>1, <3>2
  <2>4. QED
    BY <1>7, <2>1, <2>2, <2>3 DEF TabStep
<1>8. QED
  BY <1>2, <1>6, <1>7 DEF LoginNext

\* The invariant survives what leaves the browser alone.
LEMMA BrowserAside ==
    ASSUME LoginTypeOK, TabInv, AbandonedIsExplained, [LoginNext]_loginVars,
           UNCHANGED <<stored, tab, loose>>,
           \A s \in Logins : table'[s] = table[s] \/ table'[s].status = "REVOKED"
    PROVE  TabInv' /\ AbandonedIsExplained'
<1>1. TabInv'
  BY Monotone DEF LoginTypeOK, TabInv, Tab, Settled, SettledNext, Logins, NoLogin
<1>2. AbandonedIsExplained'
  BY DEF AbandonedIsExplained, Held
<1>3. QED
  BY <1>1, <1>2

\* A tab moves on: what it held is settled, or stored, or its own again.
LEMMA TabMoves ==
    ASSUME LoginTypeOK, TabInv, AbandonedIsExplained, [LoginNext]_loginVars,
           NEW t \in Tabs, NEW page \in Pages, NEW s \in Logins \union {NoLogin},
           Go(t, page, s), UNCHANGED table, loose \subseteq loose',
           stored' \in Logins \union {NoLogin},
           stored' # NoLogin => table[stored'].status # "ABSENT",
           stored # NoLogin /\ stored' # stored => SettledNext(stored),
           s # NoLogin => table[s].status # "ABSENT",
           page = "dashboard" => s = NoLogin,
           page \in {"loading", "leaving"} /\ s # NoLogin
             => stored' = s \/ SettledNext(s),
           page = "left" /\ s # NoLogin => SettledNext(s),
           LET r == tab[t].sent IN
             r # NoLogin /\ tab[t].page # "login" /\ r # s
               => stored' = r \/ SettledNext(r),
           page = "login" => s = NoLogin
    PROVE  TabInv' /\ AbandonedIsExplained'
<1>1. /\ tab' \in [Tabs -> Tab]
      /\ tab'[t] = [page |-> page, sent |-> s]
      /\ \A u \in Tabs \ {t} : tab'[u] = tab[u]
  BY GoType
<1>2. \A u \in Tabs : tab[u].sent \in Logins \union {NoLogin}
  BY DEF LoginTypeOK, Tab
<1>3. TabInv'
  <2> SUFFICES ASSUME NEW u \in Tabs
               PROVE  LET r == tab'[u].sent IN
                      /\ tab'[u].page = "dashboard" => r = NoLogin
                      /\ r # NoLogin => table'[r].status # "ABSENT"
                      /\ tab'[u].page \in {"loading", "leaving"} /\ r # NoLogin
                           => stored' = r \/ SettledNext(r)
                      /\ tab'[u].page = "left" /\ r # NoLogin => SettledNext(r)
    BY DEF TabInv, Settled, SettledNext
  <2>1. CASE u = t
    BY <1>1, <2>1
  <2>2. CASE u # t
    BY <1>1, <1>2, <2>2 DEF TabInv, Settled, SettledNext
  <2>3. QED
    BY <2>1, <2>2
<1>4. AbandonedIsExplained'
  <2> SUFFICES ASSUME NEW r \in Logins, table'[r].status = "ACTIVE", ~Held(r)'
               PROVE  r \in loose'
    BY DEF AbandonedIsExplained
  <2>1. r # NoLogin
    BY DEF Logins, NoLogin
  <2>2. CASE ~Held(r)
    BY <2>2 DEF AbandonedIsExplained
  <2>3. CASE stored = r
    BY <2>1, <2>3 DEF Held, Settled, SettledNext
  <2>4. CASE tab[t].page # "login" /\ tab[t].sent = r
    <3>1. r # s
      BY <1>1, <2>1 DEF Held
    <3>2. QED
      BY <2>1, <2>4, <3>1 DEF Held, Settled, SettledNext
  <2>5. ASSUME NEW u \in Tabs \ {t}, tab[u].page # "login", tab[u].sent = r
        PROVE  FALSE
    BY <1>1, <2>5 DEF Held
  <2>6. QED
    BY <2>2, <2>3, <2>4, <2>5 DEF Held
<1>5. QED
  BY <1>3, <1>4

LEMMA SignInStep ==
    ASSUME LoginTypeOK, TabInv, AbandonedIsExplained, [LoginNext]_loginVars,
           NEW t \in Tabs, NEW answered \in BOOLEAN, NEW recorded \in BOOLEAN,
           SignIn(t, answered, recorded)
    PROVE  TabInv' /\ AbandonedIsExplained'
<1>1. PICK s \in Logins :
        /\ table[s].status = "ABSENT"
        /\ table' = [table EXCEPT ![s] = [status |-> "ACTIVE", at |-> now]]
        /\ \/ Go(t, "welcome", s) /\ UNCHANGED loose
           \/ loose' = loose \union {s} /\ UNCHANGED tab
  BY DEF SignIn, MayOpen, Opened, Go
<1>2. /\ tab[t].page = "login" /\ stored' = stored /\ s # NoLogin
      /\ table'[s].status = "ACTIVE"
      /\ \A r \in Logins \ {s} : table'[r] = table[r]
      /\ loose \subseteq loose'
  BY <1>1 DEF SignIn, LoginTypeOK, Logins, NoLogin
<1>3. \A u \in Tabs : tab[u].sent \in Logins \union {NoLogin}
  BY DEF LoginTypeOK, Tab
<1>4. stored \in Logins \union {NoLogin} /\ stored # s
  BY <1>1, <1>2 DEF LoginTypeOK, TabInv
<1>5. \A u \in Tabs : tab[u].sent # s
  BY <1>1, <1>2, <1>3 DEF TabInv
<1>6. CASE Go(t, "welcome", s) /\ UNCHANGED loose
  <2>1. /\ tab'[t] = [page |-> "welcome", sent |-> s]
        /\ \A u \in Tabs \ {t} : tab'[u] = tab[u]
    BY <1>6, GoType DEF Pages
  <2>2. TabInv'
    <3> SUFFICES ASSUME NEW u \in Tabs
                 PROVE  LET r == tab'[u].sent IN
                        /\ tab'[u].page = "dashboard" => r = NoLogin
                        /\ r # NoLogin => table'[r].status # "ABSENT"
                        /\ tab'[u].page \in {"loading", "leaving"} /\ r # NoLogin
                             => stored' = r \/ SettledNext(r)
                        /\ tab'[u].page = "left" /\ r # NoLogin => SettledNext(r)
      BY <1>2, <1>4 DEF TabInv, Settled, SettledNext
    <3>1. CASE u = t
      BY <1>2, <2>1, <3>1
    <3>2. CASE u # t
      BY <1>2, <1>3, <1>5, <1>6, <2>1, <3>2 DEF TabInv, Settled, SettledNext
    <3>3. QED
      BY <3>1, <3>2
  <2>3. AbandonedIsExplained'
    BY <1>2, <1>6, <2>1 DEF AbandonedIsExplained, Held
  <2>4. QED
    BY <2>2, <2>3
<1>7. CASE loose' = loose \union {s} /\ UNCHANGED tab
  <2>1. TabInv'
    BY <1>2, <1>3, <1>4, <1>5, <1>7 DEF TabInv, Settled, SettledNext
  <2>2. AbandonedIsExplained'
    BY <1>2, <1>7 DEF AbandonedIsExplained, Held
  <2>3. QED
    BY <2>1, <2>2
<1>8. QED
  BY <1>1, <1>6, <1>7

LEMMA TabStepKeeps ==
    ASSUME LoginTypeOK, TabInv, AbandonedIsExplained, [LoginNext]_loginVars,
           NEW t \in Tabs, TabStep(t)
    PROVE  TabInv' /\ AbandonedIsExplained'
<1>1. /\ tab[t].sent \in Logins \union {NoLogin}
      /\ stored \in Logins \union {NoLogin} /\ NoLogin \notin Logins
      /\ {"login", "dashboard", "loading", "leaving", "left"} \subseteq Pages
  BY DEF LoginTypeOK, Tab, Logins, NoLogin, Pages
<1>2. CASE Welcome(t)
  <2>1. /\ tab[t].page = "welcome" /\ stored' = tab[t].sent
        /\ Go(t, "dashboard", NoLogin) /\ UNCHANGED table
    BY <1>2 DEF Welcome
  <2>2. /\ loose \subseteq loose'
        /\ stored # NoLogin /\ stored' # stored => SettledNext(stored)
    BY <1>1, <1>2 DEF Welcome, Forget, Settled, SettledNext
  <2>3. stored' # NoLogin => table[stored'].status # "ABSENT"
    BY <2>1 DEF TabInv
  <2>4. QED
    BY <1>1, <2>1, <2>2, <2>3, TabMoves
<1>3. CASE LoadRefused(t)
  <2>1. /\ tab[t].page = "loading" /\ stored' = NoLogin
        /\ Go(t, "login", NoLogin) /\ UNCHANGED table
    BY <1>3 DEF LoadRefused
  <2>2. /\ loose \subseteq loose'
        /\ stored # NoLogin => stored \in loose'
    BY <1>1, <1>3 DEF LoadRefused, Forget
  <2>3. tab[t].sent # NoLogin => SettledNext(tab[t].sent)
    BY <2>1, <2>2 DEF TabInv, Settled, SettledNext
  <2>4. stored # NoLogin => SettledNext(stored)
    BY <2>2 DEF Settled, SettledNext
  <2>5. QED
    BY <1>1, <2>1, <2>2, <2>3, <2>4, TabMoves
<1>4. CASE Leave(t)
  <2>1. /\ tab[t].page = "left" /\ stored' = NoLogin
        /\ Go(t, "login", NoLogin) /\ UNCHANGED table
    BY <1>4 DEF Leave
  <2>2. /\ loose \subseteq loose'
        /\ stored # NoLogin /\ stored # tab[t].sent => stored \in loose'
    BY <1>1, <1>4 DEF Leave, Forget
  <2>3. tab[t].sent # NoLogin => SettledNext(tab[t].sent)
    BY <2>1, <2>2 DEF TabInv, Settled, SettledNext
  <2>4. stored # NoLogin => SettledNext(stored)
    BY <2>2, <2>3 DEF Settled, SettledNext
  <2>5. QED
    BY <1>1, <2>1, <2>2, <2>3, <2>4, TabMoves
<1>5. CASE Visit(t)
  <2>1. PICK page \in {"dashboard", "login"} : Go(t, page, NoLogin)
    BY <1>5 DEF Visit
  <2>2. /\ tab[t].page = "login" \/ tab[t].sent = NoLogin
        /\ UNCHANGED <<table, stored, loose>>
    BY <1>5 DEF Visit, TabInv
  <2>3. stored' # NoLogin => table[stored'].status # "ABSENT"
    BY <2>2 DEF TabInv
  <2>4. QED
    BY <1>1, <2>1, <2>2, <2>3, TabMoves
<1>6. CASE Load(t) \/ Logout(t)
  <2>1. PICK page \in {"loading", "leaving"} : Go(t, page, stored)
    BY <1>6 DEF Load, Logout
  <2>2. /\ tab[t].sent = NoLogin
        /\ UNCHANGED <<table, stored, loose>>
    BY <1>6 DEF Load, Logout, TabInv
  <2>3. stored # NoLogin => table[stored].status # "ABSENT"
    BY DEF TabInv
  <2>4. QED
    BY <1>1, <2>1, <2>2, <2>3, TabMoves
<1>7. CASE Loaded(t)
  <2>1. /\ tab[t].page = "loading" /\ Go(t, "dashboard", NoLogin)
        /\ UNCHANGED <<table, stored, loose>>
    BY <1>7 DEF Loaded
  <2>2. tab[t].sent # NoLogin => stored' = tab[t].sent \/ SettledNext(tab[t].sent)
    BY <2>1 DEF TabInv, Settled, SettledNext
  <2>3. stored' # NoLogin => table[stored'].status # "ABSENT"
    BY <2>1 DEF TabInv
  <2>4. QED
    BY <1>1, <2>1, <2>2, <2>3, TabMoves
<1>8. CASE LogoutRefused(t)
  <2>1. /\ tab[t].page = "leaving" /\ Go(t, "left", tab[t].sent)
        /\ UNCHANGED <<table, stored>>
        /\ loose \subseteq loose'
        /\ tab[t].sent # NoLogin => SettledNext(tab[t].sent)
    BY <1>8 DEF LogoutRefused, Settled, SettledNext
  <2>2. /\ tab[t].sent # NoLogin => table[tab[t].sent].status # "ABSENT"
        /\ stored' # NoLogin => table[stored'].status # "ABSENT"
    BY <2>1 DEF TabInv
  <2>3. QED
    BY <1>1, <2>1, <2>2, TabMoves
<1>9. CASE LogoutHandled(t)
  <2>1. /\ tab[t].page = "leaving" /\ tab[t].sent \in Logins
        /\ Go(t, "left", tab[t].sent)
        /\ UNCHANGED <<stored, loose>>
    BY <1>1, <1>9 DEF LogoutHandled, TokenRuns
  <2>2. /\ table'[tab[t].sent].status = "REVOKED"
        /\ \A r \in Logins : table'[r] = table[r] \/ table'[r].status = "REVOKED"
    BY <1>9, <2>1 DEF LogoutHandled, LoginTypeOK, SessionRow
  <2>3. /\ tab'[t] = [page |-> "left", sent |-> tab[t].sent]
        /\ \A u \in Tabs \ {t} : tab'[u] = tab[u]
    BY <1>1, <2>1, GoType
  <2>4. \A u \in Tabs : /\ tab[u].sent \in Logins \union {NoLogin}
                        /\ tab'[u].sent = tab[u].sent
    <3>1. \A u \in Tabs : tab[u] \in Tab
      BY DEF LoginTypeOK
    <3>2. \A u \in Tabs : tab'[u].sent = tab[u].sent
      BY <2>3
    <3>3. QED
      BY <3>1, <3>2 DEF Tab
  <2>5. TabInv'
    <3> SUFFICES ASSUME NEW u \in Tabs
                 PROVE  LET r == tab'[u].sent IN
                        /\ tab'[u].page = "dashboard" => r = NoLogin
                        /\ r # NoLogin => table'[r].status # "ABSENT"
                        /\ tab'[u].page \in {"loading", "leaving"} /\ r # NoLogin
                             => stored' = r \/ SettledNext(r)
                        /\ tab'[u].page = "left" /\ r # NoLogin => SettledNext(r)
      BY <1>1, <2>1, <2>2 DEF TabInv, Settled, SettledNext
    <3>1. CASE u = t
      BY <2>1, <2>2, <2>3, <3>1 DEF Settled, SettledNext
    <3>2. CASE u # t
      BY <2>1, <2>2, <2>3, <2>4, <3>2 DEF TabInv, Settled, SettledNext
    <3>3. QED
      BY <3>1, <3>2
  <2>6. AbandonedIsExplained'
    BY <2>1, <2>2, <2>3, <2>4 DEF AbandonedIsExplained, Held
  <2>7. QED
    BY <2>5, <2>6
<1>10. QED
  BY <1>2, <1>3, <1>4, <1>5, <1>6, <1>7, <1>8, <1>9, SignInStep DEF TabStep

LEMMA TabInvStep ==
    ASSUME LoginTypeOK, TabInv, AbandonedIsExplained, [LoginNext]_loginVars
    PROVE  TabInv' /\ AbandonedIsExplained'
<1>1. CASE RevokeAll
  <2>1. \A s \in Logins : table'[s] = table[s] \/ table'[s].status = "REVOKED"
    BY <1>1 DEF RevokeAll, LoginTypeOK, SessionRow
  <2>2. UNCHANGED <<stored, tab, loose>>
    BY <1>1 DEF RevokeAll
  <2>3. QED
    BY <2>1, <2>2, BrowserAside
<1>2. CASE Tick \/ WrongPassword \/ LoginCutShort \/ Disable \/ Suspend
           \/ UNCHANGED loginVars
  <2>1. UNCHANGED <<table, stored, tab, loose>>
    BY <1>2 DEF Tick, WrongPassword, LoginCutShort, Disable, Suspend, loginVars
  <2>2. QED
    BY <2>1, BrowserAside
<1>3. QED
  BY <1>1, <1>2, TabStepKeeps DEF LoginNext

-----------------------------------------------------------------------------
(***************************************************************************)
(* Theorems                                                                *)
(***************************************************************************)

LEMMA InitLoginInv == LoginInit => LoginInv
<1> SUFFICES ASSUME LoginInit PROVE LoginInv
  OBVIOUS
<1> USE LoginAssumption DEF LoginAssumption, LoginInit
<1>1. LoginTypeOK
  BY DEF LoginTypeOK, Account, SessionRow, Tab, Pages
<1>2. GuessInv /\ LockBoundsGuesses
  BY DEF GuessInv, LockBoundsGuesses
<1>3. TabInv /\ AbandonedIsExplained
  BY DEF TabInv, AbandonedIsExplained
<1>4. QED
  BY <1>1, <1>2, <1>3 DEF LoginInv

\* In every reachable state the count and the lock of the account agree with
\* the wrong passwords judged, and every tab's token is as TabInv says.
THEOREM LoginInvariance == LoginSpec => []LoginInv
<1>1. LoginInv /\ [LoginNext]_loginVars => LoginInv'
  BY TypeStep, GuessStep, TabInvStep DEF LoginInv
<1>2. QED
  BY InitLoginInv, <1>1, PTL DEF LoginSpec

\* account.py, deps.py and the web pages keep their rows and tokens in range.
THEOREM LoginTypeCorrect == LoginSpec => []LoginTypeOK
<1>1. LoginInv => LoginTypeOK
  BY DEF LoginInv
<1>2. QED
  BY LoginInvariance, <1>1, PTL

\* account.py: beyond the limit, guesses are a lock's length apart, however
\* often the lock runs out.
THEOREM LockSlowsGuessing == LoginSpec => []LockBoundsGuesses
<1>1. LoginInv => LockBoundsGuesses
  BY DEF LoginInv
<1>2. QED
  BY LoginInvariance, <1>1, PTL

\* page.tsx: a user who logs out in one tab, with no other tab at work and no
\* answer lost, leaves no session behind at the control plane.
THEOREM NoSessionLeftBehind == LoginSpec => []AbandonedIsExplained
<1>1. LoginInv => AbandonedIsExplained
  BY DEF LoginInv
<1>2. QED
  BY LoginInvariance, <1>1, PTL
=============================================================================
