--------------------------- MODULE Reports_proofs ---------------------------
(***************************************************************************)
(* Proofs about the exported reports, for any number of windows, runs and  *)
(* reports.                                                                *)
(*                                                                         *)
(* A file and its row may drift apart whenever two exports of one report   *)
(* overlap, one is cut short, or the rows are taken back.  The argument is *)
(* that an export which still counts as alone has the report to itself     *)
(* (AloneInv), so that what it hashed is what is on disk when it registers *)
(* it (JobInv), and that a report whose row and file differ is either in   *)
(* the hands of an export or marked (AgreeInv).  For a CSV none of that is *)
(* needed: each of its prints is the same (Fits).                          *)
(***************************************************************************)
EXTENDS AnalysisPage, TLAPS

Hashes == Printed \union {None, Torn}

Types ==
    /\ made \in 0..MaxRuns
    /\ rendered \in Nat
    /\ artifact \in [Report -> Hashes]
    /\ files \in [Report -> Hashes]
    /\ job \in [Windows -> Job \union {None}]
    /\ kept # None => kept.artifact \in [Report -> Hashes]

\* c is a print of report k, or nothing, or torn.
Fits(k, c) ==
    c \notin {None, Torn} => c.run = k[1] /\ (k[2] = "CSV" => c.time = 0)

\* A row, of today or of the backup, is of the report and of some file.
RowFits(k, c) == Fits(k, c) /\ (c # None => files[k] # None)

FitInv ==
    \A k \in Report :
        /\ Fits(k, files[k])
        /\ RowFits(k, artifact[k])
        /\ kept # None => RowFits(k, kept.artifact[k])

\* What an export knows of its report.
Knows(j) ==
    /\ j.step # "found" => files[j.report] # None
    /\ j.step = "hashed" => Fits(j.report, j.hash)
    /\ j.step = "hashed" /\ j.alone => j.hash = files[j.report]
    /\ ~j.alone => j.report \in suspect

JobInv == \A w \in Windows : job[w] # None => Knows(job[w])

\* Two exports of one report: neither is alone.
AloneInv ==
    \A v, w \in Windows :
        /\ v # w /\ job[v] # None /\ job[w] # None
        /\ job[v].report = job[w].report
        => ~job[v].alone

AgreeInv ==
    \A k \in Report :
        /\ k \notin suspect /\ artifact[k] # None
        /\ \A w \in Windows : job[w] # None /\ job[w].report = k => job[w].step = "found"
        => files[k] = artifact[k]

IInv == Types /\ FitInv /\ JobInv /\ AloneInv /\ AgreeInv

-----------------------------------------------------------------------------
LEMMA JobFacts ==
    ASSUME Types, NEW w \in Windows, job[w] # None
    PROVE  /\ job[w] \in Job
           /\ job[w].report \in Report
           /\ job[w].step \in {"found", "written", "hashed"}
           /\ job[w].hash \in Hashes
           /\ job[w].alone \in BOOLEAN
BY DEF Types, Job, Hashes

\* A print of a report is one of its prints.
LEMMA ContentFacts ==
    ASSUME Types, NEW k \in Report
    PROVE  /\ Content(k) \in Printed /\ Content(k) # None
           /\ Content(k) \in Hashes
           /\ Fits(k, Content(k))
<1>1. k[1] \in 1..MaxRuns /\ k[2] \in Formats
  BY DEF Report
<1>2. Content(k) \in Printed
  BY <1>1 DEF Content, Printed, Types
<1>3. Content(k) # None
  BY <1>2, ReportsAssumption DEF ReportsAssumption
<1>4. Fits(k, Content(k))
  BY DEF Content, Fits
<1>5. QED
  BY <1>2, <1>3, <1>4 DEF Hashes

\* The exports and their reports are as before.
LEMMA RowsOnly ==
    ASSUME IInv, UNCHANGED <<files, job, kept>>,
           artifact' \in [Report -> Hashes],
           \A k \in Report : RowFits(k, artifact'[k]),
           suspect \subseteq suspect',
           \A k \in Report : artifact'[k] # artifact[k] => k \in suspect',
           made' \in 0..MaxRuns, rendered' = rendered
    PROVE  IInv'
<1> USE DEF IInv
<1>1. Types'
  BY DEF Types
<1>2. FitInv'
  BY DEF FitInv, RowFits, Fits
<1>3. JobInv'
  BY DEF JobInv, Knows, Fits
<1>4. AloneInv'
  BY DEF AloneInv
<1>5. AgreeInv'
  BY DEF AgreeInv
<1>6. QED
  BY <1>1, <1>2, <1>3, <1>4, <1>5

LEMMA Saves ==
    ASSUME IInv, AddRun
    PROVE  IInv'
<1>1. /\ made' \in 0..MaxRuns
      /\ UNCHANGED <<artifact, files, rendered, kept, job, suspect>>
  BY ReportsAssumption DEF AddRun, SaveRun, IInv, Types, ReportsAssumption
<1>2. QED
  BY <1>1, RowsOnly DEF IInv, Types, FitInv

LEMMA BacksUp ==
    ASSUME IInv, BackUp
    PROVE  IInv'
<1> USE DEF IInv
<1>1. /\ kept'.artifact = artifact
      /\ UNCHANGED <<made, saved, artifact, files, rendered, job, suspect>>
  BY DEF BackUp
<1>2. Types'
  BY <1>1 DEF Types
<1>3. FitInv'
  BY <1>1 DEF FitInv, RowFits, Fits
<1>4. JobInv' /\ AloneInv' /\ AgreeInv'
  BY <1>1 DEF JobInv, Knows, Fits, AloneInv, AgreeInv
<1>5. QED
  BY <1>2, <1>3, <1>4

LEMMA Restores ==
    ASSUME IInv, RestoreRows
    PROVE  IInv'
<1>1. /\ kept # None /\ artifact' = kept.artifact
      /\ suspect' = suspect \union {k \in Report : artifact[k] # kept.artifact[k]}
      /\ UNCHANGED <<made, files, rendered, kept, job>>
  BY DEF RestoreRows
<1>2. QED
  BY <1>1, RowsOnly DEF IInv, Types, FitInv

LEMMA Starts ==
    ASSUME IInv, NEW w \in Windows, NEW r \in 1..made, NEW format \in Formats,
           StartExport(w, r, format)
    PROVE  IInv'
<1> USE DEF IInv
<1> DEFINE k == <<r, format>>
           others == OthersOn(k, w)
           new == [report |-> k, step |-> "found", hash |-> None,
                   alone |-> others = {}]
<1>1. /\ job[w] = None
      /\ job' = [v \in Windows |->
                    IF v = w THEN new
                    ELSE IF v \in others THEN [job[v] EXCEPT !.alone = FALSE]
                    ELSE job[v]]
      /\ suspect' = IF others # {} THEN suspect \union {k} ELSE suspect
      /\ UNCHANGED <<made, saved, artifact, files, rendered, kept>>
  BY DEF StartExport
<1>2. k \in Report
  BY ReportsAssumption DEF Types, Report, ReportsAssumption
<1>3. others = {v \in Windows \ {w} : job[v] # None /\ job[v].report = k}
  BY DEF OthersOn
<1>4. /\ new \in Job /\ new # None /\ new.report = k /\ new.step = "found"
      /\ new.alone = (others = {})
  <2>1. (others = {}) \in BOOLEAN
    OBVIOUS
  <2> HIDE DEF others, k
  <2>2. new \in Job
    BY <1>2, <2>1 DEF Job
  <2>3. QED
    BY <2>2, ReportsAssumption DEF ReportsAssumption
<1> HIDE DEF new, others, k
<1>5. job'[w] = new
  BY <1>1
<1>6. ASSUME NEW v \in Windows \ {w}
      PROVE  /\ job[v] = None <=> job'[v] = None
             /\ job'[v] \in Job \union {None}
             /\ job[v] # None =>
                  /\ job'[v].report = job[v].report
                  /\ job'[v].step = job[v].step
                  /\ job'[v].hash = job[v].hash
                  /\ job'[v].alone = (job[v].alone /\ v \notin others)
  <2>1. CASE v \in others
    <3>1. job[v] # None /\ job[v] \in Job
      BY <1>3, <2>1, JobFacts
    <3>2. job'[v] = [job[v] EXCEPT !.alone = FALSE]
      BY <1>1, <2>1
    <3>3. /\ job'[v] \in Job
          /\ job'[v].report = job[v].report /\ job'[v].step = job[v].step
          /\ job'[v].hash = job[v].hash /\ job'[v].alone = FALSE
      BY <3>1, <3>2 DEF Job
    <3>4. job'[v] # None
      BY <3>3, ReportsAssumption DEF ReportsAssumption
    <3>5. QED
      BY <2>1, <3>1, <3>3, <3>4
  <2>2. CASE v \notin others
    <3>1. job'[v] = job[v] /\ job[v] \in Job \union {None}
      BY <1>1, <2>2 DEF Types
    <3>2. job[v] # None => job[v].alone \in BOOLEAN
      BY JobFacts
    <3>3. QED
      BY <2>2, <3>1, <3>2
  <2>3. QED
    BY <2>1, <2>2
<1>7. Types'
  <2>1. job' \in [Windows -> Job \union {None}]
    <3>1. \A v \in Windows : job'[v] \in Job \union {None}
      BY <1>4, <1>5, <1>6
    <3>2. QED
      BY <1>1, <3>1
  <2>2. QED
    BY <1>1, <2>1 DEF Types
<1>8. FitInv'
  BY <1>1 DEF FitInv, RowFits, Fits
<1>9. JobInv'
  <2> SUFFICES ASSUME NEW v \in Windows, job'[v] # None
               PROVE  Knows(job[v])'
    BY DEF JobInv
  <2>1. CASE v = w
    BY <1>1, <1>4, <1>5, <2>1 DEF Knows
  <2>2. CASE v # w
    <3>1. Knows(job[v]) /\ job[v] # None
      BY <1>6, <2>2 DEF JobInv
    <3>2. v \in others => k \in suspect' /\ job[v].report = k
      BY <1>1, <1>3
    <3>3. suspect \subseteq suspect'
      BY <1>1
    <3>4. job[v].alone \in BOOLEAN
      BY <3>1, JobFacts
    <3>5. QED
      BY <1>1, <1>6, <2>2, <3>1, <3>2, <3>3, <3>4 DEF Knows, Fits
  <2>3. QED
    BY <2>1, <2>2
<1>10. AloneInv'
  <2> SUFFICES ASSUME NEW u \in Windows, NEW v \in Windows, u # v,
                      job'[u] # None, job'[v] # None,
                      job'[u].report = job'[v].report
               PROVE  ~job'[u].alone
    BY DEF AloneInv
  <2>1. CASE u = w
    <3>1. v \in others
      BY <1>3, <1>4, <1>5, <1>6, <2>1
    <3>2. QED
      BY <1>4, <1>5, <2>1, <3>1
  <2>2. CASE v = w
    <3>1. u \in others
      BY <1>3, <1>4, <1>5, <1>6, <2>2
    <3>2. QED
      BY <1>6, <2>2, <3>1
  <2>3. CASE u # w /\ v # w
    BY <1>6, <2>3 DEF AloneInv
  <2>4. QED
    BY <2>1, <2>2, <2>3
<1>11. AgreeInv'
  <2> SUFFICES ASSUME NEW g \in Report, g \notin suspect', artifact[g] # None,
                      \A v \in Windows : job'[v] # None /\ job'[v].report = g
                         => job'[v].step = "found"
               PROVE  files[g] = artifact[g]
    BY <1>1 DEF AgreeInv
  <2>1. g \notin suspect
    BY <1>1
  <2>2. \A v \in Windows : job[v] # None /\ job[v].report = g => job[v].step = "found"
    BY <1>1, <1>6
  <2>3. QED
    BY <2>1, <2>2 DEF AgreeInv
<1>12. QED
  BY <1>7, <1>8, <1>9, <1>10, <1>11

\* What a change of one export leaves of the others.
LEMMA OneMoves ==
    ASSUME Types, NEW w \in Windows, NEW j \in Job \union {None},
           job' = [job EXCEPT ![w] = j]
    PROVE  /\ job' \in [Windows -> Job \union {None}]
           /\ job'[w] = j
           /\ \A v \in Windows \ {w} : job'[v] = job[v]
BY DEF Types

\* An export goes on: it stays with its report and as alone as it was.
LEMMA GoesOn ==
    ASSUME IInv, NEW w \in Windows, job[w] # None, NEW j \in Job,
           job' = [job EXCEPT ![w] = j],
           j.report = job[w].report, j.alone = job[w].alone, j.step # "found",
           UNCHANGED <<made, artifact, kept, suspect>>, rendered' \in Nat,
           files' \in [Report -> Hashes],
           \A k \in Report \ {j.report} : files'[k] = files[k],
           Fits(j.report, files'[j.report]), files'[j.report] # None,
           files' = files \/ job[w].step = "found",
           j.step = "hashed" => j.hash = files'[j.report]
    PROVE  IInv'
<1> USE DEF IInv
<1> DEFINE k == j.report
<1>1. /\ job' \in [Windows -> Job \union {None}]
      /\ job'[w] = j /\ j # None
      /\ \A v \in Windows \ {w} : job'[v] = job[v]
  BY OneMoves, ReportsAssumption DEF ReportsAssumption
<1>2. k \in Report /\ j.alone \in BOOLEAN
  BY JobFacts
<1>3. \A g \in Report : files[g] # None => files'[g] # None
  BY <1>2
<1>4. Types'
  BY <1>1 DEF Types
<1>5. FitInv'
  <2> SUFFICES ASSUME NEW g \in Report
               PROVE  /\ Fits(g, files'[g])
                      /\ RowFits(g, artifact[g])'
                      /\ kept # None => RowFits(g, kept.artifact[g])'
    BY DEF FitInv, Fits, RowFits
  <2>1. Fits(g, files'[g])
    BY DEF FitInv
  <2>2. QED
    BY <1>3, <2>1 DEF FitInv, RowFits, Fits
<1>6. JobInv'
  <2> SUFFICES ASSUME NEW v \in Windows, job'[v] # None
               PROVE  Knows(job[v])'
    BY DEF JobInv
  <2>1. CASE v = w
    <3>1. Knows(job[w])
      BY DEF JobInv
    <3>2. QED
      BY <1>1, <2>1, <3>1 DEF Knows, Fits
  <2>2. CASE v # w
    <3>1. Knows(job[v]) /\ job[v] # None /\ job'[v] = job[v] /\ job[v].report \in Report
      BY <1>1, <2>2, JobFacts DEF JobInv
    <3>2. job[v].alone => files'[job[v].report] = files[job[v].report]
      BY <1>2, <2>2, <3>1 DEF AloneInv
    <3>3. QED
      BY <1>3, <3>1, <3>2 DEF Knows, Fits
  <2>3. QED
    BY <2>1, <2>2
<1>7. AloneInv'
  <2>1. \A v \in Windows : job'[v] # None =>
          /\ job[v] # None /\ job'[v].report = job[v].report
          /\ job'[v].alone = job[v].alone
    BY <1>1
  <2>2. QED
    BY <2>1 DEF AloneInv
<1>8. AgreeInv'
  <2> SUFFICES ASSUME NEW g \in Report, g \notin suspect, artifact[g] # None,
                      \A v \in Windows : job'[v] # None /\ job'[v].report = g
                         => job'[v].step = "found"
               PROVE  files'[g] = artifact[g]
    BY DEF AgreeInv
  <2>1. g # k
    BY <1>1
  <2>2. \A v \in Windows : job[v] # None /\ job[v].report = g => job[v].step = "found"
    BY <1>1, <2>1
  <2>3. QED
    BY <2>1, <2>2 DEF AgreeInv
<1>9. QED
  BY <1>4, <1>5, <1>6, <1>7, <1>8

LEMMA Renders ==
    ASSUME IInv, NEW w \in Windows, Render(w)
    PROVE  IInv'
<1> DEFINE j == [job[w] EXCEPT !.step = "written"]
           k == job[w].report
<1>1. /\ job[w] # None /\ job[w].step = "found"
      /\ job' = [job EXCEPT ![w] = j]
      /\ rendered' = rendered + 1
      /\ files' = [files EXCEPT ![k] = Content(k)]
      /\ UNCHANGED <<made, saved, artifact, kept, suspect>>
  BY DEF Render, At
<1>2. job[w] \in Job /\ k \in Report /\ Types
  BY <1>1, JobFacts DEF IInv
<1>3. /\ j \in Job /\ j.report = k /\ j.alone = job[w].alone /\ j.step = "written"
  BY <1>2 DEF Job
<1>4. /\ Content(k) \in Hashes /\ Content(k) # None /\ Fits(k, Content(k))
  BY <1>2, ContentFacts
<1>5. /\ files' \in [Report -> Hashes] /\ files'[k] = Content(k)
      /\ \A g \in Report \ {k} : files'[g] = files[g]
      /\ rendered' \in Nat
  <2> HIDE DEF j, k
  <2>1. QED
    BY <1>1, <1>2, <1>4 DEF Types
<1> HIDE DEF j, k
<1>6. k = job[w].report
  BY DEF k
<1>7. QED
  BY <1>1, <1>3, <1>4, <1>5, <1>6, GoesOn

LEMMA HashesTheFile ==
    ASSUME IInv, NEW w \in Windows, Hash(w)
    PROVE  IInv'
<1> DEFINE k == job[w].report
           h == files[k]
           j1 == [job[w] EXCEPT !.step = "hashed"]
           j == [j1 EXCEPT !.hash = h]
<1>1. /\ job[w] # None /\ job[w].step = "written"
      /\ UNCHANGED <<made, saved, artifact, files, rendered, kept, suspect>>
  BY DEF Hash, At
<1>2. job' = [job EXCEPT ![w] = j]
  BY DEF Hash
<1>3. job[w] \in Job /\ k \in Report /\ Types
  BY <1>1, JobFacts DEF IInv
<1>4. h \in Hashes /\ h # None /\ Fits(k, h)
  BY <1>1, <1>3 DEF IInv, Types, FitInv, JobInv, Knows
<1>5. j \in Job /\ j.report = k /\ j.alone = job[w].alone /\ j.step = "hashed"
      /\ j.hash = h
  <2>1. j1 \in Job /\ j1.report = k /\ j1.alone = job[w].alone /\ j1.step = "hashed"
    BY <1>3 DEF Job
  <2> HIDE DEF j1, h, k
  <2>2. QED
    BY <1>4, <2>1 DEF Job, Hashes
<1>6. /\ files' = files /\ files \in [Report -> Hashes] /\ rendered' \in Nat
      /\ h = files'[k] /\ k = job[w].report
  BY <1>1, <1>3 DEF Types
<1> HIDE DEF j, k, h
<1>7. QED
  BY <1>1, <1>2, <1>4, <1>5, <1>6, GoesOn

\* An export ends: its report agrees with its row or is marked.
LEMMA Ends ==
    ASSUME IInv, NEW w \in Windows, job[w] # None, NEW k \in Report,
           k = job[w].report,
           job' = [job EXCEPT ![w] = None],
           UNCHANGED <<made, rendered, kept>>,
           artifact' \in [Report -> Hashes], files' \in [Report -> Hashes],
           \A g \in Report \ {k} : /\ files'[g] = files[g]
                                   /\ artifact'[g] = artifact[g]
                                   /\ g \in suspect' <=> g \in suspect,
           files[k] # None => files'[k] # None,
           Fits(k, files'[k]), Fits(k, artifact'[k]),
           artifact'[k] # None => files'[k] # None,
           k \in suspect' \/ artifact'[k] = files'[k],
           job[w].alone \/ k \in suspect'
    PROVE  IInv'
<1> USE DEF IInv
<1>1. /\ job' \in [Windows -> Job \union {None}] /\ job'[w] = None
      /\ \A v \in Windows \ {w} : job'[v] = job[v]
  BY OneMoves
<1>2. \A g \in Report : files[g] # None => files'[g] # None
  OBVIOUS
<1>3. Types'
  BY <1>1 DEF Types
<1>4. FitInv'
  <2> SUFFICES ASSUME NEW g \in Report
               PROVE  /\ Fits(g, files'[g])
                      /\ Fits(g, artifact'[g])
                      /\ artifact'[g] # None => files'[g] # None
                      /\ kept # None => /\ Fits(g, kept.artifact[g])
                                        /\ kept.artifact[g] # None => files'[g] # None
    BY DEF FitInv, Fits, RowFits
  <2>1. CASE g = k
    BY <1>2, <2>1 DEF FitInv, RowFits
  <2>2. CASE g # k
    BY <1>2, <2>2 DEF FitInv, RowFits
  <2>3. QED
    BY <2>1, <2>2
<1>5. JobInv'
  <2> SUFFICES ASSUME NEW v \in Windows, job'[v] # None
               PROVE  Knows(job[v])'
    BY DEF JobInv
  <2>1. /\ v # w /\ job'[v] = job[v] /\ job[v] # None
        /\ job[v].report \in Report /\ Knows(job[v])
    BY <1>1, JobFacts DEF JobInv
  <2>2. CASE job[v].report = k
    <3>1. ~job[v].alone /\ ~job[w].alone
      BY <2>1, <2>2 DEF AloneInv
    <3>2. QED
      BY <1>2, <2>1, <2>2, <3>1 DEF Knows, Fits
  <2>3. CASE job[v].report # k
    BY <2>1, <2>3 DEF Knows, Fits
  <2>4. QED
    BY <2>2, <2>3
<1>6. AloneInv'
  BY <1>1 DEF AloneInv
<1>7. AgreeInv'
  <2> SUFFICES ASSUME NEW g \in Report, g \notin suspect', artifact'[g] # None,
                      \A v \in Windows : job'[v] # None /\ job'[v].report = g
                         => job'[v].step = "found"
               PROVE  files'[g] = artifact'[g]
    BY DEF AgreeInv
  <2>1. CASE g = k
    BY <2>1
  <2>2. CASE g # k
    <3>1. \A v \in Windows : job[v] # None /\ job[v].report = g => job[v].step = "found"
      BY <1>1, <2>2
    <3>2. QED
      BY <2>2, <3>1 DEF AgreeInv
  <2>3. QED
    BY <2>1, <2>2
<1>8. QED
  BY <1>3, <1>4, <1>5, <1>6, <1>7

LEMMA Registers ==
    ASSUME IInv, NEW w \in Windows, Register(w)
    PROVE  IInv'
<1> DEFINE k == job[w].report
           h == job[w].hash
<1>1. /\ job[w] # None /\ job[w].step = "hashed"
      /\ artifact' = [artifact EXCEPT ![k] = h]
      /\ suspect' = IF job[w].alone THEN suspect \ {k} ELSE suspect
      /\ job' = [job EXCEPT ![w] = None]
      /\ UNCHANGED <<made, saved, files, rendered, kept>>
  BY DEF Register, At
<1>2. k \in Report /\ h \in Hashes /\ job[w].alone \in BOOLEAN /\ Types
  BY <1>1, JobFacts DEF IInv
<1>3. /\ files[k] # None /\ Fits(k, h)
      /\ job[w].alone => h = files[k]
      /\ ~job[w].alone => k \in suspect
  BY <1>1 DEF IInv, JobInv, Knows
<1>4. Fits(k, files[k]) /\ files \in [Report -> Hashes]
  BY <1>2 DEF IInv, FitInv, Types
<1> HIDE DEF h, k
<1>5. /\ artifact' \in [Report -> Hashes] /\ artifact'[k] = h
      /\ \A g \in Report \ {k} : artifact'[g] = artifact[g]
  BY <1>1, <1>2 DEF Types
<1>6. /\ \A g \in Report \ {k} : g \in suspect' <=> g \in suspect
      /\ k \in suspect' \/ artifact'[k] = files'[k]
      /\ job[w].alone \/ k \in suspect'
  BY <1>1, <1>2, <1>3, <1>5
<1>7. k = job[w].report
  BY DEF k
<1>8. QED
  BY <1>1, <1>2, <1>3, <1>4, <1>5, <1>6, <1>7, Ends

LEMMA CutsShort ==
    ASSUME IInv, NEW w \in Windows, CutShort(w)
    PROVE  IInv'
<1> DEFINE k == job[w].report
<1>1. /\ job[w] # None
      /\ files' = files \/ files' = [files EXCEPT ![k] = Torn]
      /\ suspect' = suspect \union {k}
      /\ job' = [job EXCEPT ![w] = None]
      /\ UNCHANGED <<made, saved, artifact, rendered, kept>>
  BY DEF CutShort
<1>2. k \in Report /\ Types
  BY <1>1, JobFacts DEF IInv
<1>3. /\ Fits(k, files[k]) /\ Fits(k, artifact[k])
      /\ artifact[k] # None => files[k] # None
  BY <1>2 DEF IInv, FitInv, RowFits
<1>4. Torn \in Hashes /\ Torn # None /\ Fits(k, Torn)
  BY ReportsAssumption DEF Hashes, Fits, ReportsAssumption
<1> HIDE DEF k
<1>5. /\ files' \in [Report -> Hashes] /\ files'[k] \in {files[k], Torn}
      /\ \A g \in Report \ {k} : files'[g] = files[g]
      /\ artifact' \in [Report -> Hashes]
  BY <1>1, <1>2, <1>4 DEF Types
<1>6. /\ Fits(k, files'[k]) /\ Fits(k, artifact'[k])
      /\ files[k] # None => files'[k] # None
      /\ artifact'[k] # None => files'[k] # None
  BY <1>1, <1>3, <1>4, <1>5
<1>7. k = job[w].report
  BY DEF k
<1>8. QED
  BY <1>1, <1>2, <1>5, <1>6, <1>7, Ends

-----------------------------------------------------------------------------
(***************************************************************************)
(* The specification                                                       *)
(***************************************************************************)

LEMMA StepKeeps ==
    ASSUME IInv, [ReportsNext]_reports
    PROVE  IInv'
<1>1. CASE AddRun
  BY <1>1, Saves
<1>2. CASE BackUp
  BY <1>2, BacksUp
<1>3. CASE RestoreRows
  BY <1>3, Restores
<1>4. CASE \E w \in Windows :
             \/ \E r \in 1..made, format \in Formats : StartExport(w, r, format)
             \/ Render(w) \/ Hash(w) \/ Register(w) \/ CutShort(w)
  BY <1>4, Starts, Renders, HashesTheFile, Registers, CutsShort
<1>5. CASE UNCHANGED reports
  BY <1>5, RowsOnly DEF reports, IInv, Types, FitInv
<1>6. QED
  BY <1>1, <1>2, <1>3, <1>4, <1>5 DEF ReportsNext

\* The inductive invariant holds from the first start on.
THEOREM Invariance == ReportsSpec => []IInv
<1>1. ReportsInit => IInv
  <2> SUFFICES ASSUME ReportsInit PROVE IInv
    OBVIOUS
  <2>1. Types
    BY ReportsAssumption DEF ReportsInit, Types, Hashes, ReportsAssumption
  <2>2. FitInv
    BY DEF ReportsInit, FitInv, RowFits, Fits
  <2>3. JobInv /\ AloneInv /\ AgreeInv
    BY DEF ReportsInit, JobInv, AloneInv, AgreeInv
  <2>4. QED
    BY <2>1, <2>2, <2>3 DEF IInv
<1>2. IInv /\ [ReportsNext]_reports => IInv'
  BY StepKeeps
<1>3. QED
  BY <1>1, <1>2, PTL DEF ReportsSpec

\* A registered hash is that of the file but where an export was overlapped or
\* cut short or the rows were taken back; for a CSV it is so even then, unless
\* the file is torn; and every registered report is of its run.
THEOREM HashTellsFile == ReportsSpec => []ReportMatchesFile
<1>1. IInv => ReportMatchesFile
  <2> SUFFICES ASSUME IInv, NEW k \in Report, artifact[k] # None
               PROVE  /\ artifact[k] # Torn => artifact[k].run = k[1]
                      /\ k \notin suspect /\ (\A w \in Windows :
                            job[w] # None => job[w].report # k)
                           => files[k] = artifact[k]
                      /\ k[2] = "CSV" /\ Torn \notin {artifact[k], files[k]}
                           => files[k] = artifact[k]
    BY DEF ReportMatchesFile
  <2>1. artifact[k] # Torn => artifact[k].run = k[1]
    BY DEF IInv, FitInv, RowFits, Fits
  <2>2. ASSUME k \notin suspect, \A w \in Windows : job[w] # None => job[w].report # k
        PROVE  files[k] = artifact[k]
    BY <2>2 DEF IInv, AgreeInv
  <2>3. ASSUME k[2] = "CSV", Torn \notin {artifact[k], files[k]}
        PROVE  files[k] = artifact[k]
    <3>1. files[k] # None /\ files[k] \in Printed /\ artifact[k] \in Printed
      BY <2>3 DEF IInv, FitInv, RowFits, Types, Hashes
    <3>2. /\ files[k].run = k[1] /\ files[k].time = 0
          /\ artifact[k].run = k[1] /\ artifact[k].time = 0
      BY <2>3, <3>1 DEF IInv, FitInv, RowFits, Fits
    <3>3. /\ files[k] = [run |-> k[1], time |-> 0]
          /\ artifact[k] = [run |-> k[1], time |-> 0]
      BY <3>1, <3>2 DEF Printed
    <3>4. QED
      BY <3>3
  <2>4. QED
    BY <2>1, <2>2, <2>3
<1>2. QED
  BY <1>1, Invariance, PTL

-----------------------------------------------------------------------------
(***************************************************************************)
(* The analysis page.  Nothing about the runs is needed: the parts of the  *)
(* page change together or, after a complaint, the tables are empty.       *)
(***************************************************************************)

IsPage(p) ==
    p = [meta |-> p.meta, metrics |-> p.metrics, warnings |-> p.warnings,
         issues |-> p.issues, visible |-> p.visible]

PageIInv == IsPage(page) /\ ShownIsOneRun

\* A result fills every table; what it shows does not depend on the page before.
LEMMA ShowsOneRun ==
    ASSUME NEW r, page' = Shows(r)
    PROVE  PageIInv'
BY DEF Shows, PageIInv, IsPage, ShownIsOneRun

\* Clearing the issue list leaves the rest of the page.
LEMMA WipedIsOneRun ==
    ASSUME PageIInv
    PROVE  /\ IsPage(Wiped(page))
           /\ Wiped(page).metrics = Wiped(page).warnings
           /\ Wiped(page).metrics # None =>
                 /\ Wiped(page).meta = Wiped(page).metrics
                 /\ Wiped(page).issues = {} /\ ~Wiped(page).visible
BY DEF PageIInv, IsPage, Wiped, ShownIsOneRun

\* A complaint leaves no figures.
LEMMA ComplaintShowsNone ==
    ASSUME NEW p, IsPage(p), NEW entry,
           \/ page' = Complains(p, entry)
           \/ \E id : page' = [Complains(p, entry) EXCEPT !.meta = id]
    PROVE  PageIInv'
BY DEF PageIInv, IsPage, Complains, ShownIsOneRun

LEMMA PageStep ==
    ASSUME PageIInv, [PageNext]_<<reports, analysisPage>>
    PROVE  PageIInv'
<1>1. IsPage(page)
  BY DEF PageIInv
<1>2. CASE RunSucceeds
  BY <1>2, ShowsOneRun DEF RunSucceeds
<1>3. CASE RunWithoutData \/ RunInvalid
  <2>1. \E entry, id : page' = [Complains(Wiped(page), entry) EXCEPT !.meta = id]
    BY <1>3 DEF RunWithoutData, RunInvalid
  <2>2. QED
    BY <2>1, WipedIsOneRun, ComplaintShowsNone
<1>4. CASE RunRaises
  BY <1>4, WipedIsOneRun DEF RunRaises, PageIInv, ShownIsOneRun
<1>5. ASSUME NEW r \in 0..made, ViewRun(r)
      PROVE  PageIInv'
  BY <1>1, <1>5, ShowsOneRun, ComplaintShowsNone DEF ViewRun
<1>6. ASSUME NEW i \in DOMAIN history, LoadRow(i)
      PROVE  PageIInv'
  BY <1>6, ShowsOneRun, WipedIsOneRun, ComplaintShowsNone DEF LoadRow
<1>7. ASSUME NEW i \in DOMAIN history, NEW column \in 1..2, DoubleClick(i, column)
      PROVE  PageIInv'
  BY <1>6, <1>7, WipedIsOneRun, ComplaintShowsNone DEF DoubleClick
<1>8. CASE UNCHANGED page
  BY <1>8 DEF PageIInv, ShownIsOneRun
<1>9. QED
  BY <1>2, <1>3, <1>4, <1>5, <1>6, <1>7, <1>8 DEF PageNext, OpenHistory, analysisPage

\* However runs are made, looked up, loaded from an old table, restored away or
\* broken off, the figures on the page are those of the run named above them.
THEOREM PageShowsOneRun == PageSpec => []ShownIsOneRun
<1>1. PageInit => PageIInv
  BY DEF PageInit, Empty, PageIInv, IsPage, ShownIsOneRun
<1>2. PageIInv /\ [PageNext]_<<reports, analysisPage>> => PageIInv'
  BY PageStep
<1>3. PageIInv => ShownIsOneRun
  BY DEF PageIInv
<1>4. QED
  BY <1>1, <1>2, <1>3, PTL DEF PageSpec
=============================================================================
