----------------------- MODULE ImportPipeline_proofs -----------------------
(***************************************************************************)
(* Proofs about the CSV import, for any files, any number of batches and   *)
(* crashes, next to a SyncWorker that inserts events of its own.           *)
(*                                                                         *)
(* That no row of a file gets lost is carried through run_import by Hand:  *)
(* between any two of its transactions each row of the file is a draft, or *)
(* stored, or has an ErrorRecord; and what add_error has written of the    *)
(* batch is what it has taken off its list.  The rows of a batch that has  *)
(* ended keep their errors, because run_import writes those of its own     *)
(* batch only (BatchInv), and nothing that is stored is ever taken away.   *)
(*                                                                         *)
(* The second part is about the wizard that starts the import.             *)
(***************************************************************************)
EXTENDS ImportPipeline, ImportWizard, FiniteSetTheorems, FunctionTheorems,
        WellFoundedInduction, TLAPS

Busy == importer.pc # "idle"

\* The errors of a batch that are in the table.
Filed(b) == {x.error : x \in ErrorsOf(b)}

\* Row r of file f is stored, or has an error in E.
Covered(f, r, E) == Stored(f, Content[f][r]) \/ \E x \in E : x.row = r

AllCovered(f, E) == \A r \in DOMAIN Content[f] : Covered(f, r, E)

\* What run_import's place says of its batch b of file f.
Hand(b, f) ==
    /\ batches[b].status = IF importer.pc = "fail" THEN "COMPLETED" ELSE "RUNNING"
    /\ importer.drafts \subseteq Clean(Content[f])
    /\ IsFiniteSet(importer.errors)
    /\ importer.pc = "addSku" => f \in MasterFiles
    /\ importer.pc \in {"check", "insert", "rebuild"} => f \notin MasterFiles
    /\ importer.pc \in {"addSku", "check", "insert"} =>
         \A r \in DOMAIN Content[f] :
            r \in importer.drafts \/ Covered(f, r, importer.errors)
    /\ importer.pc \in {"rebuild", "addError"} => AllCovered(f, importer.errors)
    /\ importer.pc = "insert" => importer.seen \subseteq inventory
    /\ importer.pc = "addError" => /\ importer.unsaved \subseteq importer.errors
                                   /\ Filed(b) = importer.errors \ importer.unsaved
    /\ importer.pc \notin {"addError", "fail"} => Filed(b) = {}

HandInv ==
    /\ ~Busy => importer = Idle
    /\ Busy => importer.batch \in BatchIds /\ File \in Files
    /\ \A b \in BatchIds, f \in Files :
         Busy /\ importer.batch = b /\ batches[b].file = f => Hand(b, f)

\* What a batch that has ended says of its file.
EndedOk(b, f) ==
    /\ AllCovered(f, Filed(b))
    /\ batches[b].rows = Len(Content[f])
    /\ batches[b].errors = Cardinality(ErrorsOf(b))

BatchInv ==
    \A b \in BatchIds :
        /\ batches[b].status # "ABSENT" => batches[b].file \in Files
        /\ batches[b].status = "ABSENT" => Filed(b) = {}
        /\ \A f \in Files : Ended(b) /\ batches[b].file = f => EndedOk(b, f)

\* A file in the hands of run_import has no other batch that was committed.
SoleInv ==
    /\ CompletedOnce
    /\ Busy /\ importer.pc # "fail" =>
         \A c \in BatchIds : batches[c].status = "COMPLETED" => batches[c].file # File

IInv == /\ TypeOK /\ HandInv /\ BatchInv /\ SoleInv
        /\ UnfinishedHasOwner /\ StaleOnlyBySyncOrCrash

-----------------------------------------------------------------------------
(***************************************************************************)
(* Facts about data                                                        *)
(***************************************************************************)

LEMMA Least ==
    ASSUME NEW S \in SUBSET Nat, S # {}
    PROVE  \E x \in S : \A y \in S : x <= y
<1> DEFINE R == OpToRel(<, Nat)
<1>1. IsWellFoundedOn(R, Nat)
  BY NatLessThanWellFounded
<1>2. \E x \in S : \A y \in S : ~(<<y, x>> \in R)
  <2> HIDE DEF R
  <2>1. QED
    BY <1>1, WFMin
<1>3. \A x, y \in Nat : y < x => <<y, x>> \in R
  BY DEF OpToRel
<1> HIDE DEF R
<1>4. PICK x \in S : \A y \in S : ~(<<y, x>> \in R)
  BY <1>2
<1>5. ASSUME NEW y \in S PROVE x <= y
  <2>1. x \in Nat /\ y \in Nat
    OBVIOUS
  <2>2. ~(y < x)
    BY <1>3, <1>4, <2>1
  <2>3. QED
    BY <2>1, <2>2
<1>6. QED
  BY <1>5

LEMMA ImageFinite ==
    ASSUME NEW f, IsFiniteSet(DOMAIN f), f = [x \in DOMAIN f |-> f[x]]
    PROVE  IsFiniteSet({f[x] : x \in DOMAIN f})
<1>1. f \in Surjection(DOMAIN f, {f[x] : x \in DOMAIN f})
  BY DEF Surjection
<1>2. QED
  BY <1>1, FS_Surjection

\* The rows of a file and what the importer's checks promise of them.
LEMMA ContentFacts ==
    ASSUME NEW f \in Files
    PROVE  /\ DOMAIN Content[f] = 1..Len(Content[f])
           /\ Len(Content[f]) \in Nat
           /\ DOMAIN Content[f] \subseteq RowNos
           /\ DOMAIN Content[f] \subseteq Nat
           /\ IsFiniteSet(DOMAIN Content[f])
           /\ \A r \in DOMAIN Content[f] :
                /\ Content[f][r].problems \in Nat
                /\ Content[f][r].sku \in Skus \union {None}
                /\ r \in Clean(Content[f]) =>
                     /\ Content[f][r].sku \in Skus
                     /\ f \notin MasterFiles => Content[f][r].event \in Events
<1> USE ImportAssumption DEF ImportAssumption
<1>1. Content[f] \in Seq(Row)
  OBVIOUS
<1>2. DOMAIN Content[f] = 1..Len(Content[f]) /\ Len(Content[f]) \in Nat
  BY <1>1
<1>3. IsFiniteSet(DOMAIN Content[f])
  BY <1>2, FS_Interval
<1>4. DOMAIN Content[f] \subseteq RowNos
  BY DEF RowNos
<1>5. ASSUME NEW r \in DOMAIN Content[f]
      PROVE  /\ Content[f][r].problems \in Nat
             /\ Content[f][r].sku \in Skus \union {None}
             /\ r \in Clean(Content[f]) =>
                  /\ Content[f][r].sku \in Skus
                  /\ f \notin MasterFiles => Content[f][r].event \in Events
  <2>1. Content[f][r] \in Row
    BY <1>1, <1>2
  <2>2. QED
    BY <2>1 DEF Row, Clean
<1>6. QED
  BY <1>2, <1>3, <1>4, <1>5

\* The ErrorRecords of the cells.
LEMMA FieldFacts ==
    ASSUME NEW f \in Files
    PROVE  /\ FieldErrors(Content[f]) \subseteq Error
           /\ IsFiniteSet(FieldErrors(Content[f]))
           /\ \A r \in DOMAIN Content[f] : r \notin Clean(Content[f]) =>
                \E x \in FieldErrors(Content[f]) : x.row = r
<1> DEFINE D == DOMAIN Content[f]
           E(r) == {[row |-> r, code |-> "FIELD", nth |-> n]
                      : n \in 1..Content[f][r].problems}
           F == FieldErrors(Content[f])
<1>1. F = UNION {E(r) : r \in D}
  BY DEF FieldErrors
<1>2. ASSUME NEW r \in D
      PROVE  IsFiniteSet(E(r)) /\ E(r) \subseteq Error
  <2> DEFINE P == 1..Content[f][r].problems
             e == [n \in P |-> [row |-> r, code |-> "FIELD", nth |-> n]]
  <2>1. IsFiniteSet(P) /\ P \subseteq Nat
    <3>1. Content[f][r].problems \in Nat
      BY ContentFacts
    <3>2. 1 \in Int /\ Content[f][r].problems \in Int
      BY <3>1
    <3>3. QED
      BY <3>1, <3>2, FS_Interval
  <2>2. E(r) = {e[n] : n \in DOMAIN e}
    OBVIOUS
  <2>3. IsFiniteSet({e[n] : n \in DOMAIN e})
    <3>1. DOMAIN e = P /\ e = [n \in DOMAIN e |-> e[n]]
      OBVIOUS
    <3> HIDE DEF e
    <3>2. QED
      BY <2>1, <3>1, ImageFinite
  <2>4. E(r) \subseteq Error
    BY <2>1, ContentFacts DEF Error, Codes
  <2>5. QED
    BY <2>2, <2>3, <2>4
<1>3. IsFiniteSet({E(r) : r \in D})
  <2> DEFINE g == [r \in D |-> E(r)]
  <2>1. DOMAIN g = D /\ g = [r \in DOMAIN g |-> g[r]]
    OBVIOUS
  <2>2. {E(r) : r \in D} = {g[r] : r \in DOMAIN g}
    OBVIOUS
  <2>3. IsFiniteSet({g[r] : r \in DOMAIN g})
    <3> HIDE DEF g
    <3>1. QED
      BY <2>1, ContentFacts, ImageFinite
  <2>4. QED
    BY <2>2, <2>3
<1>4. IsFiniteSet(F)
  <2>1. \A T \in {E(r) : r \in D} : IsFiniteSet(T)
    BY <1>2
  <2> HIDE DEF E, D, F
  <2>2. QED
    BY <1>1, <1>3, <2>1, FS_UNION
<1>5. F \subseteq Error
  <2> HIDE DEF E, D, F
  <2>1. QED
    BY <1>1, <1>2
<1>6. ASSUME NEW r \in D, r \notin Clean(Content[f])
      PROVE  \E x \in F : x.row = r
  <2>1. Content[f][r].problems \in Nat /\ Content[f][r].problems # 0
    BY <1>6, ContentFacts DEF Clean
  <2>2. 1 \in 1..Content[f][r].problems
    BY <2>1
  <2>3. [row |-> r, code |-> "FIELD", nth |-> 1] \in E(r)
    BY <2>2
  <2>4. E(r) \subseteq F
    <3> HIDE DEF E, F
    <3>1. QED
      BY <1>1
  <2>5. QED
    BY <2>3, <2>4
<1>7. QED
  BY <1>4, <1>5, <1>6

LEMMA NotFoundFacts ==
    ASSUME NEW f \in Files
    PROVE  /\ NotFoundErrors(Content[f]) \subseteq Error
           /\ IsFiniteSet(NotFoundErrors(Content[f]))
           /\ \A r \in Unknown(Content[f]) :
                \E x \in NotFoundErrors(Content[f]) : x.row = r
<1> DEFINE U == Unknown(Content[f])
           g == [r \in U |-> [row |-> r, code |-> "SKU_NOT_FOUND", nth |-> 1]]
<1>1. U \subseteq DOMAIN Content[f] /\ IsFiniteSet(U)
  BY ContentFacts, FS_Subset DEF Unknown
<1>2. NotFoundErrors(Content[f]) = {g[r] : r \in DOMAIN g}
  BY DEF NotFoundErrors
<1>3. DOMAIN g = U /\ g = [r \in DOMAIN g |-> g[r]]
  OBVIOUS
<1>4. IsFiniteSet({g[r] : r \in DOMAIN g})
  <2> HIDE DEF g, U
  <2>1. QED
    BY <1>1, <1>3, ImageFinite
<1>5. \A r \in U : g[r] \in Error /\ g[r].row = r
  BY <1>1, ContentFacts DEF Error, Codes
<1>6. QED
  <2> HIDE DEF g
  <2>1. QED
    BY <1>2, <1>3, <1>4, <1>5

\* There are as many import_error rows of a batch as errors in them.
LEMMA FiledCount ==
    ASSUME TypeOK, NEW b \in BatchIds, IsFiniteSet(Filed(b))
    PROVE  Cardinality(ErrorsOf(b)) = Cardinality(Filed(b))
<1> DEFINE g == [e \in Filed(b) |-> [batch |-> b, error |-> e]]
<1>1. \A x \in ErrorsOf(b) : x = [batch |-> b, error |-> x.error]
  BY DEF ErrorsOf, TypeOK, ErrorRow
<1>2. g \in Bijection(Filed(b), ErrorsOf(b))
  <2>1. \A e \in Filed(b) : g[e] \in ErrorsOf(b)
    BY <1>1 DEF Filed
  <2>2. \A e, d \in Filed(b) : g[e] = g[d] => e = d
    OBVIOUS
  <2>3. \A x \in ErrorsOf(b) : \E e \in Filed(b) : g[e] = x
    BY <1>1 DEF Filed
  <2>4. g \in [Filed(b) -> ErrorsOf(b)]
    BY <2>1
  <2> HIDE DEF g
  <2>5. QED
    BY <2>2, <2>3, <2>4, Fun_IsBij
<1>3. ExistsBijection(Filed(b), ErrorsOf(b))
  BY <1>2 DEF ExistsBijection
<1>4. QED
  BY <1>3, FS_Bijection

-----------------------------------------------------------------------------
(***************************************************************************)
(* Steps that leave the batches and their errors alone                     *)
(***************************************************************************)

\* Nothing that is stored is taken away.
Grows == skus \subseteq skus' /\ inventory \subseteq inventory'

LEMMA StoredStays ==
    ASSUME Grows
    PROVE  \A f \in Files : \A row : Stored(f, row) => Stored(f, row)'
BY DEF Grows, Stored

LEMMA ImporterFacts ==
    ASSUME TypeOK
    PROVE  /\ importer.pc \in PCs /\ importer.batch \in BatchIds \union {0}
           /\ importer.drafts \in SUBSET RowNos /\ importer.seen \in SUBSET Events
           /\ importer.errors \in SUBSET Error /\ importer.unsaved \in SUBSET Error
           /\ importer = [pc |-> importer.pc, batch |-> importer.batch,
                          drafts |-> importer.drafts, seen |-> importer.seen,
                          errors |-> importer.errors, unsaved |-> importer.unsaved]
BY DEF TypeOK, Importer

LEMMA IdleFacts ==
    /\ Idle \in Importer
    /\ Idle.pc = "idle" /\ Idle.batch = 0 /\ Idle.drafts = {} /\ Idle.seen = {}
    /\ Idle.errors = {} /\ Idle.unsaved = {}
BY DEF Idle, Importer, PCs

\* The errors filed for a batch, and what a batch that has ended says.
LEMMA BatchesStay ==
    ASSUME IInv, UNCHANGED <<batches, errorRows>>, Grows
    PROVE  /\ BatchInv' /\ CompletedOnce'
           /\ \A b \in BatchIds : Filed(b)' = Filed(b)
<1> USE DEF IInv
<1>1. \A b \in BatchIds : Filed(b)' = Filed(b) /\ ErrorsOf(b)' = ErrorsOf(b)
  BY DEF Filed, ErrorsOf
<1>2. ASSUME NEW b \in BatchIds, NEW f \in Files,
             Ended(b)', batches'[b].file = f
      PROVE  EndedOk(b, f)'
  <2>1. EndedOk(b, f)
    BY <1>2 DEF BatchInv, Ended
  <2>2. ASSUME NEW r \in DOMAIN Content[f]
        PROVE  Covered(f, r, Filed(b))'
    <3>1. Covered(f, r, Filed(b))
      BY <2>1 DEF EndedOk, AllCovered
    <3>2. Stored(f, Content[f][r]) => Stored(f, Content[f][r])'
      BY StoredStays
    <3>3. QED
      BY <1>1, <3>1, <3>2 DEF Covered
  <2>3. AllCovered(f, Filed(b))'
    BY <2>2 DEF AllCovered
  <2>4. QED
    BY <1>1, <2>1, <2>3 DEF EndedOk
<1>3. BatchInv'
  BY <1>1, <1>2 DEF BatchInv
<1>4. CompletedOnce'
  BY DEF SoleInv, CompletedOnce
<1>5. QED
  BY <1>1, <1>3, <1>4

\* run_import goes on with its batch.
LEMMA GoesOn ==
    ASSUME IInv, NEW b \in BatchIds, NEW f \in Files,
           Busy, importer.batch = b, batches[b].file = f,
           importer.pc # "fail", importer'.pc \notin {"idle", "fail"},
           importer'.batch = b,
           UNCHANGED <<batches, errorRows, abandoned>>, Grows, Hand(b, f)'
    PROVE  HandInv' /\ BatchInv' /\ SoleInv' /\ UnfinishedHasOwner'
<1> USE DEF IInv
<1>1. BatchInv' /\ CompletedOnce'
  BY BatchesStay
<1>2. File' = f /\ File = f
  BY DEF File
<1>3. HandInv'
  BY <1>2 DEF HandInv, Busy
<1>4. SoleInv'
  BY <1>1, <1>2 DEF SoleInv, Busy
<1>5. UnfinishedHasOwner'
  BY DEF UnfinishedHasOwner
<1>6. QED
  BY <1>1, <1>3, <1>4, <1>5

\* Another thread takes a step.
LEMMA Aside ==
    ASSUME IInv, UNCHANGED <<batches, errorRows, abandoned, importer>>, Grows
    PROVE  HandInv' /\ BatchInv' /\ SoleInv' /\ UnfinishedHasOwner'
<1> USE DEF IInv
<1>1. BatchInv' /\ CompletedOnce' /\ \A b \in BatchIds : Filed(b)' = Filed(b)
  BY BatchesStay
<1>2. File' = File
  BY DEF File
<1>3. ASSUME NEW b \in BatchIds, NEW f \in Files, Hand(b, f)
      PROVE  Hand(b, f)'
  <2>1. \A r \in DOMAIN Content[f] : \A E :
          Covered(f, r, E) => Stored(f, Content[f][r])' \/ \E x \in E : x.row = r
    BY StoredStays DEF Covered
  <2>2. \A r \in DOMAIN Content[f] :
          Covered(f, r, importer.errors) => Covered(f, r, importer.errors)'
    BY <2>1 DEF Covered
  <2>3. AllCovered(f, importer.errors) => AllCovered(f, importer.errors)'
    BY <2>2 DEF AllCovered
  <2>4. QED
    BY <1>1, <1>3, <2>2, <2>3 DEF Hand, Grows
<1>4. HandInv'
  BY <1>2, <1>3 DEF HandInv, Busy
<1>5. SoleInv' /\ UnfinishedHasOwner'
  BY <1>1, <1>2 DEF SoleInv, Busy, UnfinishedHasOwner
<1>6. QED
  BY <1>1, <1>4, <1>5

\* run_import ends without having ended its batch.
LEMMA Leaves ==
    ASSUME IInv, UNCHANGED <<batches, errorRows>>, Grows, importer' = Idle,
           Busy => abandoned' = abandoned \union {importer.batch},
           ~Busy => abandoned' = abandoned
    PROVE  HandInv' /\ BatchInv' /\ SoleInv' /\ UnfinishedHasOwner'
<1> USE DEF IInv
<1>1. BatchInv' /\ CompletedOnce'
  BY BatchesStay
<1>2. HandInv' /\ SoleInv'
  BY <1>1, IdleFacts DEF HandInv, SoleInv, Busy
<1>3. UnfinishedHasOwner'
  BY IdleFacts DEF UnfinishedHasOwner, HandInv, BatchIds
<1>4. QED
  BY <1>1, <1>2, <1>3

-----------------------------------------------------------------------------
(***************************************************************************)
(* run_import up to the commit                                             *)
(***************************************************************************)

LEMMA AtHand ==
    ASSUME IInv, Busy
    PROVE  \E b \in BatchIds, f \in Files :
             /\ importer.batch = b /\ batches[b].file = f
             /\ File = f /\ Rows = Content[f] /\ Hand(b, f)
BY DEF IInv, HandInv, File, Rows

LEMMA ValidatesMaster ==
    ASSUME IInv, ValidateMaster
    PROVE  IInv'
<1> USE DEF IInv
<1>1. Busy /\ importer.pc = "validate" /\ File \in MasterFiles
  BY DEF ValidateMaster, Busy
<1>2. PICK b \in BatchIds, f \in Files :
        /\ importer.batch = b /\ batches[b].file = f
        /\ File = f /\ Rows = Content[f] /\ Hand(b, f)
  BY <1>1, AtHand
<1>3. /\ importer'.pc = "addSku" /\ importer'.batch = b
      /\ importer'.drafts = Clean(Content[f])
      /\ importer'.errors = FieldErrors(Content[f])
      /\ importer' \in Importer
      /\ UNCHANGED <<skus, inventory, balance, batches, errorRows, syncer,
                     crashes, synced, cut, abandoned, collided>>
  <2>1. Clean(Content[f]) \in SUBSET RowNos
    BY ContentFacts DEF Clean
  <2>2. FieldErrors(Content[f]) \in SUBSET Error
    BY FieldFacts
  <2>3. importer' = [pc |-> "addSku", batch |-> importer.batch,
                     drafts |-> Clean(Content[f]), seen |-> importer.seen,
                     errors |-> FieldErrors(Content[f]),
                     unsaved |-> importer.unsaved]
    BY <1>2, ImporterFacts DEF ValidateMaster
  <2>4. QED
    BY <1>2, <2>1, <2>2, <2>3, ImporterFacts DEF ValidateMaster, Importer, PCs
<1>4. Filed(b)' = Filed(b) /\ Grows
  BY <1>3, BatchesStay DEF Grows
<1>5. \A r \in DOMAIN Content[f] :
        r \in Clean(Content[f]) \/ \E x \in FieldErrors(Content[f]) : x.row = r
  BY FieldFacts
<1>6. Hand(b, f)'
  BY <1>1, <1>2, <1>3, <1>4, <1>5, FieldFacts DEF Hand, Covered
<1>7. HandInv' /\ BatchInv' /\ SoleInv' /\ UnfinishedHasOwner'
  BY <1>1, <1>2, <1>3, <1>4, <1>6, GoesOn
<1>8. TypeOK'
  BY <1>3 DEF TypeOK
<1>9. StaleOnlyBySyncOrCrash'
  BY <1>1, <1>3 DEF StaleOnlyBySyncOrCrash
<1>10. QED
  BY <1>7, <1>8, <1>9

LEMMA ValidatesEvents ==
    ASSUME IInv, ValidateEvents
    PROVE  IInv'
<1> USE DEF IInv
<1>1. Busy /\ importer.pc = "validate" /\ File \notin MasterFiles
  BY DEF ValidateEvents, Busy
<1>2. PICK b \in BatchIds, f \in Files :
        /\ importer.batch = b /\ batches[b].file = f
        /\ File = f /\ Rows = Content[f] /\ Hand(b, f)
  BY <1>1, AtHand
<1> DEFINE E == FieldErrors(Content[f]) \union NotFoundErrors(Content[f])
           D == Clean(Content[f]) \ Unknown(Content[f])
<1>3. /\ D \in SUBSET RowNos /\ D \subseteq Clean(Content[f])
      /\ E \in SUBSET Error /\ IsFiniteSet(E)
  BY ContentFacts, FieldFacts, NotFoundFacts, FS_Union DEF Clean
<1>4. \A r \in DOMAIN Content[f] : r \in D \/ \E x \in E : x.row = r
  <2>1. ASSUME NEW r \in DOMAIN Content[f], r \notin D
        PROVE  \E x \in E : x.row = r
    <3>1. CASE r \notin Clean(Content[f])
      BY <3>1, FieldFacts
    <3>2. CASE r \in Unknown(Content[f])
      BY <3>2, NotFoundFacts
    <3>3. QED
      BY <2>1, <3>1, <3>2
  <2>2. QED
    BY <2>1
<1>5. /\ importer' = [pc |-> "check", batch |-> importer.batch, drafts |-> D,
                      seen |-> importer.seen, errors |-> E,
                      unsaved |-> importer.unsaved]
      /\ UNCHANGED <<skus, inventory, balance, batches, errorRows, syncer,
                     crashes, synced, cut, abandoned, collided>>
  BY <1>2, ImporterFacts DEF ValidateEvents
<1> HIDE DEF E, D
<1>6. /\ importer'.pc = "check" /\ importer'.batch = b /\ importer'.drafts = D
      /\ importer'.errors = E /\ importer' \in Importer
  BY <1>2, <1>3, <1>5, ImporterFacts DEF Importer, PCs
<1>7. Filed(b)' = Filed(b) /\ Grows
  BY <1>5, BatchesStay DEF Grows
<1>8. Hand(b, f)'
  BY <1>1, <1>2, <1>3, <1>4, <1>5, <1>6, <1>7 DEF Hand, Covered
<1>9. HandInv' /\ BatchInv' /\ SoleInv' /\ UnfinishedHasOwner'
  BY <1>1, <1>2, <1>5, <1>6, <1>7, <1>8, GoesOn
<1>10. TypeOK'
  BY <1>5, <1>6 DEF TypeOK
<1>11. StaleOnlyBySyncOrCrash'
  BY <1>1, <1>5, <1>6 DEF StaleOnlyBySyncOrCrash
<1>12. QED
  BY <1>9, <1>10, <1>11

\* A draft of master data becomes a SKU or an error.
LEMMA AddsSku ==
    ASSUME IInv, AddSku
    PROVE  IInv'
<1> USE DEF IInv
<1>1. Busy /\ importer.pc = "addSku"
  BY DEF AddSku, Busy
<1>2. PICK b \in BatchIds, f \in Files :
        /\ importer.batch = b /\ batches[b].file = f
        /\ File = f /\ Rows = Content[f] /\ Hand(b, f)
  BY <1>1, AtHand
<1>3. f \in MasterFiles /\ importer.drafts \subseteq Clean(Content[f])
  BY <1>1, <1>2 DEF Hand
<1>4. PICK r \in importer.drafts :
        IF Content[f][r].sku \in skus
        THEN /\ importer' = [importer EXCEPT
                  !.drafts = @ \ {r},
                  !.errors = @ \union
                      {[row |-> r, code |-> "SKU_DUPLICATE", nth |-> 1]}]
             /\ UNCHANGED skus
        ELSE /\ importer' = [importer EXCEPT !.drafts = @ \ {r}]
             /\ skus' = skus \union {Content[f][r].sku}
  BY <1>2 DEF AddSku
<1>5. UNCHANGED <<inventory, balance, batches, errorRows, syncer, crashes,
                  synced, cut, abandoned, collided>>
  BY DEF AddSku
<1>6. r \in DOMAIN Content[f] /\ Content[f][r].sku \in Skus /\ r \in RowNos
  BY <1>3, <1>4, ContentFacts DEF Clean
<1>7. PICK N \in SUBSET Error :
        /\ IsFiniteSet(N)
        /\ importer' = [pc |-> importer.pc, batch |-> importer.batch,
                        drafts |-> importer.drafts \ {r}, seen |-> importer.seen,
                        errors |-> importer.errors \union N,
                        unsaved |-> importer.unsaved]
        /\ skus \subseteq skus' /\ skus' \in SUBSET Skus
        /\ Content[f][r].sku \in skus' \/ \E x \in N : x.row = r
  <2>1. CASE Content[f][r].sku \in skus
    <3> DEFINE x == [row |-> r, code |-> "SKU_DUPLICATE", nth |-> 1]
    <3>1. x \in Error /\ x.row = r
      BY <1>6 DEF Error, Codes
    <3> HIDE DEF x
    <3>2. IsFiniteSet({x})
      BY FS_Singleton
    <3>3. importer' = [importer EXCEPT !.drafts = importer.drafts \ {r},
                                       !.errors = importer.errors \union {x}]
      BY <1>4, <2>1 DEF x
    <3>4. importer' = [pc |-> importer.pc, batch |-> importer.batch,
                       drafts |-> importer.drafts \ {r}, seen |-> importer.seen,
                       errors |-> importer.errors \union {x},
                       unsaved |-> importer.unsaved]
      BY <3>3, ImporterFacts
    <3>5. skus' = skus /\ skus \in SUBSET Skus
      BY <1>4, <2>1 DEF TypeOK
    <3>6. QED
      BY <3>1, <3>2, <3>4, <3>5
  <2>2. CASE Content[f][r].sku \notin skus
    <3>1. importer' = [importer EXCEPT !.drafts = importer.drafts \ {r}]
      BY <1>4, <2>2
    <3>2. importer' = [pc |-> importer.pc, batch |-> importer.batch,
                       drafts |-> importer.drafts \ {r}, seen |-> importer.seen,
                       errors |-> importer.errors \union {},
                       unsaved |-> importer.unsaved]
      BY <3>1, ImporterFacts
    <3>3. /\ skus \subseteq skus' /\ skus' \in SUBSET Skus
          /\ Content[f][r].sku \in skus'
      BY <1>4, <1>6, <2>2 DEF TypeOK
    <3>4. {} \in SUBSET Error /\ IsFiniteSet({})
      BY FS_EmptySet
    <3>5. QED
      BY <3>2, <3>3, <3>4
  <2>3. QED
    BY <2>1, <2>2
<1>8. /\ importer'.pc = "addSku" /\ importer'.batch = b
      /\ importer'.drafts = importer.drafts \ {r}
      /\ importer'.errors = importer.errors \union N
      /\ importer' \in Importer
  BY <1>1, <1>2, <1>7, ImporterFacts DEF Importer
<1>9. Filed(b)' = Filed(b) /\ Grows
  BY <1>5, <1>7, BatchesStay DEF Grows
<1>10. ASSUME NEW q \in DOMAIN Content[f]
       PROVE  q \in importer'.drafts \/ Covered(f, q, importer.errors)'
  <2>1. q \in importer.drafts \/ Covered(f, q, importer.errors)
    BY <1>1, <1>2 DEF Hand
  <2>2. Stored(f, Content[f][q]) => Stored(f, Content[f][q])'
    BY <1>9, StoredStays
  <2>3. q = r => Covered(f, q, importer.errors)'
    BY <1>3, <1>7, <1>8 DEF Covered, Stored
  <2>4. QED
    BY <1>8, <2>1, <2>2, <2>3 DEF Covered
<1>11. Hand(b, f)'
  <2>1. IsFiniteSet(importer'.errors)
    BY <1>2, <1>7, <1>8, FS_Union DEF Hand
  <2>2. QED
    BY <1>1, <1>2, <1>3, <1>5, <1>8, <1>9, <1>10, <2>1 DEF Hand
<1>12. HandInv' /\ BatchInv' /\ SoleInv' /\ UnfinishedHasOwner'
  BY <1>1, <1>2, <1>5, <1>8, <1>9, <1>11, GoesOn
<1>13. TypeOK'
  BY <1>5, <1>7, <1>8 DEF TypeOK
<1>14. StaleOnlyBySyncOrCrash'
  BY <1>1, <1>5, <1>8 DEF StaleOnlyBySyncOrCrash
<1>15. QED
  BY <1>12, <1>13, <1>14

-----------------------------------------------------------------------------
(***************************************************************************)
(* The commit of the events, the projection, and the errors                *)
(***************************************************************************)

\* run_import turns to its list of errors once each row is accounted for.
LEMMA TurnsToErrors ==
    ASSUME IInv, NEW b \in BatchIds, NEW f \in Files,
           Busy, importer.batch = b, batches[b].file = f,
           importer.pc \notin {"addError", "fail"}, Hand(b, f),
           UNCHANGED <<batches, errorRows, abandoned>>, Grows, ReportErrors,
           \A r \in DOMAIN Content[f] :
             Stored(f, Content[f][r])' \/ \E x \in importer.errors : x.row = r
    PROVE  /\ HandInv' /\ BatchInv' /\ SoleInv' /\ UnfinishedHasOwner'
           /\ importer' \in Importer /\ importer'.pc = "addError"
<1> USE DEF IInv
<1>1. importer' = [pc |-> "addError", batch |-> importer.batch, drafts |-> {},
                   seen |-> {}, errors |-> importer.errors,
                   unsaved |-> importer.errors]
  BY ImporterFacts DEF ReportErrors
<1>2. /\ importer' \in Importer /\ importer'.pc = "addError"
      /\ importer'.batch = b /\ importer'.drafts = {}
      /\ importer'.errors = importer.errors /\ importer'.unsaved = importer.errors
  BY <1>1, ImporterFacts DEF Importer, PCs
<1>3. Filed(b)' = Filed(b)
  BY BatchesStay
<1>4. AllCovered(f, importer.errors)'
  BY <1>2 DEF AllCovered, Covered
<1>5. Filed(b)' = {} /\ batches'[b].status = "RUNNING"
  BY <1>3 DEF Hand
<1>6. Hand(b, f)'
  BY <1>2, <1>4, <1>5 DEF Hand
<1>7. QED
  BY <1>2, <1>6, GoesOn

LEMMA EndsMaster ==
    ASSUME IInv, EndMaster
    PROVE  IInv'
<1> USE DEF IInv
<1>1. /\ Busy /\ importer.pc = "addSku" /\ importer.drafts = {} /\ ReportErrors
      /\ UNCHANGED <<skus, inventory, balance, batches, errorRows, syncer,
                     crashes, synced, cut, abandoned, collided>>
  BY DEF EndMaster, Busy
<1>2. PICK b \in BatchIds, f \in Files :
        /\ importer.batch = b /\ batches[b].file = f
        /\ File = f /\ Rows = Content[f] /\ Hand(b, f)
  BY <1>1, AtHand
<1>3. Grows
  BY <1>1 DEF Grows
<1>4. \A r \in DOMAIN Content[f] :
        Stored(f, Content[f][r])' \/ \E x \in importer.errors : x.row = r
  BY <1>1, <1>2, <1>3, StoredStays DEF Hand, Covered
<1>5. /\ HandInv' /\ BatchInv' /\ SoleInv' /\ UnfinishedHasOwner'
      /\ importer' \in Importer /\ importer'.pc = "addError"
  BY <1>1, <1>2, <1>3, <1>4, TurnsToErrors
<1>6. TypeOK'
  BY <1>1, <1>5 DEF TypeOK
<1>7. StaleOnlyBySyncOrCrash'
  BY <1>1, <1>5 DEF StaleOnlyBySyncOrCrash
<1>8. QED
  BY <1>5, <1>6, <1>7

LEMMA ChecksExisting ==
    ASSUME IInv, CheckExisting
    PROVE  IInv'
<1> USE DEF IInv
<1>1. /\ Busy /\ importer.pc = "check"
      /\ UNCHANGED <<skus, inventory, balance, batches, errorRows, syncer,
                     crashes, synced, cut, abandoned, collided>>
  BY DEF CheckExisting, Busy
<1>2. PICK b \in BatchIds, f \in Files :
        /\ importer.batch = b /\ batches[b].file = f
        /\ File = f /\ Rows = Content[f] /\ Hand(b, f)
  BY <1>1, AtHand
<1>3. Grows
  BY <1>1 DEF Grows
<1>4. CASE importer.drafts = {}
  <2>1. ReportErrors
    BY <1>4 DEF CheckExisting
  <2>2. \A r \in DOMAIN Content[f] :
          Stored(f, Content[f][r])' \/ \E x \in importer.errors : x.row = r
    BY <1>1, <1>2, <1>3, <1>4, StoredStays DEF Hand, Covered
  <2>3. /\ HandInv' /\ BatchInv' /\ SoleInv' /\ UnfinishedHasOwner'
        /\ importer' \in Importer /\ importer'.pc = "addError"
    BY <1>1, <1>2, <1>3, <2>1, <2>2, TurnsToErrors
  <2>4. TypeOK'
    BY <1>1, <2>3 DEF TypeOK
  <2>5. StaleOnlyBySyncOrCrash'
    BY <1>1, <2>3 DEF StaleOnlyBySyncOrCrash
  <2>6. QED
    BY <2>3, <2>4, <2>5
<1>5. CASE importer.drafts # {}
  <2> DEFINE S == {Rows[r].event : r \in importer.drafts} \intersect inventory
  <2>1. importer' = [pc |-> "insert", batch |-> importer.batch,
                     drafts |-> importer.drafts, seen |-> S,
                     errors |-> importer.errors, unsaved |-> importer.unsaved]
    BY <1>5, ImporterFacts DEF CheckExisting
  <2>2. S \in SUBSET Events /\ S \subseteq inventory
    BY DEF TypeOK
  <2> HIDE DEF S
  <2>3. /\ importer' \in Importer /\ importer'.pc = "insert"
        /\ importer'.batch = b /\ importer'.drafts = importer.drafts
        /\ importer'.errors = importer.errors /\ importer'.seen = S
    BY <1>2, <2>1, <2>2, ImporterFacts DEF Importer, PCs
  <2>4. Filed(b)' = Filed(b)
    BY <1>1, <1>3, BatchesStay
  <2>5. \A r \in DOMAIN Content[f] :
          r \in importer'.drafts \/ Covered(f, r, importer.errors)'
    BY <1>1, <1>2, <1>3, <2>3, StoredStays DEF Hand, Covered
  <2>6. Hand(b, f)'
    BY <1>1, <1>2, <2>2, <2>3, <2>4, <2>5 DEF Hand
  <2>7. HandInv' /\ BatchInv' /\ SoleInv' /\ UnfinishedHasOwner'
    BY <1>1, <1>2, <1>3, <2>3, <2>6, GoesOn
  <2>8. TypeOK'
    BY <1>1, <2>3 DEF TypeOK
  <2>9. StaleOnlyBySyncOrCrash'
    BY <1>1, <2>3 DEF StaleOnlyBySyncOrCrash
  <2>10. QED
    BY <2>7, <2>8, <2>9
<1>6. QED
  BY <1>4, <1>5

\* Of the drafts with one event that is not stored yet, the first is inserted.
LEMMA DraftsAreInserted ==
    ASSUME IInv, NEW b \in BatchIds, NEW f \in Files,
           importer.pc = "insert", Rows = Content[f], Hand(b, f),
           NEW r \in importer.drafts
    PROVE  /\ f \notin MasterFiles
           /\ Content[f][r].event \in inventory \union Fresh
           /\ Content[f][r].event \in Events
<1> DEFINE e == Content[f][r].event
           S == {q \in importer.drafts : Content[f][q].event = e}
<1>1. /\ f \notin MasterFiles /\ importer.drafts \subseteq DOMAIN Content[f]
      /\ importer.seen \subseteq inventory /\ r \in Clean(Content[f])
  BY DEF Hand, Clean
<1>2. e \in Events
  BY <1>1, ContentFacts DEF Clean
<1>3. CASE e \in importer.seen
  BY <1>1, <1>2, <1>3
<1>4. CASE e \notin importer.seen
  <2>1. S \in SUBSET Nat /\ r \in S
    BY <1>1, ContentFacts
  <2>2. PICK q \in S : \A p \in S : q <= p
    <3> HIDE DEF S
    <3>1. QED
      BY <2>1, Least
  <2>3. \A p \in importer.drafts : p < q => Content[f][p].event # e
    <3> SUFFICES ASSUME NEW p \in importer.drafts, p < q, Content[f][p].event = e
                 PROVE  FALSE
      OBVIOUS
    <3>1. p \in S /\ p \in Nat /\ q \in Nat
      BY <2>1
    <3>2. QED
      BY <2>2, <3>1
  <2>4. q \in Inserted /\ Rows[q].event = e
    BY <1>4, <2>2, <2>3 DEF Inserted
  <2>5. e \in Fresh
    BY <2>4 DEF Fresh
  <2>6. QED
    BY <1>1, <1>2, <2>5
<1>5. QED
  BY <1>3, <1>4

LEMMA FreshFacts ==
    ASSUME IInv, NEW b \in BatchIds, NEW f \in Files,
           importer.pc \in {"insert", "rebuild"}, Rows = Content[f], Hand(b, f)
    PROVE  Fresh \in SUBSET Events
<1>1. f \notin MasterFiles /\ importer.drafts \subseteq Clean(Content[f])
  BY DEF Hand
<1>2. \A r \in Inserted : Content[f][r].event \in Events
  BY <1>1, ContentFacts DEF Inserted, Clean
<1>3. QED
  BY <1>2 DEF Fresh

LEMMA InsertsEvents ==
    ASSUME IInv, InsertEvents
    PROVE  IInv'
<1> USE DEF IInv
<1>1. /\ Busy /\ importer.pc = "insert" /\ inventory' = inventory \union Fresh
      /\ UNCHANGED <<skus, balance, batches, errorRows, syncer, crashes,
                     synced, cut, abandoned, collided>>
  BY DEF InsertEvents, Busy
<1>2. PICK b \in BatchIds, f \in Files :
        /\ importer.batch = b /\ batches[b].file = f
        /\ File = f /\ Rows = Content[f] /\ Hand(b, f)
  BY <1>1, AtHand
<1>3. Grows /\ inventory' \in SUBSET Events
  BY <1>1, <1>2, FreshFacts DEF Grows, TypeOK
<1>4. \A r \in DOMAIN Content[f] :
        Stored(f, Content[f][r])' \/ \E x \in importer.errors : x.row = r
  <2>1. ASSUME NEW r \in DOMAIN Content[f]
        PROVE  Stored(f, Content[f][r])' \/ \E x \in importer.errors : x.row = r
    <3>1. CASE r \in importer.drafts
      BY <1>1, <1>2, <3>1, DraftsAreInserted DEF Stored
    <3>2. CASE Covered(f, r, importer.errors)
      BY <1>3, <3>2, StoredStays DEF Covered
    <3>3. QED
      BY <1>1, <1>2, <3>1, <3>2 DEF Hand
  <2>2. QED
    BY <2>1
<1>5. CASE NeedsRebuild
  <2>1. importer' = [pc |-> "rebuild", batch |-> importer.batch,
                     drafts |-> importer.drafts, seen |-> importer.seen,
                     errors |-> importer.errors, unsaved |-> importer.unsaved]
    BY <1>5, ImporterFacts DEF InsertEvents
  <2>2. /\ importer' \in Importer /\ importer'.pc = "rebuild"
        /\ importer'.batch = b /\ importer'.drafts = importer.drafts
        /\ importer'.errors = importer.errors /\ importer'.seen = importer.seen
    BY <1>2, <2>1, ImporterFacts DEF Importer, PCs
  <2>3. Filed(b)' = Filed(b)
    BY <1>1, <1>3, BatchesStay
  <2>4. AllCovered(f, importer.errors)'
    BY <1>4, <2>2 DEF AllCovered, Covered
  <2>5. Hand(b, f)'
    BY <1>1, <1>2, <2>2, <2>3, <2>4 DEF Hand
  <2>6. HandInv' /\ BatchInv' /\ SoleInv' /\ UnfinishedHasOwner'
    <3>1. importer'.pc \notin {"idle", "fail"} /\ importer.pc # "fail"
      BY <1>1, <2>2
    <3>2. QED
      BY <1>1, <1>2, <1>3, <2>2, <2>5, <3>1, GoesOn
  <2>7. TypeOK'
    BY <1>1, <1>3, <2>2 DEF TypeOK
  <2>8. Fresh' = Fresh
    BY <1>1, <1>2, <2>2 DEF Fresh, Inserted, Rows, File
  <2>9. StaleOnlyBySyncOrCrash'
    BY <1>1, <2>2, <2>8 DEF StaleOnlyBySyncOrCrash
  <2>10. QED
    BY <2>6, <2>7, <2>9
<1>6. CASE ~NeedsRebuild
  <2>1. ReportErrors /\ Fresh = {}
    BY <1>6 DEF InsertEvents, NeedsRebuild
  <2>2. /\ HandInv' /\ BatchInv' /\ SoleInv' /\ UnfinishedHasOwner'
        /\ importer' \in Importer /\ importer'.pc = "addError"
    BY <1>1, <1>2, <1>3, <1>4, <2>1, TurnsToErrors
  <2>3. TypeOK'
    BY <1>1, <1>3, <2>2 DEF TypeOK
  <2>4. StaleOnlyBySyncOrCrash'
    BY <1>1, <2>1, <2>2 DEF StaleOnlyBySyncOrCrash
  <2>5. QED
    BY <2>2, <2>3, <2>4
<1>7. QED
  BY <1>5, <1>6

LEMMA Rebuilds ==
    ASSUME IInv, Rebuild
    PROVE  IInv'
<1> USE DEF IInv
<1>1. /\ Busy /\ importer.pc = "rebuild" /\ ReportErrors /\ balance' = inventory
      /\ UNCHANGED <<skus, inventory, batches, errorRows, syncer, crashes,
                     synced, cut, abandoned, collided>>
  BY DEF Rebuild, Busy
<1>2. PICK b \in BatchIds, f \in Files :
        /\ importer.batch = b /\ batches[b].file = f
        /\ File = f /\ Rows = Content[f] /\ Hand(b, f)
  BY <1>1, AtHand
<1>3. Grows
  BY <1>1 DEF Grows
<1>4. \A r \in DOMAIN Content[f] :
        Stored(f, Content[f][r])' \/ \E x \in importer.errors : x.row = r
  BY <1>1, <1>2, <1>3, StoredStays DEF Hand, AllCovered, Covered
<1>5. /\ HandInv' /\ BatchInv' /\ SoleInv' /\ UnfinishedHasOwner'
      /\ importer' \in Importer /\ importer'.pc = "addError"
  BY <1>1, <1>2, <1>3, <1>4, TurnsToErrors
<1>6. TypeOK'
  BY <1>1, <1>5 DEF TypeOK
<1>7. StaleOnlyBySyncOrCrash'
  BY <1>1, <1>5 DEF StaleOnlyBySyncOrCrash
<1>8. QED
  BY <1>5, <1>6, <1>7

\* One error is written.
LEMMA AddsError ==
    ASSUME IInv, AddError
    PROVE  IInv'
<1> USE DEF IInv
<1>1. /\ Busy /\ importer.pc = "addError"
      /\ UNCHANGED <<skus, inventory, balance, batches, syncer, crashes,
                     synced, cut, abandoned, collided>>
  BY DEF AddError, Busy
<1>2. PICK b \in BatchIds, f \in Files :
        /\ importer.batch = b /\ batches[b].file = f
        /\ File = f /\ Rows = Content[f] /\ Hand(b, f)
  BY <1>1, AtHand
<1>3. PICK x \in importer.unsaved :
        /\ errorRows' = errorRows \union {[batch |-> b, error |-> x]}
        /\ importer' = [importer EXCEPT !.unsaved = @ \ {x}]
  BY <1>2 DEF AddError
<1>4. importer' = [pc |-> importer.pc, batch |-> importer.batch,
                   drafts |-> importer.drafts, seen |-> importer.seen,
                   errors |-> importer.errors,
                   unsaved |-> importer.unsaved \ {x}]
  <2>1. importer' = [importer EXCEPT !.unsaved = importer.unsaved \ {x}]
    BY <1>3
  <2>2. QED
    BY <2>1, ImporterFacts
<1>5. /\ importer' \in Importer /\ importer'.pc = "addError"
      /\ importer'.batch = b /\ importer'.drafts = importer.drafts
      /\ importer'.errors = importer.errors
      /\ importer'.unsaved = importer.unsaved \ {x}
  BY <1>1, <1>2, <1>4, ImporterFacts DEF Importer, PCs
<1>6. x \in Error /\ [batch |-> b, error |-> x] \in ErrorRow
  BY <1>3, ImporterFacts DEF ErrorRow
<1>7. errorRows' \in SUBSET ErrorRow
  BY <1>3, <1>6 DEF TypeOK
<1>8. \A c \in BatchIds \ {b} : ErrorsOf(c)' = ErrorsOf(c) /\ Filed(c)' = Filed(c)
  BY <1>3 DEF ErrorsOf, Filed
<1>9. Filed(b)' = Filed(b) \union {x}
  <2> DEFINE n == [batch |-> b, error |-> x]
  <2>1. n.batch = b /\ n.error = x
    OBVIOUS
  <2>2. errorRows' = errorRows \union {n}
    BY <1>3
  <2> HIDE DEF n
  <2>3. ErrorsOf(b)' = ErrorsOf(b) \union {n}
    BY <2>1, <2>2 DEF ErrorsOf
  <2>4. {y.error : y \in ErrorsOf(b) \union {n}} = Filed(b) \union {n.error}
    BY DEF Filed
  <2>5. Filed(b)' = {y.error : y \in ErrorsOf(b)'}
    BY DEF Filed
  <2>6. QED
    BY <2>1, <2>3, <2>4, <2>5
<1>10. /\ importer.unsaved \subseteq importer.errors
       /\ Filed(b) = importer.errors \ importer.unsaved
       /\ batches[b].status = "RUNNING"
       /\ AllCovered(f, importer.errors)
  BY <1>1, <1>2 DEF Hand
<1>11. Hand(b, f)'
  <2>1. AllCovered(f, importer.errors)'
    BY <1>1, <1>5, <1>10 DEF AllCovered, Covered, Stored
  <2>2. Filed(b)' = importer'.errors \ importer'.unsaved
    BY <1>3, <1>5, <1>9, <1>10
  <2>3. QED
    BY <1>1, <1>2, <1>5, <1>10, <2>1, <2>2 DEF Hand
<1>12. HandInv' /\ SoleInv' /\ UnfinishedHasOwner'
  <2>1. File' = f
    BY <1>1, <1>2, <1>5 DEF File
  <2>2. HandInv'
    BY <1>1, <1>2, <1>5, <1>11, <2>1 DEF HandInv, Busy
  <2>3. SoleInv'
    BY <1>1, <1>2, <1>5, <2>1 DEF SoleInv, Busy, CompletedOnce
  <2>4. UnfinishedHasOwner'
    BY <1>1, <1>2, <1>5 DEF UnfinishedHasOwner
  <2>5. QED
    BY <2>2, <2>3, <2>4
<1>13. BatchInv'
  <2> SUFFICES ASSUME NEW c \in BatchIds
               PROVE  /\ batches[c].status # "ABSENT" => batches[c].file \in Files
                      /\ batches[c].status = "ABSENT" => Filed(c)' = {}
                      /\ \A g \in Files :
                           Ended(c) /\ batches[c].file = g => EndedOk(c, g)'
    BY <1>1 DEF BatchInv, Ended
  <2>1. CASE c = b
    BY <1>2, <1>10, <2>1 DEF BatchInv, Ended
  <2>2. CASE c # b
    <3>1. ErrorsOf(c)' = ErrorsOf(c) /\ Filed(c)' = Filed(c)
      BY <1>8, <2>2
    <3>2. ASSUME NEW g \in Files, EndedOk(c, g)
          PROVE  EndedOk(c, g)'
      BY <1>1, <3>1, <3>2 DEF EndedOk, AllCovered, Covered, Stored
    <3>3. QED
      BY <3>1, <3>2 DEF BatchInv
  <2>3. QED
    BY <2>1, <2>2
<1>14. TypeOK'
  BY <1>1, <1>5, <1>7 DEF TypeOK
<1>15. StaleOnlyBySyncOrCrash'
  BY <1>1, <1>5 DEF StaleOnlyBySyncOrCrash
<1>16. QED
  BY <1>12, <1>13, <1>14, <1>15

-----------------------------------------------------------------------------
(***************************************************************************)
(* The status of a batch                                                   *)
(***************************************************************************)

\* The other batches do not notice that batch b changes.
LEMMA OthersStay ==
    ASSUME IInv, NEW b \in BatchIds, NEW row \in Batch,
           batches' = [batches EXCEPT ![b] = row],
           UNCHANGED <<errorRows, skus, inventory>>
    PROVE  /\ batches' \in [BatchIds -> Batch] /\ batches'[b] = row
           /\ \A c \in BatchIds \ {b} : batches'[c] = batches[c]
           /\ \A c \in BatchIds : Filed(c)' = Filed(c) /\ ErrorsOf(c)' = ErrorsOf(c)
           /\ \A c \in BatchIds \ {b} :
                /\ batches'[c].status # "ABSENT" => batches'[c].file \in Files
                /\ batches'[c].status = "ABSENT" => Filed(c)' = {}
                /\ \A f \in Files :
                     Ended(c)' /\ batches'[c].file = f => EndedOk(c, f)'
<1> USE DEF IInv
<1>1. /\ batches' \in [BatchIds -> Batch] /\ batches'[b] = row
      /\ \A c \in BatchIds \ {b} : batches'[c] = batches[c]
  BY DEF TypeOK
<1>2. \A c \in BatchIds : Filed(c)' = Filed(c) /\ ErrorsOf(c)' = ErrorsOf(c)
  BY DEF Filed, ErrorsOf
<1>3. ASSUME NEW c \in BatchIds \ {b}
      PROVE  /\ batches'[c].status # "ABSENT" => batches'[c].file \in Files
             /\ batches'[c].status = "ABSENT" => Filed(c)' = {}
             /\ \A f \in Files :
                  Ended(c)' /\ batches'[c].file = f => EndedOk(c, f)'
  <2>1. batches'[c] = batches[c] /\ Filed(c)' = Filed(c) /\ ErrorsOf(c)' = ErrorsOf(c)
    BY <1>1, <1>2
  <2>2. ASSUME NEW f \in Files, EndedOk(c, f)
        PROVE  EndedOk(c, f)'
    BY <2>1, <2>2 DEF EndedOk, AllCovered, Covered, Stored
  <2>3. QED
    BY <2>1, <2>2 DEF BatchInv, Ended
<1>4. QED
  BY <1>1, <1>2, <1>3

LEMMA StartsImport ==
    ASSUME IInv, NEW f \in Files, StartImport(f)
    PROVE  IInv'
<1> USE DEF IInv
<1>1. /\ importer.pc = "idle" /\ ~Imported(f) /\ importer = Idle
      /\ UNCHANGED <<skus, inventory, balance, errorRows, syncer, crashes,
                     synced, cut, abandoned, collided>>
  BY DEF StartImport, HandInv, Busy
<1> DEFINE row == [status |-> "RUNNING", file |-> f, rows |-> 0, errors |-> 0]
<1>2. PICK b \in BatchIds :
        /\ batches[b].status = "ABSENT"
        /\ batches' = [batches EXCEPT ![b] = row]
        /\ importer' = [Idle EXCEPT !.pc = "validate", !.batch = b]
  BY DEF StartImport, IsFirst
<1>3. row \in Batch /\ row.status = "RUNNING" /\ row.file = f
  BY DEF Batch
<1> HIDE DEF row
<1>4. /\ importer' \in Importer /\ importer'.pc = "validate" /\ importer'.batch = b
      /\ importer'.drafts = {} /\ importer'.errors = {}
  BY <1>2 DEF Idle, Importer, PCs
<1>5. /\ batches' \in [BatchIds -> Batch] /\ batches'[b] = row
      /\ \A c \in BatchIds \ {b} : batches'[c] = batches[c]
      /\ \A c \in BatchIds : Filed(c)' = Filed(c)
      /\ \A c \in BatchIds \ {b} :
           /\ batches'[c].status # "ABSENT" => batches'[c].file \in Files
           /\ batches'[c].status = "ABSENT" => Filed(c)' = {}
           /\ \A g \in Files : Ended(c)' /\ batches'[c].file = g => EndedOk(c, g)'
  BY <1>1, <1>2, <1>3, OthersStay
<1>6. BatchInv'
  <2>1. /\ batches'[b].status # "ABSENT" => batches'[b].file \in Files
        /\ batches'[b].status # "ABSENT" /\ ~Ended(b)'
    BY <1>3, <1>5 DEF Ended
  <2>2. QED
    BY <1>5, <2>1 DEF BatchInv
<1>7. Hand(b, f)'
  <2>1. Filed(b)' = {}
    BY <1>2, <1>5 DEF BatchInv
  <2>2. QED
    BY <1>3, <1>4, <1>5, <2>1, FS_EmptySet DEF Hand
<1>8. HandInv'
  <2>1. File' = f
    BY <1>3, <1>4, <1>5 DEF File
  <2>2. QED
    BY <1>3, <1>4, <1>5, <1>7, <2>1 DEF HandInv, Busy
<1>9. SoleInv'
  <2>1. \A c \in BatchIds : batches'[c].status = "COMPLETED" =>
          batches'[c] = batches[c] /\ batches'[c].file # f
    BY <1>1, <1>3, <1>5 DEF Imported
  <2>2. CompletedOnce'
    BY <2>1 DEF SoleInv, CompletedOnce
  <2>3. QED
    BY <1>3, <1>4, <1>5, <2>1, <2>2 DEF SoleInv, Busy, File
<1>10. UnfinishedHasOwner'
  <2>1. \A c \in BatchIds : importer.batch # c
    BY <1>1, IdleFacts DEF BatchIds
  <2>2. QED
    BY <1>1, <1>4, <1>5, <2>1 DEF UnfinishedHasOwner
<1>11. TypeOK'
  BY <1>1, <1>4, <1>5 DEF TypeOK
<1>12. StaleOnlyBySyncOrCrash'
  BY <1>1, <1>4 DEF StaleOnlyBySyncOrCrash
<1>13. QED
  BY <1>6, <1>8, <1>9, <1>10, <1>11, <1>12

\* complete_batch: the counts are those of the file and of what was written.
LEMMA CompletesBatch ==
    ASSUME IInv, CompleteBatch
    PROVE  IInv'
<1> USE DEF IInv
<1>1. /\ Busy /\ importer.pc = "addError" /\ importer.unsaved = {}
      /\ UNCHANGED <<skus, inventory, balance, errorRows, syncer, crashes,
                     synced, cut, abandoned, collided>>
  BY DEF CompleteBatch, Busy
<1>2. PICK b \in BatchIds, f \in Files :
        /\ importer.batch = b /\ batches[b].file = f
        /\ File = f /\ Rows = Content[f] /\ Hand(b, f)
  BY <1>1, AtHand
<1>3. /\ Filed(b) = importer.errors /\ IsFiniteSet(importer.errors)
      /\ AllCovered(f, importer.errors)
      /\ importer.drafts \subseteq Clean(Content[f])
  BY <1>1, <1>2 DEF Hand
<1>4. /\ ErrorCount = Cardinality(ErrorsOf(b)) /\ ErrorCount \in Nat
      /\ Len(Content[f]) \in Nat
  BY <1>3, FiledCount, FS_CardinalityType, ContentFacts DEF ErrorCount
<1> DEFINE row == [status |-> "COMPLETED", file |-> f,
                   rows |-> Len(Content[f]), errors |-> ErrorCount]
<1>5. batches' = [batches EXCEPT ![b] = row]
  <2>1. batches[b] = [status |-> batches[b].status, file |-> f,
                      rows |-> batches[b].rows, errors |-> batches[b].errors]
    BY <1>2 DEF TypeOK, Batch
  <2>2. batches' = [batches EXCEPT ![b] =
          [batches[b] EXCEPT !.status = "COMPLETED", !.rows = Len(Content[f]),
                             !.errors = ErrorCount]]
    BY <1>2 DEF CompleteBatch
  <2>3. [batches[b] EXCEPT !.status = "COMPLETED", !.rows = Len(Content[f]),
                           !.errors = ErrorCount] = row
    <3> DEFINE r1 == [batches[b] EXCEPT !.status = "COMPLETED"]
               r2 == [r1 EXCEPT !.rows = Len(Content[f])]
    <3>1. r1 = [status |-> "COMPLETED", file |-> f,
                rows |-> batches[b].rows, errors |-> batches[b].errors]
      BY <2>1
    <3> HIDE DEF r1
    <3>2. r2 = [status |-> "COMPLETED", file |-> f,
                rows |-> Len(Content[f]), errors |-> batches[b].errors]
      BY <3>1
    <3> HIDE DEF r2
    <3>3. [r2 EXCEPT !.errors = ErrorCount] = row
      BY <3>2
    <3> HIDE DEF row
    <3> USE DEF r1, r2
    <3>4. QED
      BY <3>3, Zenon
  <2> HIDE DEF row
  <2>4. QED
    BY <2>2, <2>3, Zenon
<1>6. /\ row \in Batch /\ row.status = "COMPLETED" /\ row.file = f
      /\ row.rows = Len(Content[f]) /\ row.errors = ErrorCount
  BY <1>4 DEF Batch
<1> HIDE DEF row
<1>7. /\ batches' \in [BatchIds -> Batch] /\ batches'[b] = row
      /\ \A c \in BatchIds \ {b} : batches'[c] = batches[c]
      /\ \A c \in BatchIds : Filed(c)' = Filed(c) /\ ErrorsOf(c)' = ErrorsOf(c)
      /\ \A c \in BatchIds \ {b} :
           /\ batches'[c].status # "ABSENT" => batches'[c].file \in Files
           /\ batches'[c].status = "ABSENT" => Filed(c)' = {}
           /\ \A g \in Files : Ended(c)' /\ batches'[c].file = g => EndedOk(c, g)'
  BY <1>1, <1>5, <1>6, OthersStay
<1>8. BatchInv'
  <2>1. AllCovered(f, Filed(b))'
    BY <1>1, <1>3, <1>7 DEF AllCovered, Covered, Stored
  <2>2. EndedOk(b, f)'
    BY <1>4, <1>6, <1>7, <2>1 DEF EndedOk
  <2>3. QED
    BY <1>6, <1>7, <2>2 DEF BatchInv
<1>9. /\ importer' \in Importer
      /\ IF AllFailed
         THEN /\ importer'.pc = "fail" /\ importer'.batch = b
              /\ importer'.drafts = importer.drafts
              /\ importer'.errors = importer.errors
         ELSE importer' = Idle
  <2>1. CASE AllFailed
    <3>1. importer' = [pc |-> "fail", batch |-> importer.batch,
                       drafts |-> importer.drafts, seen |-> importer.seen,
                       errors |-> importer.errors, unsaved |-> importer.unsaved]
      BY <2>1, ImporterFacts DEF CompleteBatch
    <3>2. QED
      BY <1>2, <2>1, <3>1, ImporterFacts DEF Importer, PCs
  <2>2. CASE ~AllFailed
    BY <2>2, IdleFacts DEF CompleteBatch
  <2>3. QED
    BY <2>1, <2>2
<1>10. importer'.pc \in {"idle", "fail"}
  BY <1>9, IdleFacts
<1>11. HandInv'
  <2>1. CASE AllFailed
    <3>1. Hand(b, f)'
      BY <1>3, <1>6, <1>7, <1>9, <2>1 DEF Hand
    <3>2. File' = f /\ Busy'
      BY <1>6, <1>7, <1>9, <2>1 DEF File, Busy
    <3>3. QED
      BY <1>6, <1>7, <1>9, <2>1, <3>1, <3>2 DEF HandInv
  <2>2. CASE ~AllFailed
    BY <1>9, <2>2, IdleFacts DEF HandInv, Busy
  <2>3. QED
    BY <2>1, <2>2
<1>12. SoleInv'
  <2>1. \A c \in BatchIds : batches[c].status = "COMPLETED" => batches[c].file # f
    BY <1>1, <1>2 DEF SoleInv
  <2>2. CompletedOnce'
    <3> SUFFICES ASSUME NEW c \in BatchIds, NEW d \in BatchIds,
                        batches'[c].status = "COMPLETED",
                        batches'[d].status = "COMPLETED",
                        batches'[c].file = batches'[d].file
                 PROVE  c = d
      BY DEF CompletedOnce
    <3>1. CASE c # b /\ d # b
      BY <1>7, <3>1 DEF SoleInv, CompletedOnce
    <3>2. CASE c = b \/ d = b
      BY <1>6, <1>7, <2>1, <3>2
    <3>3. QED
      BY <3>1, <3>2
  <2>3. QED
    BY <1>10, <2>2 DEF SoleInv, Busy
<1>13. UnfinishedHasOwner'
  <2> SUFFICES ASSUME NEW c \in BatchIds,
                      \/ batches'[c].status = "RUNNING"
                      \/ /\ batches'[c].status = "COMPLETED"
                         /\ batches'[c].rows > 0
                         /\ batches'[c].errors = batches'[c].rows
               PROVE  importer'.batch = c \/ c \in abandoned
    BY <1>1 DEF UnfinishedHasOwner
  <2>1. CASE c = b
    <3>1. AllFailed
      BY <1>2, <1>6, <1>7, <2>1 DEF AllFailed
    <3>2. QED
      BY <1>9, <2>1, <3>1
  <2>2. CASE c # b
    BY <1>2, <1>7, <2>2 DEF UnfinishedHasOwner
  <2>3. QED
    BY <2>1, <2>2
<1>14. TypeOK'
  BY <1>1, <1>7, <1>9 DEF TypeOK
<1>15. StaleOnlyBySyncOrCrash'
  BY <1>1, <1>10 DEF StaleOnlyBySyncOrCrash
<1>16. QED
  BY <1>8, <1>11, <1>12, <1>13, <1>14, <1>15

LEMMA FailsBatch ==
    ASSUME IInv, FailBatch
    PROVE  IInv'
<1> USE DEF IInv
<1>1. /\ Busy /\ importer.pc = "fail" /\ importer' = Idle
      /\ UNCHANGED <<skus, inventory, balance, errorRows, syncer, crashes,
                     synced, cut, abandoned, collided>>
  BY DEF FailBatch, Busy
<1>2. PICK b \in BatchIds, f \in Files :
        /\ importer.batch = b /\ batches[b].file = f
        /\ File = f /\ Rows = Content[f] /\ Hand(b, f)
  BY <1>1, AtHand
<1> DEFINE row == [status |-> "FAILED", file |-> f,
                   rows |-> batches[b].rows, errors |-> batches[b].errors]
<1>3. batches[b] \in Batch /\ batches[b].status = "COMPLETED" /\ EndedOk(b, f)
  BY <1>1, <1>2 DEF TypeOK, Hand, BatchInv, Ended
<1>4. batches' = [batches EXCEPT ![b] = row]
  <2>1. [batches[b] EXCEPT !.status = "FAILED"] = row
    BY <1>2, <1>3 DEF Batch
  <2>2. batches' = [batches EXCEPT ![b] = [batches[b] EXCEPT !.status = "FAILED"]]
    BY <1>2 DEF FailBatch
  <2> HIDE DEF row
  <2>3. QED
    BY <2>1, <2>2, Zenon
<1>5. /\ row \in Batch /\ row.status = "FAILED" /\ row.file = f
      /\ row.rows = batches[b].rows /\ row.errors = batches[b].errors
  BY <1>3 DEF Batch
<1> HIDE DEF row
<1>6. /\ batches' \in [BatchIds -> Batch] /\ batches'[b] = row
      /\ \A c \in BatchIds \ {b} : batches'[c] = batches[c]
      /\ \A c \in BatchIds : Filed(c)' = Filed(c) /\ ErrorsOf(c)' = ErrorsOf(c)
      /\ \A c \in BatchIds \ {b} :
           /\ batches'[c].status # "ABSENT" => batches'[c].file \in Files
           /\ batches'[c].status = "ABSENT" => Filed(c)' = {}
           /\ \A g \in Files : Ended(c)' /\ batches'[c].file = g => EndedOk(c, g)'
  BY <1>1, <1>4, <1>5, OthersStay
<1>7. BatchInv'
  <2>1. AllCovered(f, Filed(b))'
    BY <1>1, <1>3, <1>6 DEF EndedOk, AllCovered, Covered, Stored
  <2>2. EndedOk(b, f)'
    BY <1>3, <1>5, <1>6, <2>1 DEF EndedOk
  <2>3. QED
    BY <1>5, <1>6, <2>2 DEF BatchInv
<1>8. HandInv'
  BY <1>1, IdleFacts DEF HandInv, Busy
<1>9. SoleInv'
  <2>1. \A c \in BatchIds : batches'[c].status = "COMPLETED" =>
          c # b /\ batches'[c] = batches[c]
    BY <1>5, <1>6
  <2>2. CompletedOnce'
    BY <2>1 DEF SoleInv, CompletedOnce
  <2>3. QED
    BY <1>1, <2>2, IdleFacts DEF SoleInv, Busy
<1>10. UnfinishedHasOwner'
  <2>1. \A c \in BatchIds :
          batches'[c].status \in {"RUNNING", "COMPLETED"} =>
            c # b /\ batches'[c] = batches[c] /\ importer.batch # c
    BY <1>2, <1>5, <1>6
  <2>2. QED
    BY <1>1, <2>1 DEF UnfinishedHasOwner
<1>11. TypeOK'
  BY <1>1, <1>6, IdleFacts DEF TypeOK
<1>12. StaleOnlyBySyncOrCrash'
  BY <1>1, IdleFacts DEF StaleOnlyBySyncOrCrash
<1>13. QED
  BY <1>7, <1>8, <1>9, <1>10, <1>11, <1>12

-----------------------------------------------------------------------------
(***************************************************************************)
(* Refusals, crashes and the SyncWorker                                    *)
(***************************************************************************)

LEMMA RefusesInsert ==
    ASSUME IInv, InsertRefused
    PROVE  IInv'
<1> USE DEF IInv
<1>1. /\ Busy /\ importer.pc = "insert" /\ importer' = Idle
      /\ abandoned' = abandoned \union {importer.batch}
      /\ UNCHANGED <<skus, inventory, balance, batches, errorRows, syncer,
                     crashes, synced, cut>>
  BY DEF InsertRefused, Busy
<1>2. PICK b \in BatchIds, f \in Files :
        /\ importer.batch = b /\ batches[b].file = f
        /\ File = f /\ Rows = Content[f] /\ Hand(b, f)
  BY <1>1, AtHand
<1>3. collided' \in SUBSET Events
  BY <1>1, <1>2, FreshFacts DEF InsertRefused, TypeOK
<1>4. HandInv' /\ BatchInv' /\ SoleInv' /\ UnfinishedHasOwner'
  BY <1>1, Leaves DEF Grows
<1>5. TypeOK'
  BY <1>1, <1>2, <1>3, IdleFacts DEF TypeOK
<1>6. StaleOnlyBySyncOrCrash'
  BY <1>1, IdleFacts DEF StaleOnlyBySyncOrCrash
<1>7. QED
  BY <1>4, <1>5, <1>6

LEMMA Crashes ==
    ASSUME IInv, Crash
    PROVE  IInv'
<1> USE DEF IInv
<1>1. /\ crashes' \in 0..MaxCrashes /\ importer' = Idle
      /\ syncer' \in {syncer, NoSync}
      /\ cut' = IF importer.pc = "rebuild" THEN cut \union Fresh ELSE cut
      /\ abandoned' = IF importer.pc = "idle" THEN abandoned
                      ELSE abandoned \union {importer.batch}
      /\ UNCHANGED <<skus, inventory, balance, batches, errorRows, synced,
                     collided>>
  BY ImportAssumption DEF Crash, TypeOK, ImportAssumption
<1>2. HandInv' /\ BatchInv' /\ SoleInv' /\ UnfinishedHasOwner'
  BY <1>1, Leaves DEF Grows, Busy
<1>3. NoSync \in Syncer
  BY DEF NoSync, Syncer
<1>4. abandoned' \in SUBSET BatchIds
  BY <1>1 DEF TypeOK, HandInv, Busy
<1>5. cut' \in SUBSET Events
  <2>1. CASE importer.pc = "rebuild"
    <3>1. Busy
      BY <2>1 DEF Busy
    <3>2. Fresh \in SUBSET Events
      BY <2>1, <3>1, AtHand, FreshFacts
    <3>3. QED
      BY <1>1, <2>1, <3>2 DEF TypeOK
  <2>2. CASE importer.pc # "rebuild"
    BY <1>1, <2>2 DEF TypeOK
  <2>3. QED
    BY <2>1, <2>2
<1>6. TypeOK'
  BY <1>1, <1>3, <1>4, <1>5, IdleFacts DEF TypeOK
<1>7. StaleOnlyBySyncOrCrash'
  BY <1>1, IdleFacts DEF StaleOnlyBySyncOrCrash
<1>8. QED
  BY <1>2, <1>6, <1>7

LEMMA Syncs ==
    ASSUME IInv, SyncStep
    PROVE  IInv'
<1> USE DEF IInv
<1>1. UNCHANGED <<skus, balance, batches, errorRows, importer, crashes, cut,
                  abandoned>>
  BY DEF SyncStep, SyncCheck, SyncInsert, SyncSkip
<1>2. /\ syncer' \in Syncer
      /\ \/ UNCHANGED <<inventory, synced, collided>>
         \/ /\ syncer.event \in Events /\ UNCHANGED <<inventory, synced>>
            /\ collided' = collided \union {syncer.event}
         \/ /\ syncer.event \in Events /\ UNCHANGED collided
            /\ inventory' = inventory \union {syncer.event}
            /\ synced' = synced \union {syncer.event}
  <2>1. NoSync \in Syncer /\ syncer.event \in Events \union {None}
    BY DEF NoSync, Syncer, TypeOK
  <2>2. CASE \E e \in Events : SyncCheck(e)
    <3>1. PICK e \in Events : SyncCheck(e)
      BY <2>2
    <3>2. (e \in inventory) \in BOOLEAN
      OBVIOUS
    <3>3. QED
      BY <3>1, <3>2 DEF SyncCheck, Syncer
  <2>3. CASE \E sku \in Skus : SyncInsert(sku)
    BY <2>1, <2>3 DEF SyncInsert
  <2>4. CASE SyncSkip
    BY <2>1, <2>4 DEF SyncSkip
  <2>5. QED
    BY <2>2, <2>3, <2>4 DEF SyncStep
<1>3. Grows
  BY <1>1, <1>2 DEF Grows
<1>4. HandInv' /\ BatchInv' /\ SoleInv' /\ UnfinishedHasOwner'
  BY <1>1, <1>3, Aside
<1>5. TypeOK'
  BY <1>1, <1>2 DEF TypeOK
<1>6. Fresh' = Fresh
  BY <1>1 DEF Fresh, Inserted, Rows, File
<1>7. StaleOnlyBySyncOrCrash'
  BY <1>1, <1>2, <1>6 DEF StaleOnlyBySyncOrCrash
<1>8. QED
  BY <1>4, <1>5, <1>7

-----------------------------------------------------------------------------
(***************************************************************************)
(* The specification                                                       *)
(***************************************************************************)

LEMMA StepKeeps ==
    ASSUME IInv, [Next]_vars
    PROVE  IInv'
<1>1. CASE \E f \in Files : StartImport(f)
  BY <1>1, StartsImport
<1>2. CASE ImportStep
  <2>1. CASE ValidateMaster
    BY <2>1, ValidatesMaster
  <2>2. CASE ValidateEvents
    BY <2>2, ValidatesEvents
  <2>3. CASE AddSku
    BY <2>3, AddsSku
  <2>4. CASE EndMaster
    BY <2>4, EndsMaster
  <2>5. CASE CheckExisting
    BY <2>5, ChecksExisting
  <2>6. CASE InsertEvents
    BY <2>6, InsertsEvents
  <2>7. CASE InsertRefused
    BY <2>7, RefusesInsert
  <2>8. CASE Rebuild
    BY <2>8, Rebuilds
  <2>9. CASE AddError
    BY <2>9, AddsError
  <2>10. CASE CompleteBatch
    BY <2>10, CompletesBatch
  <2>11. CASE FailBatch
    BY <2>11, FailsBatch
  <2>12. QED
    BY <1>2, <2>1, <2>2, <2>3, <2>4, <2>5, <2>6, <2>7, <2>8, <2>9, <2>10,
       <2>11 DEF ImportStep
<1>3. CASE SyncStep
  BY <1>3, Syncs
<1>4. CASE Crash
  BY <1>4, Crashes
<1>5. CASE UNCHANGED vars
  <2> USE DEF IInv
  <2>1. HandInv' /\ BatchInv' /\ SoleInv' /\ UnfinishedHasOwner'
    BY <1>5, Aside DEF vars, Grows
  <2>2. TypeOK'
    BY <1>5 DEF vars, TypeOK
  <2>3. Fresh' = Fresh
    BY <1>5 DEF vars, Fresh, Inserted, Rows, File
  <2>4. StaleOnlyBySyncOrCrash'
    BY <1>5, <2>3 DEF vars, StaleOnlyBySyncOrCrash
  <2>5. QED
    BY <2>1, <2>2, <2>4
<1>6. QED
  BY <1>1, <1>2, <1>3, <1>4, <1>5 DEF Next

\* The inductive invariant holds from the first start on.
THEOREM Invariance == Spec => []IInv
<1>1. Init => IInv
  <2> SUFFICES ASSUME Init PROVE IInv
    OBVIOUS
  <2>1. \A b \in BatchIds :
          batches[b] = [status |-> "ABSENT", file |-> None, rows |-> 0, errors |-> 0]
    BY DEF Init
  <2>2. importer = Idle /\ ~Busy
    BY IdleFacts DEF Init, Busy
  <2>3. TypeOK
    <3>1. batches \in [BatchIds -> Batch]
      BY DEF Init, Batch
    <3>2. NoSync \in Syncer /\ 0 \in 0..MaxCrashes
      BY ImportAssumption DEF NoSync, Syncer, ImportAssumption
    <3>3. QED
      BY <3>1, <3>2, IdleFacts DEF Init, TypeOK
  <2>4. HandInv
    BY <2>2 DEF HandInv
  <2>5. BatchInv
    BY <2>1 DEF BatchInv, Ended, Filed, ErrorsOf, Init
  <2>6. SoleInv /\ UnfinishedHasOwner
    BY <2>1, <2>2 DEF SoleInv, CompletedOnce, UnfinishedHasOwner
  <2>7. StaleOnlyBySyncOrCrash
    BY DEF StaleOnlyBySyncOrCrash, Init
  <2>8. QED
    BY <2>3, <2>4, <2>5, <2>6, <2>7 DEF IInv
<1>2. IInv /\ [Next]_vars => IInv'
  BY StepKeeps
<1>3. QED
  BY <1>1, <1>2, PTL DEF Spec

\* Every variable keeps its type.
THEOREM ImportTypeCorrect == Spec => []TypeOK
<1>1. IInv => TypeOK
  BY DEF IInv
<1>2. QED
  BY <1>1, Invariance, PTL

\* Of a batch that has ended no row is lost: each is stored or has an error
\* in import_error, for any files, crashes and concurrent inserts.
THEOREM NoRowIsLost == Spec => []ErrorIsolation
<1>1. IInv => ErrorIsolation
  <2> SUFFICES ASSUME IInv, NEW b \in BatchIds, Ended(b),
                      NEW r \in DOMAIN Content[batches[b].file]
               PROVE  \/ Stored(batches[b].file, Content[batches[b].file][r])
                      \/ \E x \in ErrorsOf(b) : x.error.row = r
    BY DEF ErrorIsolation
  <2>1. batches[b].file \in Files
    BY DEF IInv, BatchInv, Ended
  <2>2. EndedOk(b, batches[b].file)
    BY <2>1 DEF IInv, BatchInv
  <2>3. Covered(batches[b].file, r, Filed(b))
    BY <2>2 DEF EndedOk, AllCovered
  <2>4. QED
    BY <2>3 DEF Covered, Filed
<1>2. QED
  BY <1>1, Invariance, PTL

\* The counts of a batch that has ended are those of its file and of the
\* errors that were written for it.
THEOREM CountsAreTrue == Spec => []CountsMatchRows
<1>1. IInv => CountsMatchRows
  <2> SUFFICES ASSUME IInv, NEW b \in BatchIds, Ended(b)
               PROVE  /\ batches[b].rows = Len(Content[batches[b].file])
                      /\ batches[b].errors = Cardinality(ErrorsOf(b))
    BY DEF CountsMatchRows
  <2>1. batches[b].file \in Files
    BY DEF IInv, BatchInv, Ended
  <2>2. QED
    BY <2>1 DEF IInv, BatchInv, EndedOk
<1>2. QED
  BY <1>1, Invariance, PTL

\* inventory_balance misses only what the SyncWorker stored, what a crash cut
\* off, and what the import in progress is about to replay.
THEOREM StalenessExplained == Spec => []StaleOnlyBySyncOrCrash
<1>1. IInv => StaleOnlyBySyncOrCrash
  BY DEF IInv
<1>2. QED
  BY <1>1, Invariance, PTL

\* A file is committed at most once, whatever crashed in between.
THEOREM OneCommit == Spec => []CompletedOnce
<1>1. IInv => CompletedOnce
  BY DEF IInv, SoleInv
<1>2. QED
  BY <1>1, Invariance, PTL

\* A batch without its final status is in run_import's hands or was abandoned.
THEOREM UnfinishedOwned == Spec => []UnfinishedHasOwner
<1>1. IInv => UnfinishedHasOwner
  BY DEF IInv
<1>2. QED
  BY <1>1, Invariance, PTL

-----------------------------------------------------------------------------
(***************************************************************************)
(* The wizard.  A batch made while its file was not rewritten has read     *)
(* what it hashed (ReadInv), because run_import, once it has read, holds   *)
(* what the disk still holds (ReadingInv); and the result on the page is   *)
(* of the file chosen, because it is forgotten on the way back to the      *)
(* execute page, the only way by which another file can come in            *)
(* (ResultInv).                                                            *)
(***************************************************************************)

WizardPages == {"closed", "file", "mapping", "preview", "execute", "errors"}

WizardShape(w) ==
    w = [page |-> w.page, path |-> w.path, source |-> w.source,
         preview |-> w.preview, kind |-> w.kind, mapping |-> w.mapping,
         ready |-> w.ready, result |-> w.result, refusedAs |-> w.refusedAs,
         summary |-> w.summary, table |-> w.table]

WizardBatch == [path : Paths, hash : Contents, read : Contents, kind : Kinds,
          status : {"RUNNING", "FAILED", "COMPLETED"}, stored : BOOLEAN]

WizardTypes ==
    /\ disk \in [Paths -> Contents \union {Gone}]
    /\ ledger \in Seq(WizardBatch)
    /\ WizardShape(wizard)
    /\ wizard.page \in WizardPages
    /\ wizard.kind \in Kinds
    /\ reading \in Contents \union {Nothing}

\* Beyond the first page there is a snapshot of a file.
ChosenInv ==
    /\ wizard.page \notin {"closed", "file"} => wizard.preview # Nothing
    /\ wizard.preview # Nothing => wizard.source \in Paths

ReadingInv ==
    reading # Nothing =>
        /\ wizard.page = "execute"
        /\ reading = disk[wizard.source] \/ Len(ledger) + 1 \in rewritten

ReadInv ==
    \A b \in DOMAIN ledger : ledger[b].read = ledger[b].hash \/ b \in rewritten

ResultInv ==
    /\ wizard.page \in {"execute", "errors"} /\ wizard.result # Nothing =>
         /\ wizard.result = wizard.summary
         /\ wizard.result \in DOMAIN ledger
         /\ ledger[wizard.result].path = wizard.source
    /\ wizard.page = "errors" => wizard.table = wizard.result

RefusedInv == wizard.refusedAs # Nothing => wizard.refusedAs \in DOMAIN ledger

WizardIInv ==
    WizardTypes /\ ChosenInv /\ ReadingInv /\ ReadInv /\ ResultInv /\ RefusedInv

\* A content is neither of the two that stand for none.
LEMMA WizardContentFacts ==
    /\ \A c \in Contents : c # Gone /\ c # Nothing
    /\ \A p \in Paths : p # Nothing
BY WizardAssumption DEF WizardAssumption

\* Steps that move between the pages: what the invariant asks of the new
\* state of the wizard, when nothing else changes.
LEMMA WizardPageMoves ==
    ASSUME WizardIInv, Elsewhere, reading = Nothing,
           WizardShape(wizard)', wizard'.page \in WizardPages, wizard'.kind \in Kinds,
           wizard'.page \notin {"closed", "file"} => wizard'.preview # Nothing,
           wizard'.preview # Nothing => wizard'.source \in Paths,
           ResultInv',
           wizard'.refusedAs \in {Nothing, wizard.refusedAs}
    PROVE  WizardIInv'
<1> USE DEF WizardIInv, Elsewhere
<1>1. WizardTypes'
  BY DEF WizardTypes
<1>2. ChosenInv' /\ ReadingInv' /\ ReadInv'
  BY DEF ChosenInv, ReadingInv, ReadInv
<1>3. RefusedInv'
  BY DEF RefusedInv
<1>4. QED
  BY <1>1, <1>2, <1>3

\* A fresh wizard.
LEMMA WizardOpensAndCloses ==
    ASSUME WizardIInv, reading = Nothing, Elsewhere,
           wizard' \in {NewWizard, [NewWizard EXCEPT !.page = "file"]}
    PROVE  WizardIInv'
<1>1. /\ WizardShape(wizard)' /\ wizard'.page \in {"closed", "file"}
      /\ wizard'.kind \in Kinds
      /\ wizard'.preview = Nothing /\ wizard'.refusedAs = Nothing
  BY DEF NewWizard, WizardShape, Kinds
<1>2. ResultInv'
  BY <1>1 DEF ResultInv
<1>3. QED
  BY <1>1, <1>2, WizardPageMoves DEF WizardPages

LEMMA WizardSetsFile ==
    ASSUME WizardIInv, NEW p \in Paths, SetFile(p)
    PROVE  WizardIInv'
<1>1. reading = Nothing /\ wizard.page = "file" /\ Elsewhere
  BY DEF SetFile, OnPage
<1>2. disk[p] \in Contents \union {Gone}
  BY DEF WizardIInv, WizardTypes
<1> DEFINE w(source, preview) ==
        [wizard EXCEPT !.path = p, !.source = source, !.preview = preview]
<1>3. \/ wizard' = w(wizard.source, wizard.preview)
      \/ wizard' = w(p, disk[p])
      \/ wizard' = w(Nothing, Nothing)
  <2>1. CASE disk[p] = Gone
    BY <2>1 DEF SetFile, WizardIInv, WizardTypes, WizardShape, Readable
  <2>2. CASE Readable(disk[p])
    BY <2>2, WizardIInv DEF SetFile, Readable, WizardIInv, WizardTypes, WizardShape
  <2>3. CASE disk[p] # Gone /\ ~Readable(disk[p])
    BY <2>3 DEF SetFile, Readable, WizardIInv, WizardTypes, WizardShape
  <2>4. QED
    BY <2>1, <2>2, <2>3
<1>4. \E source, preview :
         /\ wizard' = w(source, preview)
         /\ preview # Nothing => source \in Paths
  BY <1>3 DEF WizardIInv, ChosenInv
<1>5. /\ WizardShape(wizard)' /\ wizard'.page = "file" /\ wizard'.kind = wizard.kind
      /\ wizard'.preview # Nothing => wizard'.source \in Paths
      /\ wizard'.refusedAs = wizard.refusedAs
  BY <1>1, <1>4 DEF WizardIInv, WizardTypes, WizardShape
<1>6. ResultInv'
  BY <1>5 DEF ResultInv
<1>7. QED
  BY <1>1, <1>5, <1>6, WizardPageMoves DEF WizardIInv, WizardTypes, WizardPages

\* From the file to the preview: the fields to be mapped.
LEMMA WizardMaps ==
    ASSUME WizardIInv,
           \/ ToMapping \/ MapFields \/ ToPreview
           \/ \E k \in Kinds : ChooseKind(k)
    PROVE  WizardIInv'
<1>1. reading = Nothing /\ Elsewhere /\ wizard.preview # Nothing
  BY DEF ToMapping, MapFields, ToPreview, ChooseKind, OnPage, WizardIInv, ChosenInv
<1>2. wizard.kind \in Kinds /\ WizardShape(wizard)
  BY DEF WizardIInv, WizardTypes
<1> DEFINE Moved ==
        /\ WizardShape(wizard)' /\ wizard'.page \in {"mapping", "preview"}
        /\ wizard'.kind \in Kinds
        /\ wizard'.preview = wizard.preview /\ wizard'.source = wizard.source
        /\ wizard'.refusedAs = wizard.refusedAs
<1>3. Moved
  <2>1. CASE ToMapping
    BY <1>2, <2>1 DEF ToMapping, Suggested, WizardShape
  <2>2. CASE MapFields
    BY <1>2, <2>2 DEF MapFields, OnPage, WizardShape
  <2>3. CASE ToPreview
    BY <1>2, <2>3 DEF ToPreview, WizardShape
  <2>4. ASSUME NEW k \in Kinds, ChooseKind(k)
        PROVE  Moved
    BY <1>2, <2>4 DEF ChooseKind, Suggested, OnPage, WizardShape
  <2>5. QED
    BY <2>1, <2>2, <2>3, <2>4
<1>4. ResultInv'
  BY <1>3 DEF ResultInv
<1>5. QED
  BY <1>1, <1>3, <1>4, WizardPageMoves DEF WizardPages, WizardIInv, ChosenInv

\* The execute page starts without a result.
LEMMA WizardEnters ==
    ASSUME WizardIInv, ToExecute
    PROVE  WizardIInv'
<1>1. reading = Nothing /\ Elsewhere /\ wizard.page = "preview"
  BY DEF ToExecute, OnPage
<1>2. /\ WizardShape(wizard)' /\ wizard'.page = "execute" /\ wizard'.kind \in Kinds
      /\ wizard'.preview = wizard.preview /\ wizard'.source = wizard.source
      /\ wizard'.result = Nothing /\ wizard'.refusedAs = Nothing
  BY DEF ToExecute, WizardIInv, WizardTypes, WizardShape
<1>3. ResultInv'
  BY <1>2 DEF ResultInv
<1>4. QED
  BY <1>1, <1>2, <1>3, WizardPageMoves DEF WizardPages, WizardIInv, ChosenInv

LEMMA WizardGoesBack ==
    ASSUME WizardIInv, Back
    PROVE  WizardIInv'
<1>1. reading = Nothing /\ Elsewhere
      /\ wizard.page \in {"mapping", "preview", "execute", "errors"}
  BY DEF Back, Before
<1> DEFINE q == Before[wizard.page]
<1>2. /\ q \in {"file", "mapping", "preview", "execute"}
      /\ q = "execute" => wizard.page = "errors"
  BY <1>1 DEF Before
<1>3. wizard' = [wizard EXCEPT !.page = q, !.ready = wizard.result # Nothing]
  BY DEF Back
<1> HIDE DEF q
<1>4. /\ WizardShape(wizard)' /\ wizard'.kind \in Kinds
      /\ wizard'.page = q
      /\ wizard'.preview = wizard.preview /\ wizard'.source = wizard.source
      /\ wizard'.result = wizard.result /\ wizard'.summary = wizard.summary
      /\ wizard'.refusedAs = wizard.refusedAs
  BY <1>3 DEF WizardIInv, WizardTypes, WizardShape
<1>5. ResultInv'
  BY <1>2, <1>1, <1>4 DEF ResultInv, WizardIInv, Elsewhere
<1>6. QED
  BY <1>2, <1>1, <1>4, <1>5, WizardPageMoves DEF WizardPages, WizardIInv, ChosenInv

LEMMA WizardShowsErrors ==
    ASSUME WizardIInv, ToErrors
    PROVE  WizardIInv'
<1>1. reading = Nothing /\ Elsewhere /\ wizard.page = "execute"
  BY DEF ToErrors, OnPage
<1>2. /\ WizardShape(wizard)' /\ wizard'.kind \in Kinds /\ wizard'.page = "errors"
      /\ wizard'.preview = wizard.preview /\ wizard'.source = wizard.source
      /\ wizard'.result = wizard.result /\ wizard'.summary = wizard.summary
      /\ wizard'.table = wizard.result
      /\ wizard'.refusedAs = wizard.refusedAs
  BY DEF ToErrors, WizardIInv, WizardTypes, WizardShape
<1>3. ResultInv'
  BY <1>1, <1>2 DEF ResultInv, WizardIInv, Elsewhere
<1>4. QED
  BY <1>1, <1>2, <1>3, WizardPageMoves DEF WizardPages, WizardIInv, ChosenInv

\* run_import has read the file: it holds what is on disk.
LEMMA WizardClicksRun ==
    ASSUME WizardIInv, ClickRun
    PROVE  WizardIInv'
<1>1. /\ wizard.page = "execute" /\ wizard.source \in Paths
      /\ reading' = disk[wizard.source] /\ reading' \in Contents
      /\ UNCHANGED <<disk, ledger, wizard, rewritten>>
  BY DEF ClickRun, OnPage, Readable, WizardIInv, WizardTypes, ChosenInv
<1>2. WizardTypes'
  BY <1>1 DEF WizardIInv, WizardTypes
<1>3. ChosenInv' /\ ReadInv' /\ ResultInv' /\ RefusedInv'
  BY <1>1 DEF WizardIInv, ChosenInv, ReadInv, ResultInv, RefusedInv
<1>4. ReadingInv'
  BY <1>1 DEF ReadingInv
<1>5. QED
  BY <1>2, <1>3, <1>4 DEF WizardIInv

\* A batch is filed: its entry is the last, and agrees with the disk unless
\* the file was rewritten since it was read.
LEMMA WizardFiles ==
    ASSUME WizardIInv, reading # Nothing, Hashed # Gone,
           NEW status \in {"RUNNING", "FAILED", "COMPLETED"}, NEW stored \in BOOLEAN,
           NewBatch(status, stored), reading' = Nothing, UNCHANGED <<disk, rewritten>>
    PROVE  /\ ledger' \in Seq(WizardBatch)
           /\ Len(ledger) \in Nat /\ DOMAIN ledger = 1..Len(ledger)
           /\ DOMAIN ledger' = DOMAIN ledger \union {Len(ledger) + 1}
           /\ \A b \in DOMAIN ledger : ledger'[b] = ledger[b]
           /\ ledger'[Len(ledger) + 1].path = wizard.source
           /\ ReadingInv' /\ ReadInv'
<1> DEFINE filed == [path |-> wizard.source, hash |-> Hashed, read |-> reading,
                     kind |-> wizard.kind, status |-> status, stored |-> stored]
<1>1. wizard.page = "execute" /\ wizard.source \in Paths
  BY DEF WizardIInv, ReadingInv, ChosenInv
<1>2. filed \in WizardBatch
  BY <1>1 DEF WizardBatch, Hashed, WizardIInv, WizardTypes
<1>3. ledger \in Seq(WizardBatch) /\ ledger' = Append(ledger, filed)
  BY DEF NewBatch, WizardIInv, WizardTypes
<1> HIDE DEF filed
<1>4. /\ ledger' \in Seq(WizardBatch) /\ Len(ledger) \in Nat /\ DOMAIN ledger = 1..Len(ledger)
      /\ DOMAIN ledger' = DOMAIN ledger \union {Len(ledger) + 1}
      /\ \A b \in DOMAIN ledger : ledger'[b] = ledger[b]
      /\ ledger'[Len(ledger) + 1] = filed
  BY <1>2, <1>3
<1>5. /\ filed.path = wizard.source /\ filed.hash = disk[wizard.source]
      /\ filed.read = reading
  BY DEF filed, Hashed
<1>6. filed.read = filed.hash \/ Len(ledger) + 1 \in rewritten
  BY <1>5 DEF WizardIInv, ReadingInv
<1>7. ReadInv'
  BY <1>4, <1>6 DEF WizardIInv, ReadInv
<1>8. ReadingInv'
  BY DEF ReadingInv
<1>9. QED
  BY <1>4, <1>5, <1>7, <1>8

LEMMA WizardImports ==
    ASSUME WizardIInv, RunImports
    PROVE  WizardIInv'
<1>1. PICK status \in {"RUNNING", "FAILED", "COMPLETED"}, stored \in BOOLEAN :
         NewBatch(status, stored)
  BY DEF RunImports
<1>2. /\ reading # Nothing /\ Hashed # Gone /\ reading' = Nothing
      /\ UNCHANGED <<disk, rewritten>>
      /\ wizard.page = "execute"
  BY DEF RunImports, WizardIInv, ReadingInv
<1>3. /\ ledger' \in Seq(WizardBatch)
      /\ DOMAIN ledger' = DOMAIN ledger \union {Len(ledger) + 1}
      /\ \A b \in DOMAIN ledger : ledger'[b] = ledger[b]
      /\ ledger'[Len(ledger) + 1].path = wizard.source
      /\ ReadingInv' /\ ReadInv'
  BY <1>1, <1>2, WizardFiles
<1>4. /\ WizardShape(wizard)' /\ wizard'.page = "execute" /\ wizard'.kind \in Kinds
      /\ wizard'.preview = wizard.preview /\ wizard'.source = wizard.source
      /\ wizard'.result = Len(ledger) + 1 /\ wizard'.summary = Len(ledger) + 1
      /\ wizard'.refusedAs = Nothing
  BY <1>2 DEF RunImports, WizardIInv, WizardTypes, WizardShape
<1>5. WizardTypes'
  BY <1>2, <1>3, <1>4 DEF WizardIInv, WizardTypes, WizardPages
<1>6. ChosenInv' /\ RefusedInv'
  BY <1>2, <1>4 DEF WizardIInv, ChosenInv, RefusedInv
<1>7. ResultInv'
  BY <1>3, <1>4 DEF ResultInv
<1>8. QED
  BY <1>3, <1>5, <1>6, <1>7 DEF WizardIInv

LEMMA WizardRefuses ==
    ASSUME WizardIInv, RunRefuses
    PROVE  WizardIInv'
<1>1. PICK b \in DOMAIN ledger :
         wizard' = [wizard EXCEPT !.result = Nothing, !.refusedAs = b]
  BY DEF RunRefuses, Committed
<1>2. /\ WizardShape(wizard)' /\ wizard'.page = "execute" /\ wizard'.kind \in Kinds
      /\ wizard'.preview = wizard.preview /\ wizard'.source = wizard.source
      /\ wizard'.result = Nothing /\ wizard'.refusedAs = b
  BY <1>1 DEF RunRefuses, WizardIInv, WizardTypes, WizardShape, ReadingInv
<1>3. /\ reading' = Nothing /\ UNCHANGED <<disk, ledger, rewritten>>
      /\ wizard.page = "execute"
  BY DEF RunRefuses, WizardIInv, ReadingInv
<1>4. WizardTypes'
  BY <1>2, <1>3 DEF WizardIInv, WizardTypes, WizardPages
<1>5. ChosenInv' /\ RefusedInv' /\ ResultInv'
  BY <1>2, <1>3 DEF WizardIInv, ChosenInv, RefusedInv, ResultInv
<1>6. ReadingInv' /\ ReadInv'
  BY <1>3 DEF WizardIInv, ReadingInv, ReadInv
<1>7. QED
  BY <1>4, <1>5, <1>6 DEF WizardIInv

LEMMA WizardRaises ==
    ASSUME WizardIInv, RunRaises
    PROVE  WizardIInv'
<1>1. /\ reading # Nothing /\ reading' = Nothing
      /\ UNCHANGED <<disk, wizard, rewritten>>
  BY DEF RunRaises
<1>2. /\ ledger' \in Seq(WizardBatch) /\ DOMAIN ledger \subseteq DOMAIN ledger'
      /\ \A b \in DOMAIN ledger : ledger'[b] = ledger[b]
      /\ ReadingInv' /\ ReadInv'
  <2>1. CASE UNCHANGED ledger
    BY <1>1, <2>1 DEF WizardIInv, WizardTypes, ReadingInv, ReadInv
  <2>2. CASE Hashed # Gone /\ NewBatch("RUNNING", FALSE)
    BY <1>1, <2>2, WizardFiles
  <2>3. QED
    BY <2>1, <2>2 DEF RunRaises
<1>3. WizardTypes'
  BY <1>1, <1>2 DEF WizardIInv, WizardTypes
<1>4. ChosenInv' /\ RefusedInv'
  BY <1>1, <1>2 DEF WizardIInv, ChosenInv, RefusedInv
<1>5. ResultInv'
  BY <1>1, <1>2 DEF WizardIInv, ResultInv
<1>6. QED
  BY <1>2, <1>3, <1>4, <1>5 DEF WizardIInv

\* Another program rewrites a file.
LEMMA WizardEdits ==
    ASSUME WizardIInv, NEW p \in Paths, Edit(p)
    PROVE  WizardIInv'
<1>1. PICK c \in Contents \union {Gone} : disk' = [disk EXCEPT ![p] = c]
  BY DEF Edit
<1>2. /\ UNCHANGED <<ledger, wizard, reading>>
      /\ rewritten \subseteq rewritten'
      /\ reading # Nothing /\ p = wizard.source => Len(ledger) + 1 \in rewritten'
  BY DEF Edit
<1>3. WizardTypes'
  BY <1>1, <1>2 DEF WizardIInv, WizardTypes
<1>4. ChosenInv' /\ RefusedInv' /\ ResultInv' /\ ReadInv'
  BY <1>2 DEF WizardIInv, ChosenInv, RefusedInv, ResultInv, ReadInv
<1>5. ReadingInv'
  <2>1. CASE p = wizard.source
    BY <1>2, <2>1 DEF WizardIInv, ReadingInv
  <2>2. ASSUME p # wizard.source, reading # Nothing
        PROVE  disk'[wizard.source] = disk[wizard.source]
    BY <1>1, <2>2 DEF WizardIInv, WizardTypes, ReadingInv, ChosenInv
  <2>3. QED
    BY <1>2, <2>1, <2>2 DEF WizardIInv, ReadingInv
<1>6. QED
  BY <1>3, <1>4, <1>5 DEF WizardIInv

LEMMA WizardStep ==
    ASSUME WizardIInv, [WizardNext]_importWizard
    PROVE  WizardIInv'
<1>1. CASE OpenWizard \/ Cancel
  BY <1>1, WizardOpensAndCloses DEF OpenWizard, Cancel, OnPage
<1>2. CASE Finish
  <2>1. reading = Nothing /\ wizard' = NewWizard /\ UNCHANGED <<disk, edits, ledger, reading, rewritten>>
    BY <1>2 DEF Finish, OnPage
  <2>2. WizardShape(wizard)' /\ wizard'.page = "closed" /\ wizard'.kind \in Kinds
        /\ wizard'.preview = Nothing /\ wizard'.refusedAs = Nothing
    BY <2>1 DEF NewWizard, WizardShape, Kinds
  <2>3. WizardTypes'
    BY <2>1, <2>2 DEF WizardIInv, WizardTypes, WizardPages
  <2>4. ChosenInv' /\ ReadingInv' /\ ReadInv' /\ ResultInv' /\ RefusedInv'
    BY <2>1, <2>2 DEF WizardIInv, ChosenInv, ReadingInv, ReadInv, ResultInv, RefusedInv
  <2>5. QED
    BY <2>3, <2>4 DEF WizardIInv
<1>3. ASSUME NEW p \in Paths, SetFile(p)
      PROVE  WizardIInv'
  BY <1>3, WizardSetsFile
<1>4. CASE ToMapping \/ MapFields \/ ToPreview \/ \E k \in Kinds : ChooseKind(k)
  BY <1>4, WizardMaps
<1>5. CASE ToExecute
  BY <1>5, WizardEnters
<1>6. CASE Back
  BY <1>6, WizardGoesBack
<1>7. CASE ToErrors
  BY <1>7, WizardShowsErrors
<1>8. CASE ClickRun
  BY <1>8, WizardClicksRun
<1>9. CASE RunImports \/ RunRefuses \/ RunRaises
  BY <1>9, WizardImports, WizardRefuses, WizardRaises
<1>10. ASSUME NEW p \in Paths, Edit(p)
       PROVE  WizardIInv'
  BY <1>10, WizardEdits
<1>11. CASE UNCHANGED importWizard
  BY <1>11 DEF importWizard, WizardIInv, WizardTypes, ChosenInv, ReadingInv, ReadInv,
               ResultInv, RefusedInv
<1>12. QED
  BY <1>1, <1>2, <1>3, <1>4, <1>5, <1>6, <1>7, <1>8, <1>9, <1>10, <1>11 DEF WizardNext

\* The invariant of the wizard holds from the start on.
THEOREM WizardInvariance == WizardSpec => []WizardIInv
<1>1. WizardInit => WizardIInv
  <2> SUFFICES ASSUME WizardInit PROVE WizardIInv
    OBVIOUS
  <2>1. WizardShape(wizard) /\ wizard.page = "closed" /\ wizard.kind \in Kinds
        /\ wizard.preview = Nothing /\ wizard.refusedAs = Nothing
    BY DEF WizardInit, NewWizard, WizardShape, Kinds
  <2>2. ledger = << >> /\ reading = Nothing /\ disk \in [Paths -> Contents \union {Gone}]
    BY DEF WizardInit
  <2>3. WizardTypes
    BY <2>1, <2>2 DEF WizardTypes, WizardPages
  <2>4. ChosenInv /\ ReadingInv /\ ReadInv /\ ResultInv /\ RefusedInv
    BY <2>1, <2>2 DEF ChosenInv, ReadingInv, ReadInv, ResultInv, RefusedInv
  <2>5. QED
    BY <2>3, <2>4 DEF WizardIInv
<1>2. WizardIInv /\ [WizardNext]_importWizard => WizardIInv'
  BY WizardStep
<1>3. QED
  BY <1>1, <1>2, PTL DEF WizardSpec

\* Whatever is rewritten while run_import reads and hashes, and however the user
\* goes back and forth: the errors listed are of the batch summed up and of the
\* file chosen, and a file refused as imported before was read by that batch,
\* unless it was rewritten meanwhile.
THEOREM WizardIsTruthful == WizardSpec => []WizardTellsTruth
<1>1. WizardIInv => ErrorsOfChosenFile
  BY DEF WizardIInv, ResultInv, ErrorsOfChosenFile
<1>2. WizardIInv => RefusedWasRead
  BY DEF WizardIInv, RefusedInv, ReadInv, RefusedWasRead
<1>3. QED
  BY <1>1, <1>2, WizardInvariance, PTL DEF WizardTellsTruth
=============================================================================
