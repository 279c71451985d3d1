--------------------------- MODULE IssuingProofs ---------------------------
(***************************************************************************)
(* Invoice numbers have no gap, and a monthly run is all or nothing, for   *)
(* any number of requests, leases, tenants and units.                      *)
(*                                                                         *)
(* The inductive invariant: Typed (with the labels each kind of request    *)
(* goes through), Numbering (at most one request has uncommitted invoices, *)
(* numbered on from the last committed one), and Whole (what each run has  *)
(* still to do for the leases it began with).                              *)
(*                                                                         *)
(* On top of it, nothing is billed or let twice, and the mails tell what   *)
(* is on the books: what a run still has to do and what it has in its      *)
(* session are different leases, which nobody else billed meanwhile        *)
(* (Once); the unit and the tenant of a lease on its way are free, a unit  *)
(* is OCCUPIED while a lease of it is ACTIVE, and a lease on its way to be *)
(* ended is ACTIVE (Lets); each of them but for what overlapped, and for   *)
(* leases ended again.  Locks is the order in which rows are locked.       *)
(***************************************************************************)
EXTENDS Issuing, FiniteSetTheorems, TLAPS

USE IssuingAssumption

----------------------------------------------------------------------------
(* The inductive invariant.                                                *)

RunLabels == {"absent", "leases", "check", "count", "insert", "mail", "dispatch",
              "done", "failed", "crashed"}
BillLabels == {"absent", "lease", "count", "insert", "mail", "dispatch", "done", "failed", "crashed"}
LetLabels == {"absent", "tenant", "unit", "active", "writeUnit", "writeTenant",
              "writeLease", "commit", "done", "refused", "crashed"}
EndLabels == {"absent", "lease", "unit", "tenant", "writeUnit", "writeTenant",
              "writeLease", "commit", "done", "refused", "crashed"}
Labels(kind) ==
  CASE kind = "run" -> RunLabels [] kind = "bill" -> BillLabels
    [] kind = "let" -> LetLabels [] OTHER -> EndLabels
Label == RunLabels \cup BillLabels \cup LetLabels \cup EndLabels

Rows == UNION {[S -> InvoiceRow] : S \in SUBSET Nat}
LeaseState == {"NONE", "ACTIVE", "TERMINATED"}
UnitState == {"AVAILABLE", "OCCUPIED"}
Homes == Unit \cup {NoUnit}
Draft == [rows: Rows, lease: LeaseState \cup {Same}, unit: UnitState \cup {Same},
          home: Homes \cup {Same, Kept}, told: SUBSET Nat]
Seen == [lease: LeaseState, unit: UnitState \cup {"NONE"}, home: Homes]

Typed ==
  /\ lease \in [Lease -> LeaseState] /\ unit \in [Unit -> UnitState] /\ home \in [Tenant -> Homes]
  /\ invoices \in Rows /\ told \in SUBSET Nat
  /\ at \in [Request -> Label]
  /\ \A x \in Request : at[x] \in Labels(Job[x].kind)
  /\ saw \in [Request -> Seen]
  /\ active \in [Request -> SUBSET Lease] /\ todo \in [Request -> SUBSET Lease]
  /\ hand \in [Request -> Lease \cup {NoLease}] /\ number \in [Request -> Nat]
  /\ draft \in [Request -> Draft]
  /\ \A x \in Request : Job[x].kind = "run" /\ at[x] \in {"count", "insert"} => hand[x] \in Lease

\* The books end at c, and the request that has rows goes on from there.
NumberedTo(c) ==
  /\ Numbers = 1 .. c
  /\ \A x \in Request : \E k \in Nat :
       /\ OwnNumbers(x) = (c + 1) .. (c + k)
       /\ at[x] = "insert" => number[x] \in 1 .. (c + k + 1)
Numbering ==
  /\ \E c \in Nat : NumberedTo(c)
  /\ \A x, y \in Request : OwnNumbers(x) # {} /\ OwnNumbers(y) # {} => x = y

InDraft(x, l) == \E n \in OwnNumbers(x) : draft[x].rows[n].lease = l
OnBooks(x) == \E n \in Numbers : invoices[n].by = x
Accounted(x, l) ==
  l \in todo[x] \/ Billed(l) \/ InDraft(x, l) \/ (at[x] \in {"count", "insert"} /\ l = hand[x])
WholeRun(x) ==
  /\ at[x] \in {"leases", "check", "count", "insert"} => ~OnBooks(x)
  /\ at[x] \in {"check", "count", "insert", "mail", "dispatch"} => \A l \in active[x] : Accounted(x, l)
  /\ at[x] \in {"mail", "dispatch"} => todo[x] = {}
  /\ at[x] = "done" \/ OnBooks(x) => \A l \in active[x] : Billed(l)
Whole ==
  /\ \A x \in Request : \A n \in OwnNumbers(x) : draft[x].rows[n].by = x
  /\ \A x \in Request : Job[x].kind = "run" => WholeRun(x)

IInv == Typed /\ Numbering /\ Whole

----------------------------------------------------------------------------
(* Facts about rows and intervals.                                         *)

LEMMA IntervalSize ==
  ASSUME NEW c \in Nat
  PROVE  IsFiniteSet(1 .. c) /\ Cardinality(1 .. c) = c
  BY FS_Interval

LEMMA OwnSize ==
  ASSUME NEW c \in Nat, NEW k \in Nat
  PROVE  Cardinality((c + 1) .. (c + k)) = k
<1>1. CASE k = 0
  <2>1. (c + 1) .. (c + k) = {}  BY <1>1
  <2> QED  BY <1>1, <2>1, FS_EmptySet
<1>2. CASE k # 0
  <2>1. c + 1 \in Int /\ c + k \in Int /\ c + 1 <= c + k  BY <1>2
  <2>2. Cardinality((c + 1) .. (c + k)) = (c + k) - (c + 1) + 1
    BY <2>1, FS_Interval
  <2> QED  BY <2>2
<1> QED  BY <1>1, <1>2

LEMMA RowsFacts ==
  ASSUME NEW r \in Rows
  PROVE  DOMAIN r \in SUBSET Nat /\ r \in [DOMAIN r -> InvoiceRow]
  BY DEF Rows

LEMMA RowsIntro ==
  ASSUME NEW S \in SUBSET Nat, NEW r \in [S -> InvoiceRow]
  PROVE  r \in Rows
  BY DEF Rows

LEMMA EmptyRows == NoRows \in Rows /\ DOMAIN NoRows = {}
<1>1. NoRows \in [{} -> InvoiceRow]  BY DEF NoRows
<1>2. DOMAIN NoRows = {}  BY DEF NoRows
<1>3. {} \in SUBSET Nat  OBVIOUS
<1> QED  BY <1>1, <1>2, <1>3, RowsIntro

LEMMA EmptyDraft == NoDraft \in Draft /\ NoDraft.rows = NoRows
  BY EmptyRows DEF NoDraft, Draft

\* A session that commits nothing of the books.
LEMMA TypedOK == Typed => TypeOK
<1> SUFFICES ASSUME Typed PROVE TypeOK  OBVIOUS
<1>1. invoices \in [Numbers -> InvoiceRow] /\ Numbers \subseteq Nat
  BY RowsFacts DEF Typed, Numbers
<1>2. ASSUME NEW x \in Request
      PROVE  OwnNumbers(x) \subseteq Nat /\ draft[x].rows \in [OwnNumbers(x) -> InvoiceRow]
  <2>1. draft[x].rows \in Rows  BY DEF Typed, Draft
  <2> QED  BY <2>1, RowsFacts DEF OwnNumbers
<1> QED  BY <1>1, <1>2 DEF Typed, TypeOK, LeaseState, UnitState, Homes

LEMMA NumberingDense == Numbering => NumbersDense
<1> SUFFICES ASSUME Numbering PROVE NumbersDense  OBVIOUS
<1>1. PICK c \in Nat : NumberedTo(c)  BY DEF Numbering
<1>2. Cardinality(1 .. c) = c  BY IntervalSize
<1> QED  BY <1>1, <1>2 DEF NumberedTo, NumbersDense

LEMMA WholeRuns == Whole => RunIsWhole
  BY DEF Whole, WholeRun, RunIsWhole, OnBooks
----------------------------------------------------------------------------
(* What a step leaves of Numbering and Whole.                              *)

\* No invoice is inserted or committed; some drafts may be dropped.
LEMMA NumberingKept ==
  ASSUME Numbering, invoices' = invoices,
         \A y \in Request : draft'[y].rows = draft[y].rows \/ DOMAIN draft'[y].rows = {},
         \A y \in Request : at'[y] = "insert" =>
           at[y] = "insert" /\ number'[y] = number[y] /\ draft'[y].rows = draft[y].rows
  PROVE  Numbering'
<1>1. PICK c \in Nat : NumberedTo(c)  BY DEF Numbering
<1>2. Numbers' = 1 .. c  BY <1>1 DEF NumberedTo, Numbers
<1>3. ASSUME NEW y \in Request
      PROVE  \E k \in Nat : /\ OwnNumbers(y)' = (c + 1) .. (c + k)
                            /\ at'[y] = "insert" => number'[y] \in 1 .. (c + k + 1)
  <2>1. PICK k \in Nat : /\ OwnNumbers(y) = (c + 1) .. (c + k)
                         /\ at[y] = "insert" => number[y] \in 1 .. (c + k + 1)
    BY <1>1 DEF NumberedTo
  <2>2. CASE draft'[y].rows = draft[y].rows
    BY <2>1, <2>2 DEF OwnNumbers
  <2>3. CASE draft'[y].rows # draft[y].rows
    <3>1. OwnNumbers(y)' = {} /\ at'[y] # "insert"  BY <2>3 DEF OwnNumbers
    <3>2. (c + 1) .. (c + 0) = {}  OBVIOUS
    <3> QED  BY <3>1, <3>2
  <2> QED  BY <2>2, <2>3
<1>4. NumberedTo(c)'  BY <1>2, <1>3 DEF NumberedTo
<1>5. \A y \in Request : OwnNumbers(y)' # {} => OwnNumbers(y) # {}
  BY DEF OwnNumbers
<1>6. \A y, z \in Request : OwnNumbers(y)' # {} /\ OwnNumbers(z)' # {} => y = z
  BY <1>5 DEF Numbering
<1> QED  BY <1>4, <1>6 DEF Numbering

\* The rows of a commit come after those on the books.
LEMMA OwnAreNew ==
  ASSUME Numbering, NEW x \in Request
  PROVE  OwnNumbers(x) \cap Numbers = {}
<1>1. PICK c \in Nat : NumberedTo(c)  BY DEF Numbering
<1>2. PICK k \in Nat : OwnNumbers(x) = (c + 1) .. (c + k)  BY <1>1 DEF NumberedTo
<1> QED  BY <1>1, <1>2 DEF NumberedTo

LEMMA CommitBooks ==
  ASSUME Typed, Numbering, NEW x \in Request, CommitAll(x)
  PROVE  /\ Numbers' = Numbers \cup OwnNumbers(x)
         /\ \A n \in Numbers : invoices'[n] = invoices[n]
         /\ \A n \in OwnNumbers(x) : invoices'[n] = draft[x].rows[n]
         /\ OwnNumbers(x)' = {}
         /\ \A y \in Others(x) : draft'[y] = draft[y]
         /\ draft' \in [Request -> Draft]
<1>1. invoices' = [n \in Numbers \cup DOMAIN draft[x].rows |->
                    IF n \in Numbers THEN invoices[n] ELSE draft[x].rows[n]]
  BY DEF CommitAll
<1>2. draft' = [draft EXCEPT ![x] = NoDraft]  BY DEF CommitAll
<1>3. draft'[x].rows = NoRows /\ DOMAIN NoRows = {}  BY <1>2, EmptyDraft, EmptyRows DEF Typed
<1>4. draft' \in [Request -> Draft]  BY <1>2, EmptyDraft DEF Typed
<1>5. OwnNumbers(x)' = {}  BY <1>3 DEF OwnNumbers
<1> QED  BY <1>1, <1>2, <1>4, <1>5, OwnAreNew DEF Numbers, OwnNumbers, Others, Typed

LEMMA NumberingCommitted ==
  ASSUME Typed, Numbering, NEW x \in Request, CommitAll(x),
         \A y \in Request : at'[y] = "insert" => y # x /\ at[y] = "insert" /\ number'[y] = number[y]
  PROVE  Numbering'
<1>1. PICK c \in Nat : NumberedTo(c)  BY DEF Numbering
<1>2. PICK k \in Nat : OwnNumbers(x) = (c + 1) .. (c + k)  BY <1>1 DEF NumberedTo
<1>3. Numbers' = 1 .. (c + k)
  <2>1. Numbers' = (1 .. c) \cup ((c + 1) .. (c + k))  BY <1>1, <1>2, CommitBooks DEF NumberedTo
  <2> QED  BY <2>1
<1>4. ASSUME NEW y \in Request
      PROVE  \E j \in Nat : /\ OwnNumbers(y)' = (c + k + 1) .. (c + k + j)
                            /\ at'[y] = "insert" => number'[y] \in 1 .. (c + k + j + 1)
  <2>1. CASE y = x
    <3>1. OwnNumbers(y)' = {}  BY <2>1, CommitBooks
    <3>2. (c + k + 1) .. (c + k + 0) = {}  OBVIOUS
    <3> QED  BY <2>1, <3>1, <3>2
  <2>2. CASE y # x
    <3>1. PICK j \in Nat : /\ OwnNumbers(y) = (c + 1) .. (c + j)
                           /\ at[y] = "insert" => number[y] \in 1 .. (c + j + 1)
      BY <1>1 DEF NumberedTo
    <3>2. OwnNumbers(y)' = OwnNumbers(y)  BY <2>2, CommitBooks DEF Others, OwnNumbers
    <3>3. CASE k = 0
      BY <3>1, <3>2, <3>3, <2>2
    <3>4. CASE k # 0
      <4>1. OwnNumbers(x) # {}  BY <1>2, <3>4
      <4>2. OwnNumbers(y) = {}  BY <4>1, <2>2 DEF Numbering
      <4>3. j = 0  BY <3>1, <4>2
      <4>4. (c + k + 1) .. (c + k + 0) = {}  OBVIOUS
      <4>5. at'[y] = "insert" => number'[y] \in 1 .. (c + k + 0 + 1)  BY <3>1, <4>3
      <4> QED  BY <3>2, <4>2, <4>4, <4>5
    <3> QED  BY <3>3, <3>4
  <2> QED  BY <2>1, <2>2
<1>5. NumberedTo(c + k)'  BY <1>3, <1>4 DEF NumberedTo
<1>6. \A y \in Request : OwnNumbers(y)' # {} => OwnNumbers(y)' = OwnNumbers(y)
  BY CommitBooks DEF Others, OwnNumbers
<1>7. \A y, z \in Request : OwnNumbers(y)' # {} /\ OwnNumbers(z)' # {} => y = z
  BY <1>6 DEF Numbering
<1>8. c + k \in Nat  OBVIOUS
<1> QED  BY <1>5, <1>7, <1>8 DEF Numbering

\* What is on the books stays, what is added is x's, and x keeps its part.
LEMMA WholeKept ==
  ASSUME Whole, NEW x \in Request,
         \A n \in Numbers : n \in Numbers' /\ invoices'[n] = invoices[n],
         \A n \in Numbers' \ Numbers : invoices'[n].by = x,
         \A y \in Others(x) : /\ at'[y] = at[y] /\ todo'[y] = todo[y] /\ hand'[y] = hand[y]
                              /\ active'[y] = active[y] /\ draft'[y] = draft[y],
         \A n \in OwnNumbers(x)' : draft'[x].rows[n].by = x,
         Job[x].kind = "run" => WholeRun(x)'
  PROVE  Whole'
<1>1. ASSUME NEW y \in Request PROVE \A n \in OwnNumbers(y)' : draft'[y].rows[n].by = y
  BY DEF Whole, Others, OwnNumbers
<1>2. ASSUME NEW y \in Request, Job[y].kind = "run" PROVE WholeRun(y)'
  <2>1. CASE y = x  BY <1>2, <2>1
  <2>2. CASE y # x
    <3>1. WholeRun(y)  BY <1>2 DEF Whole
    <3>2. OnBooks(y)' = OnBooks(y)  BY <2>2 DEF OnBooks
    <3>3. \A l : Billed(l) => Billed(l)'  BY DEF Billed
    <3>4. \A l : InDraft(y, l)' = InDraft(y, l)  BY <2>2 DEF InDraft, OwnNumbers, Others
    <3>5. \A l : Accounted(y, l) => Accounted(y, l)'
      BY <2>2, <3>3, <3>4 DEF Accounted, Others
    <3>6. /\ at'[y] = at[y] /\ todo'[y] = todo[y] /\ active'[y] = active[y]
      BY <2>2 DEF Others
    <3> HIDE DEF Accounted, OnBooks, Billed
    <3> QED  BY <3>1, <3>2, <3>3, <3>5, <3>6 DEF WholeRun
  <2> QED  BY <2>1, <2>2
<1> QED  BY <1>1, <1>2 DEF Whole
----------------------------------------------------------------------------
(* Labels and types.                                                       *)

LEMMA KindsAt ==
  ASSUME Typed, NEW x \in Request
  PROVE  /\ at[x] \in {"tenant", "unit", "active", "writeUnit", "writeTenant", "writeLease", "commit"}
              => Job[x].kind \in {"let", "end"}
         /\ at[x] = "lease" => Job[x].kind \in {"end", "bill"}
         /\ at[x] = "active" => Job[x].kind = "let"
         /\ at[x] \in {"leases", "check"} => Job[x].kind = "run"
         /\ at[x] \in {"count", "insert", "mail", "dispatch"} => Job[x].kind \in {"run", "bill"}
<1>1. Job[x].kind \in Kind  BY DEF JobType
<1>2. at[x] \in Labels(Job[x].kind)  BY DEF Typed
<1> QED  BY <1>1, <1>2 DEF Kind, Labels, RunLabels, BillLabels, LetLabels, EndLabels

LEMMA JobFacts ==
  ASSUME NEW x \in Request
  PROVE  /\ Job[x].kind \in Kind /\ Job[x].lease \in Lease /\ Job[x].tenant \in Tenant
         /\ TenantOf(x) \in Tenant /\ UnitOf(x) \in Unit
  BY DEF JobType, TenantOf, UnitOf

LEMMA AtTyped ==
  ASSUME Typed, NEW x \in Request, NEW label \in Labels(Job[x].kind), Goto(x, label)
  PROVE  /\ at' \in [Request -> Label]
         /\ \A y \in Request : at'[y] \in Labels(Job[y].kind)
         /\ at'[x] = label /\ \A y \in Others(x) : at'[y] = at[y]
<1>1. label \in Label  BY JobFacts DEF Kind, Labels, Label
<1>2. at' = [at EXCEPT ![x] = label]  BY DEF Goto
<1> HIDE DEF Label, Labels
<1> QED  BY <1>1, <1>2 DEF Typed, Others

LEMMA ForgetTyped ==
  ASSUME Typed, NEW x \in Request, Forget(x)
  PROVE  /\ saw' \in [Request -> Seen] /\ todo' \in [Request -> SUBSET Lease]
         /\ hand' \in [Request -> Lease \cup {NoLease}] /\ number' \in [Request -> Nat]
         /\ \A y \in Others(x) :
              /\ saw'[y] = saw[y] /\ todo'[y] = todo[y] /\ hand'[y] = hand[y] /\ number'[y] = number[y]
<1>1. Unseen \in Seen  BY DEF Unseen, Seen, LeaseState, UnitState, Homes
<1> HIDE DEF Seen
<1> QED  BY <1>1 DEF Forget, Typed, Others

LEMMA CommitTyped ==
  ASSUME Typed, Numbering, NEW x \in Request, CommitAll(x)
  PROVE  /\ lease' \in [Lease -> LeaseState] /\ unit' \in [Unit -> UnitState]
         /\ home' \in [Tenant -> Homes] /\ invoices' \in Rows /\ told' \in SUBSET Nat
         /\ draft' \in [Request -> Draft]
<1>1. /\ draft[x].rows \in Rows /\ draft[x].lease \in LeaseState \cup {Same}
      /\ draft[x].unit \in UnitState \cup {Same} /\ draft[x].home \in Homes \cup {Same, Kept}
      /\ draft[x].told \in SUBSET Nat
  BY DEF Typed, Draft
<1>2. lease' \in [Lease -> LeaseState]
  BY <1>1, JobFacts DEF CommitAll, Typed, Written, LeaseState, Same, Kept
<1>3. unit' \in [Unit -> UnitState]
  BY <1>1, JobFacts DEF CommitAll, Typed, Written, UnitState, Same, Kept
<1>4. home' \in [Tenant -> Homes]
  <2> HIDE DEF Homes
  <2>1. home' = [home EXCEPT ![TenantOf(x)] = Written(@, draft[x].home)]  BY DEF CommitAll
  <2>2. Written(home[TenantOf(x)], draft[x].home) \in Homes
    BY <1>1, JobFacts DEF Written, Typed
  <2> QED  BY <2>1, <2>2, JobFacts DEF Typed
<1>5. invoices' \in Rows
  <2>1. /\ Numbers \in SUBSET Nat /\ invoices \in [Numbers -> InvoiceRow]
        /\ OwnNumbers(x) \in SUBSET Nat /\ draft[x].rows \in [OwnNumbers(x) -> InvoiceRow]
    BY <1>1, RowsFacts DEF Typed, Numbers, OwnNumbers
  <2>2. invoices' = [n \in Numbers \cup OwnNumbers(x) |->
                      IF n \in Numbers THEN invoices[n] ELSE draft[x].rows[n]]
    BY DEF CommitAll, OwnNumbers
  <2> HIDE DEF InvoiceRow
  <2>3. invoices' \in [Numbers \cup OwnNumbers(x) -> InvoiceRow]  BY <2>1, <2>2
  <2>4. Numbers \cup OwnNumbers(x) \in SUBSET Nat  BY <2>1
  <2> QED  BY <2>3, <2>4, RowsIntro
<1>6. told' \in SUBSET Nat  BY <1>1 DEF CommitAll, Typed
<1> QED  BY <1>2, <1>3, <1>4, <1>5, <1>6, CommitBooks

\* One column of what a request saw, or of a draft, is replaced.
LEMMA SeenColumns ==
  ASSUME NEW r \in Seen
  PROVE  /\ \A v \in Homes : [r EXCEPT !.home = v] \in Seen
         /\ \A v \in UnitState : [r EXCEPT !.unit = v] \in Seen
         /\ \A v \in LeaseState : [r EXCEPT !.lease = v] \in Seen
<1> HIDE DEF Homes, LeaseState, UnitState
<1>1. \A v \in Homes : [r EXCEPT !.home = v] \in Seen  BY DEF Seen
<1>2. \A v \in UnitState : [r EXCEPT !.unit = v] \in Seen  BY DEF Seen
<1>3. \A v \in LeaseState : [r EXCEPT !.lease = v] \in Seen  BY DEF Seen
<1> QED  BY <1>1, <1>2, <1>3

LEMMA DraftColumns ==
  ASSUME NEW d \in Draft
  PROVE  /\ \A v \in Rows : [d EXCEPT !.rows = v] \in Draft
         /\ \A v \in LeaseState : [d EXCEPT !.lease = v] \in Draft /\ [d EXCEPT !.lease = v].rows = d.rows
         /\ \A v \in UnitState : [d EXCEPT !.unit = v] \in Draft /\ [d EXCEPT !.unit = v].rows = d.rows
         /\ \A v \in Homes \cup {Same, Kept} : [d EXCEPT !.home = v] \in Draft /\ [d EXCEPT !.home = v].rows = d.rows
         /\ \A v \in SUBSET Nat : [d EXCEPT !.told = v] \in Draft /\ [d EXCEPT !.told = v].rows = d.rows
<1> HIDE DEF Homes, LeaseState, UnitState, Rows, Same, Kept
<1>1. \A v \in Rows : [d EXCEPT !.rows = v] \in Draft  BY DEF Draft
<1>2. \A v \in LeaseState : [d EXCEPT !.lease = v] \in Draft /\ [d EXCEPT !.lease = v].rows = d.rows
  BY DEF Draft
<1>3. \A v \in UnitState : [d EXCEPT !.unit = v] \in Draft /\ [d EXCEPT !.unit = v].rows = d.rows
  BY DEF Draft
<1>4. \A v \in Homes \cup {Same, Kept} : [d EXCEPT !.home = v] \in Draft /\ [d EXCEPT !.home = v].rows = d.rows
  BY DEF Draft
<1>5. \A v \in SUBSET Nat : [d EXCEPT !.told = v] \in Draft /\ [d EXCEPT !.told = v].rows = d.rows
  BY DEF Draft
<1> QED  BY <1>1, <1>2, <1>3, <1>4, <1>5

\* What x saw is replaced.
LEMMA SeenTyped ==
  ASSUME Typed, NEW x \in Request, NEW s \in Seen, saw' = [saw EXCEPT ![x] = s]
  PROVE  saw' \in [Request -> Seen]
<1> HIDE DEF Seen
<1> QED  BY DEF Typed

\* One column of a draft is written.
LEMMA DraftTyped ==
  ASSUME Typed, NEW x \in Request, NEW d \in Draft, draft' = [draft EXCEPT ![x] = d]
  PROVE  /\ draft' \in [Request -> Draft]
         /\ draft'[x] = d /\ \A y \in Others(x) : draft'[y] = draft[y]
<1> HIDE DEF Draft
<1> QED  BY DEF Typed, Others

----------------------------------------------------------------------------
(* create_lease, terminate_lease, and the first statement of a bill.       *)

\* A statement of a request that is no run and inserts nothing.
LEMMA QuietStep ==
  ASSUME IInv, NEW x \in Request, Job[x].kind # "run",
         NEW label \in Labels(Job[x].kind), label # "insert", Goto(x, label),
         invoices' = invoices, active' = active, todo' = todo, number' = number,
         \A y \in Others(x) : hand'[y] = hand[y] /\ draft'[y] = draft[y],
         draft'[x].rows = draft[x].rows
  PROVE  Numbering' /\ Whole'
<1>1. at'[x] = label /\ \A y \in Others(x) : at'[y] = at[y]  BY AtTyped DEF IInv
<1>2. \A y \in Request : draft'[y].rows = draft[y].rows  BY DEF Others
<1>3. \A y \in Request : at'[y] = "insert" => at[y] = "insert"  BY <1>1 DEF Others
<1>4. Numbering'  BY <1>2, <1>3, NumberingKept DEF IInv
<1>5. \A n \in OwnNumbers(x)' : draft'[x].rows[n].by = x  BY DEF IInv, Whole, OwnNumbers
<1>6. Whole'
  BY <1>1, <1>5, WholeKept DEF IInv, Numbers
<1> QED  BY <1>4, <1>6

LEMMA ReadTenantStep == ASSUME IInv, NEW x \in Request, ReadTenant(x) PROVE IInv'
<1> DEFINE label == IF Job[x].kind = "let" THEN "unit" ELSE "writeUnit"
<1>1. Job[x].kind \in {"let", "end"}  BY KindsAt DEF IInv, ReadTenant
<1>2. label \in Labels(Job[x].kind) /\ label # "insert"  BY <1>1 DEF Labels, LetLabels, EndLabels
<1>3. Goto(x, label)  BY DEF ReadTenant
<1>4. home[TenantOf(x)] \in Homes  BY JobFacts DEF IInv, Typed
<1>5. saw' \in [Request -> Seen]
  <2> DEFINE s == [saw[x] EXCEPT !.home = home[TenantOf(x)]]
  <2>1. s \in Seen
    <3> HIDE DEF Homes, LeaseState, UnitState, Seen
    <3>1. saw[x] \in Seen  BY DEF IInv, Typed
    <3> QED  BY <1>4, <3>1, SeenColumns
  <2>2. saw' = [saw EXCEPT ![x] = s]  BY DEF ReadTenant
  <2> HIDE DEF s
  <2> QED  BY <2>1, <2>2, SeenTyped DEF IInv
<1>6. Typed'
  <2> HIDE DEF label, Goto
  <2> QED  BY <1>1, <1>2, <1>3, <1>5, AtTyped DEF IInv, Typed, ReadTenant, committed, Others
<1>7. Numbering' /\ Whole'
  <2> HIDE DEF label, Goto
  <2> QED  BY <1>1, <1>2, <1>3, QuietStep DEF ReadTenant, committed
<1> QED  BY <1>6, <1>7 DEF IInv

LEMMA ReadUnitStep == ASSUME IInv, NEW x \in Request, ReadUnit(x) PROVE IInv'
<1> DEFINE label == IF Job[x].kind = "end" THEN "tenant"
                    ELSE IF unit[UnitOf(x)] = "OCCUPIED" THEN "refused" ELSE "active"
<1>1. Job[x].kind \in {"let", "end"}  BY KindsAt DEF IInv, ReadUnit
<1>2. label \in Labels(Job[x].kind) /\ label # "insert"  BY <1>1 DEF Labels, LetLabels, EndLabels
<1>3. Goto(x, label)  BY DEF ReadUnit
<1>4. unit[UnitOf(x)] \in UnitState  BY JobFacts DEF IInv, Typed
<1>5. saw' \in [Request -> Seen]
  <2> DEFINE s == [saw[x] EXCEPT !.unit = unit[UnitOf(x)]]
  <2>1. s \in Seen
    <3> HIDE DEF Homes, LeaseState, UnitState, Seen
    <3>1. saw[x] \in Seen  BY DEF IInv, Typed
    <3> QED  BY <1>4, <3>1, SeenColumns
  <2>2. saw' = [saw EXCEPT ![x] = s]  BY DEF ReadUnit
  <2> HIDE DEF s
  <2> QED  BY <2>1, <2>2, SeenTyped DEF IInv
<1>6. Typed'
  <2> HIDE DEF label, Goto
  <2> QED  BY <1>1, <1>2, <1>3, <1>5, AtTyped DEF IInv, Typed, ReadUnit, committed, Others
<1>7. Numbering' /\ Whole'
  <2> HIDE DEF label, Goto
  <2> QED  BY <1>1, <1>2, <1>3, QuietStep DEF ReadUnit, committed
<1> QED  BY <1>6, <1>7 DEF IInv

LEMMA CheckActiveStep == ASSUME IInv, NEW x \in Request, CheckActive(x) PROVE IInv'
<1> DEFINE label == IF \E l \in ActiveLeases : LeaseTenant[l] = TenantOf(x) THEN "refused" ELSE "writeUnit"
<1>1. Job[x].kind \in {"let", "end"}  BY KindsAt DEF IInv, CheckActive
<1>2. label \in Labels(Job[x].kind) /\ label # "insert"  BY <1>1 DEF Labels, LetLabels, EndLabels
<1>3. Goto(x, label)  BY DEF CheckActive
<1>6. Typed'
  <2> HIDE DEF label, Goto
  <2> QED  BY <1>1, <1>2, <1>3, AtTyped DEF IInv, Typed, CheckActive, committed, Others
<1>7. Numbering' /\ Whole'
  <2> HIDE DEF label, Goto
  <2> QED  BY <1>1, <1>2, <1>3, QuietStep DEF CheckActive, committed
<1> QED  BY <1>6, <1>7 DEF IInv

LEMMA ReadLeaseStep == ASSUME IInv, NEW x \in Request, ReadLease(x) PROVE IInv'
<1>1. Job[x].kind \in {"end", "bill"}  BY KindsAt DEF IInv, ReadLease
<1>2. CASE Job[x].kind = "end"
  <2> DEFINE label == IF lease[Job[x].lease] = "NONE" THEN "refused" ELSE "unit"
  <2>1. label \in Labels(Job[x].kind) /\ label # "insert"  BY <1>2 DEF Labels, LetLabels, EndLabels
  <2>2. Goto(x, label) /\ hand' = hand  BY <1>2 DEF ReadLease
  <2>3. lease[Job[x].lease] \in LeaseState  BY JobFacts DEF IInv, Typed
  <2>4. saw' \in [Request -> Seen]
    <3> DEFINE s == [saw[x] EXCEPT !.lease = lease[Job[x].lease]]
    <3>1. s \in Seen
      <4> HIDE DEF Homes, LeaseState, UnitState, Seen
      <4>1. saw[x] \in Seen  BY DEF IInv, Typed
      <4> QED  BY <2>3, <4>1, SeenColumns
    <3>2. saw' = [saw EXCEPT ![x] = s]  BY <1>2 DEF ReadLease
    <3> HIDE DEF s
    <3> QED  BY <3>1, <3>2, SeenTyped DEF IInv
  <2>5. Typed'
    <3> HIDE DEF label, Goto
    <3> QED  BY <1>2, <2>1, <2>2, <2>4, AtTyped DEF IInv, Typed, ReadLease, committed, Others
  <2>6. Numbering' /\ Whole'
    <3> HIDE DEF label, Goto
    <3> QED  BY <1>2, <2>1, <2>2, QuietStep DEF ReadLease, committed
  <2> QED  BY <2>5, <2>6 DEF IInv
<1>3. CASE Job[x].kind # "end"
  <2>1. Goto(x, "count") /\ saw' = saw  BY <1>3 DEF ReadLease
  <2>2. PICK l \in Lease \cup {NoLease} : hand' = [hand EXCEPT ![x] = l]
    BY <1>3 DEF ReadLease, ActiveLeases
  <2>3. Job[x].kind = "bill"  BY <1>1, <1>3
  <2>4. "count" \in Labels(Job[x].kind)  BY <2>3 DEF Labels, BillLabels
  <2>5. hand' \in [Request -> Lease \cup {NoLease}] /\ \A y \in Others(x) : hand'[y] = hand[y]
    BY <2>2 DEF IInv, Typed, Others
  <2>6. Typed'
    <3> HIDE DEF Goto
    <3> QED  BY <2>1, <2>3, <2>4, <2>5, AtTyped DEF IInv, Typed, ReadLease, committed, Others
  <2>7. Numbering' /\ Whole'
    <3> HIDE DEF Goto
    <3> QED  BY <2>1, <2>3, <2>4, <2>5, QuietStep DEF ReadLease, committed
  <2> QED  BY <2>6, <2>7 DEF IInv
<1> QED  BY <1>2, <1>3

----------------------------------------------------------------------------
(* The flush and the commit of a lease.                                    *)

LEMMA WriteStep ==
  ASSUME IInv, NEW x \in Request, Job[x].kind # "run",
         NEW label \in Labels(Job[x].kind), label # "insert", Goto(x, label),
         NEW d \in Draft, d.rows = draft[x].rows, draft' = [draft EXCEPT ![x] = d],
         UNCHANGED <<committed, mails, saw, active, todo, hand, number>>
  PROVE  IInv'
<1>1. /\ draft' \in [Request -> Draft]
      /\ draft'[x] = d /\ \A y \in Others(x) : draft'[y] = draft[y]
  BY DraftTyped DEF IInv
<1>2. Typed'
  <2> HIDE DEF Goto
  <2> QED  BY <1>1, AtTyped DEF IInv, Typed, committed, Others
<1>3. Numbering' /\ Whole'
  <2> HIDE DEF Goto
  <2> QED  BY <1>1, QuietStep DEF committed
<1> QED  BY <1>2, <1>3 DEF IInv

LEMMA UnchangedDraft == ASSUME Typed, NEW x \in Request PROVE draft = [draft EXCEPT ![x] = draft[x]]
<1> HIDE DEF Draft
<1> QED  BY DEF Typed

LEMMA WriteUnitStep == ASSUME IInv, NEW x \in Request, WriteUnit(x) PROVE IInv'
<1>1. Job[x].kind \in {"let", "end"}  BY KindsAt DEF IInv, WriteUnit
<1>2. "writeTenant" \in Labels(Job[x].kind)  BY <1>1 DEF Labels, LetLabels, EndLabels
<1>3. Goto(x, "writeTenant") /\ UNCHANGED <<committed, mails, saw, active, todo, hand, number>>
  BY DEF WriteUnit
<1>4. draft[x] \in Draft  BY DEF IInv, Typed
<1>5. CASE draft' = draft
  <2>1. draft' = [draft EXCEPT ![x] = draft[x]]  BY <1>5, UnchangedDraft DEF IInv
  <2> HIDE DEF Draft, Goto
  <2> QED  BY <1>1, <1>2, <1>3, <1>4, <2>1, WriteStep
<1>6. CASE draft' # draft
  <2> DEFINE d == [draft[x] EXCEPT !.unit = NewUnit(x)]
  <2>1. draft' = [draft EXCEPT ![x] = d]  BY <1>6 DEF WriteUnit
  <2>2. NewUnit(x) \in UnitState  BY DEF NewUnit, UnitState
  <2>3. d \in Draft /\ d.rows = draft[x].rows
    <3> HIDE DEF Draft, UnitState
    <3> QED  BY <1>4, <2>2, DraftColumns
  <2> HIDE DEF d, Draft, Goto
  <2> QED  BY <1>1, <1>2, <1>3, <2>1, <2>3, WriteStep
<1> QED  BY <1>5, <1>6

LEMMA WriteTenantStep == ASSUME IInv, NEW x \in Request, WriteTenant(x) PROVE IInv'
<1> DEFINE column == IF saw[x].home # NewHome(x) THEN NewHome(x)
                     ELSE IF Job[x].kind = "let" THEN Kept ELSE Same
           d == [draft[x] EXCEPT !.home = column]
<1>1. Job[x].kind \in {"let", "end"}  BY KindsAt DEF IInv, WriteTenant
<1>2. "writeLease" \in Labels(Job[x].kind)  BY <1>1 DEF Labels, LetLabels, EndLabels
<1>3. Goto(x, "writeLease") /\ UNCHANGED <<committed, mails, saw, active, todo, hand, number>>
  BY DEF WriteTenant
<1>4. draft[x] \in Draft  BY DEF IInv, Typed
<1>5. draft' = [draft EXCEPT ![x] = d]  BY DEF WriteTenant
<1>6. column \in Homes \cup {Same, Kept}  BY JobFacts DEF NewHome, Homes
<1>7. d \in Draft /\ d.rows = draft[x].rows
  <2> HIDE DEF column, Draft, Homes
  <2> QED  BY <1>4, <1>6, DraftColumns
<1> HIDE DEF d, Draft, Goto
<1> QED  BY <1>1, <1>2, <1>3, <1>5, <1>7, WriteStep

LEMMA WriteLeaseStep == ASSUME IInv, NEW x \in Request, WriteLease(x) PROVE IInv'
<1>1. Job[x].kind \in {"let", "end"}  BY KindsAt DEF IInv, WriteLease
<1>2. "commit" \in Labels(Job[x].kind)  BY <1>1 DEF Labels, LetLabels, EndLabels
<1>3. Goto(x, "commit") /\ UNCHANGED <<committed, mails, saw, active, todo, hand, number>>
  BY DEF WriteLease
<1>4. draft[x] \in Draft  BY DEF IInv, Typed
<1>5. CASE draft' = draft
  <2>1. draft' = [draft EXCEPT ![x] = draft[x]]  BY <1>5, UnchangedDraft DEF IInv
  <2> HIDE DEF Draft, Goto
  <2> QED  BY <1>1, <1>2, <1>3, <1>4, <2>1, WriteStep
<1>6. CASE draft' # draft
  <2> DEFINE status == IF Job[x].kind = "let" THEN "ACTIVE" ELSE "TERMINATED"
             d == [draft[x] EXCEPT !.lease = status]
  <2>1. draft' = [draft EXCEPT ![x] = d]  BY <1>6 DEF WriteLease
  <2>2. status \in LeaseState  BY DEF LeaseState
  <2>3. d \in Draft /\ d.rows = draft[x].rows
    <3> HIDE DEF status, Draft, LeaseState
    <3> QED  BY <1>4, <2>2, DraftColumns
  <2> HIDE DEF d, Draft, Goto
  <2> QED  BY <1>1, <1>2, <1>3, <2>1, <2>3, WriteStep
<1> QED  BY <1>5, <1>6

\* A commit: x's invoices are on the books.
LEMMA CommitWhole ==
  ASSUME IInv, NEW x \in Request, CommitAll(x),
         \A y \in Others(x) : /\ at'[y] = at[y] /\ todo'[y] = todo[y] /\ hand'[y] = hand[y]
                              /\ active'[y] = active[y],
         Job[x].kind = "run" => WholeRun(x)'
  PROVE  Whole'
<1>1. /\ Numbers' = Numbers \cup OwnNumbers(x)
      /\ \A n \in Numbers : invoices'[n] = invoices[n]
      /\ \A n \in OwnNumbers(x) : invoices'[n] = draft[x].rows[n]
      /\ OwnNumbers(x)' = {}
      /\ \A y \in Others(x) : draft'[y] = draft[y]
  BY CommitBooks DEF IInv
<1>2. \A n \in Numbers' \ Numbers : invoices'[n].by = x  BY <1>1 DEF IInv, Whole
<1>3. \A n \in Numbers : n \in Numbers' /\ invoices'[n] = invoices[n]  BY <1>1
<1>4. \A n \in OwnNumbers(x)' : draft'[x].rows[n].by = x  BY <1>1
<1>5. Whole  BY DEF IInv
<1> HIDE DEF WholeRun, Others, CommitAll
<1> QED  BY <1>1, <1>2, <1>3, <1>4, <1>5, WholeKept

LEMMA CommitStep == ASSUME IInv, NEW x \in Request, Commit(x) PROVE IInv'
<1>1. Job[x].kind \in {"let", "end"}  BY KindsAt DEF IInv, Commit
<1>2. "done" \in Labels(Job[x].kind)  BY <1>1 DEF Labels, LetLabels, EndLabels
<1>3. CommitAll(x) /\ Goto(x, "done") /\ Forget(x) /\ active' = active  BY DEF Commit
<1>4. /\ at' \in [Request -> Label] /\ \A y \in Request : at'[y] \in Labels(Job[y].kind)
      /\ at'[x] = "done" /\ \A y \in Others(x) : at'[y] = at[y]
  <2> HIDE DEF Goto
  <2> QED  BY <1>2, <1>3, AtTyped DEF IInv
<1>5. Typed'
  <2> HIDE DEF Goto, CommitAll, Forget
  <2> QED  BY <1>1, <1>3, <1>4, ForgetTyped, CommitTyped DEF IInv, Typed, Others
<1>6. Numbering'
  <2>1. \A y \in Request : at'[y] = "insert" => y # x /\ at[y] = "insert" /\ number'[y] = number[y]
    BY <1>3, <1>4, ForgetTyped DEF IInv, Others
  <2> HIDE DEF CommitAll
  <2> QED  BY <1>3, <2>1, NumberingCommitted DEF IInv
<1>7. Whole'
  <2> HIDE DEF CommitAll, Forget
  <2> QED  BY <1>1, <1>3, <1>4, ForgetTyped, CommitWhole DEF IInv
<1> QED  BY <1>5, <1>6, <1>7 DEF IInv

----------------------------------------------------------------------------
(* The monthly run and create_invoice.                                     *)

LEMMA ReadLeasesStep == ASSUME IInv, NEW x \in Request, ReadLeases(x) PROVE IInv'
<1>1. Job[x].kind = "run" /\ at[x] = "leases"  BY KindsAt DEF IInv, ReadLeases
<1>2. "check" \in Labels(Job[x].kind)  BY <1>1 DEF Labels, RunLabels
<1>3. Goto(x, "check") /\ UNCHANGED <<committed, mails, saw, hand, number, draft>>
  BY DEF ReadLeases
<1>4. /\ at' \in [Request -> Label] /\ \A y \in Request : at'[y] \in Labels(Job[y].kind)
      /\ at'[x] = "check" /\ \A y \in Others(x) : at'[y] = at[y]
  <2> HIDE DEF Goto
  <2> QED  BY <1>2, <1>3, AtTyped DEF IInv
<1>5. /\ active' \in [Request -> SUBSET Lease] /\ todo' \in [Request -> SUBSET Lease]
      /\ active'[x] = todo'[x]
      /\ \A y \in Others(x) : active'[y] = active[y] /\ todo'[y] = todo[y]
  <2>1. ActiveLeases \in SUBSET Lease  BY DEF ActiveLeases
  <2> HIDE DEF ActiveLeases
  <2> QED  BY <2>1 DEF ReadLeases, IInv, Typed, Others
<1>6. Typed'
  <2> HIDE DEF Goto
  <2> QED  BY <1>1, <1>3, <1>4, <1>5 DEF IInv, Typed, committed, Others
<1>7. Numbering'
  <2>1. \A y \in Request : at'[y] = "insert" => at[y] = "insert"  BY <1>4 DEF Others
  <2> QED  BY <1>3, <2>1, NumberingKept DEF IInv, committed
<1>8. Whole'
  <2>1. ~OnBooks(x)  BY <1>1 DEF IInv, Whole, WholeRun
  <2>2. OnBooks(x)' = OnBooks(x)  BY <1>3 DEF OnBooks, Numbers, committed
  <2>3. \A l \in active'[x] : Accounted(x, l)'  BY <1>5 DEF Accounted
  <2>4. WholeRun(x)'
    <3> HIDE DEF OnBooks, Accounted, Billed
    <3> QED  BY <1>4, <2>1, <2>2, <2>3 DEF WholeRun
  <2>5. \A n \in OwnNumbers(x)' : draft'[x].rows[n].by = x
    BY <1>3 DEF IInv, Whole, OwnNumbers
  <2>6. /\ \A n \in Numbers : n \in Numbers' /\ invoices'[n] = invoices[n]
        /\ \A n \in Numbers' \ Numbers : invoices'[n].by = x
    BY <1>3 DEF Numbers, committed
  <2> HIDE DEF WholeRun
  <2> QED  BY <1>3, <1>4, <1>5, <2>4, <2>5, <2>6, WholeKept DEF IInv
<1> QED  BY <1>6, <1>7, <1>8 DEF IInv

LEMMA CheckBilledStep == ASSUME IInv, NEW x \in Request, CheckBilled(x) PROVE IInv'
<1>1. Job[x].kind = "run" /\ at[x] = "check"  BY KindsAt DEF IInv, CheckBilled
<1>2. UNCHANGED <<committed, mails, saw, active, number, draft>>  BY DEF CheckBilled
<1>3. PICK label \in {"mail", "check", "count"} :
        /\ Goto(x, label)
        /\ \/ label = "mail" /\ todo[x] = {} /\ UNCHANGED <<todo, hand>>
           \/ \E l \in todo[x] :
                /\ todo' = [todo EXCEPT ![x] = todo[x] \ {l}]
                /\ \/ label = "check" /\ Billed(l) /\ hand' = hand
                   \/ label = "count" /\ hand' = [hand EXCEPT ![x] = l]
  <2>1. CASE todo[x] = {}  BY <2>1 DEF CheckBilled
  <2>2. CASE todo[x] # {}
    <3>1. PICK l \in todo[x] :
            /\ todo' = [todo EXCEPT ![x] = todo[x] \ {l}]
            /\ IF Billed(l) THEN UNCHANGED <<at, hand>>
               ELSE hand' = [hand EXCEPT ![x] = l] /\ Goto(x, "count")
      BY <2>2 DEF CheckBilled
    <3>2. CASE Billed(l)
      <4>1. at = [at EXCEPT ![x] = "check"]
        <5> HIDE DEF Label
        <5> QED  BY <1>1 DEF IInv, Typed
      <4>2. Goto(x, "check")  BY <3>1, <3>2, <4>1 DEF Goto
      <4> HIDE DEF Goto, Billed
      <4> QED  BY <3>1, <3>2, <4>2
    <3>3. CASE ~Billed(l)
      <4> HIDE DEF Goto, Billed
      <4> QED  BY <3>1, <3>3
    <3> QED  BY <3>2, <3>3
  <2> QED  BY <2>1, <2>2
<1>4. label \in Labels(Job[x].kind)  BY <1>1 DEF Labels, RunLabels
<1>5. /\ at' \in [Request -> Label] /\ \A y \in Request : at'[y] \in Labels(Job[y].kind)
      /\ at'[x] = label /\ \A y \in Others(x) : at'[y] = at[y]
  <2> HIDE DEF Goto
  <2> QED  BY <1>3, <1>4, AtTyped DEF IInv
<1>6. /\ todo' \in [Request -> SUBSET Lease] /\ hand' \in [Request -> Lease \cup {NoLease}]
      /\ \A y \in Others(x) : todo'[y] = todo[y] /\ hand'[y] = hand[y]
      /\ label = "count" => hand'[x] \in Lease
  BY <1>3 DEF IInv, Typed, Others
<1>7. Typed'
  <2> HIDE DEF Goto, Label, Labels
  <2> QED  BY <1>1, <1>2, <1>3, <1>5, <1>6 DEF IInv, Typed, committed, Others
<1>8. Numbering'
  <2>1. \A y \in Request : at'[y] = "insert" => at[y] = "insert"  BY <1>3, <1>5 DEF Others
  <2> QED  BY <1>2, <2>1, NumberingKept DEF IInv, committed
<1>9. Whole'
  <2>1. WholeRun(x) /\ ~OnBooks(x)  BY <1>1 DEF IInv, Whole, WholeRun
  <2>2. OnBooks(x)' = OnBooks(x)  BY <1>2 DEF OnBooks, Numbers, committed
  <2>3. \A l \in active[x] : Accounted(x, l)  BY <1>1, <2>1 DEF WholeRun
  <2>4. \A l : (Billed(l)' <=> Billed(l)) /\ (InDraft(x, l)' <=> InDraft(x, l))
    BY <1>2 DEF Billed, InDraft, OwnNumbers, Numbers, committed
  <2>5. \A l \in active[x] : l \in todo[x] \/ Billed(l) \/ InDraft(x, l)
    BY <1>1, <2>3 DEF Accounted
  <2>6. \A l \in active[x] : l \in todo'[x] \/ Billed(l) \/ InDraft(x, l) \/ (label = "count" /\ l = hand'[x])
    <3> HIDE DEF Billed, InDraft
    <3> QED  BY <1>3, <2>5 DEF IInv, Typed
  <2>7. \A l \in active'[x] : Accounted(x, l)'
    <3> HIDE DEF Billed, InDraft
    <3> QED  BY <1>2, <1>5, <2>4, <2>6 DEF Accounted
  <2>8. label = "mail" => todo'[x] = {}  BY <1>3
  <2>9. WholeRun(x)'
    <3> HIDE DEF OnBooks, Accounted, Billed
    <3> QED  BY <1>3, <1>5, <2>1, <2>2, <2>7, <2>8 DEF WholeRun
  <2>10. \A n \in OwnNumbers(x)' : draft'[x].rows[n].by = x
    BY <1>2 DEF IInv, Whole, OwnNumbers
  <2>11. /\ \A n \in Numbers : n \in Numbers' /\ invoices'[n] = invoices[n]
         /\ \A n \in Numbers' \ Numbers : invoices'[n].by = x
    BY <1>2 DEF Numbers, committed
  <2> HIDE DEF WholeRun
  <2> QED  BY <1>2, <1>5, <1>6, <2>9, <2>10, <2>11, WholeKept DEF IInv
<1> QED  BY <1>7, <1>8, <1>9 DEF IInv

\* A statement of a run that changes nothing of it but its label: what WholeRun
\* says of it.
LEMMA RunOn ==
  ASSUME IInv, NEW x \in Request, Job[x].kind = "run",
         invoices' = invoices, active'[x] = active[x], todo'[x] = todo[x], hand'[x] = hand[x],
         draft'[x].rows = draft[x].rows,
         \/ at[x] = "count" /\ at'[x] = "insert"
         \/ at[x] = "mail" /\ at'[x] = "dispatch"
  PROVE  WholeRun(x)'
<1>1. WholeRun(x)  BY DEF IInv, Whole
<1>2. OnBooks(x)' = OnBooks(x)  BY DEF OnBooks, Numbers
<1>3. \A l : (Billed(l)' <=> Billed(l)) /\ (InDraft(x, l)' <=> InDraft(x, l))
  BY DEF Billed, InDraft, OwnNumbers, Numbers
<1>4. \A l : Accounted(x, l) => Accounted(x, l)'
  <2> HIDE DEF Billed, InDraft
  <2> QED  BY <1>3 DEF Accounted
<1> HIDE DEF OnBooks, Accounted, Billed
<1> QED  BY <1>1, <1>2, <1>3, <1>4 DEF WholeRun

LEMMA CountInvoicesStep == ASSUME IInv, NEW x \in Request, CountInvoices(x) PROVE IInv'
<1>1. Job[x].kind \in {"run", "bill"} /\ at[x] = "count"  BY KindsAt DEF IInv, CountInvoices
<1>2. "insert" \in Labels(Job[x].kind)  BY <1>1 DEF Labels, RunLabels, BillLabels
<1>3. Goto(x, "insert") /\ UNCHANGED <<committed, mails, saw, active, todo, hand, draft>>
  BY DEF CountInvoices
<1>4. /\ at' \in [Request -> Label] /\ \A y \in Request : at'[y] \in Labels(Job[y].kind)
      /\ at'[x] = "insert" /\ \A y \in Others(x) : at'[y] = at[y]
  <2> HIDE DEF Goto
  <2> QED  BY <1>2, <1>3, AtTyped DEF IInv
<1>5. PICK c \in Nat : NumberedTo(c)  BY DEF IInv, Numbering
<1>6. PICK k \in Nat : OwnNumbers(x) = (c + 1) .. (c + k)  BY <1>5 DEF NumberedTo
<1>7. NextNumber(x) = c + k + 1
  <2>1. Cardinality(Numbers) = c  BY <1>5, IntervalSize DEF NumberedTo
  <2>2. Cardinality(OwnNumbers(x)) = k  BY <1>6, OwnSize
  <2> QED  BY <2>1, <2>2 DEF NextNumber
<1>8. number' = [number EXCEPT ![x] = c + k + 1]  BY <1>7 DEF CountInvoices
<1>9. Typed'
  <2> HIDE DEF Goto, Label, Labels
  <2> QED  BY <1>1, <1>3, <1>4, <1>8 DEF IInv, Typed, committed, Others
<1>10. Numbering'
  <2>1. Numbers' = 1 .. c  BY <1>3, <1>5 DEF NumberedTo, Numbers, committed
  <2>2. \A y \in Request : OwnNumbers(y)' = OwnNumbers(y)  BY <1>3 DEF OwnNumbers
  <2>3. ASSUME NEW y \in Request
        PROVE  \E j \in Nat : /\ OwnNumbers(y)' = (c + 1) .. (c + j)
                              /\ at'[y] = "insert" => number'[y] \in 1 .. (c + j + 1)
    <3>1. CASE y = x
      <4>1. number'[x] = c + k + 1  BY <1>8 DEF IInv, Typed
      <4> QED  BY <1>6, <2>2, <3>1, <4>1
    <3>2. CASE y # x
      <4>1. at'[y] = at[y] /\ number'[y] = number[y]
        BY <1>4, <1>8, <3>2 DEF IInv, Typed, Others
      <4> QED  BY <1>5, <2>2, <4>1 DEF NumberedTo
    <3> QED  BY <3>1, <3>2
  <2>4. NumberedTo(c)'  BY <2>1, <2>3 DEF NumberedTo
  <2> QED  BY <2>2, <2>4 DEF IInv, Numbering
<1>11. Whole'
  <2>1. Job[x].kind = "run" => WholeRun(x)'
    <3> HIDE DEF Goto
    <3> QED  BY <1>1, <1>3, <1>4, RunOn DEF committed
  <2>2. \A n \in OwnNumbers(x)' : draft'[x].rows[n].by = x
    BY <1>3 DEF IInv, Whole, OwnNumbers
  <2>3. /\ \A n \in Numbers : n \in Numbers' /\ invoices'[n] = invoices[n]
        /\ \A n \in Numbers' \ Numbers : invoices'[n].by = x
    BY <1>3 DEF Numbers, committed
  <2> HIDE DEF WholeRun
  <2> QED  BY <1>3, <1>4, <2>1, <2>2, <2>3, WholeKept DEF IInv
<1> QED  BY <1>9, <1>10, <1>11 DEF IInv

\* A request that fails or dies leaves the books, and its draft is gone.
LEMMA RollbackStep ==
  ASSUME IInv, NEW x \in Request, NEW label \in {"failed", "crashed"},
         label \in Labels(Job[x].kind), Rollback(x, label), UNCHANGED <<committed, mails, active>>
  PROVE  IInv'
<1>1. Goto(x, label) /\ Forget(x) /\ draft' = [draft EXCEPT ![x] = NoDraft]  BY DEF Rollback
<1>2. /\ at' \in [Request -> Label] /\ \A y \in Request : at'[y] \in Labels(Job[y].kind)
      /\ at'[x] = label /\ \A y \in Others(x) : at'[y] = at[y]
  <2> HIDE DEF Goto
  <2> QED  BY <1>1, AtTyped DEF IInv
<1>3. /\ draft' \in [Request -> Draft] /\ draft'[x] = NoDraft
      /\ \A y \in Others(x) : draft'[y] = draft[y]
  BY <1>1, EmptyDraft, DraftTyped DEF IInv
<1>4. DOMAIN draft'[x].rows = {}  BY <1>3, EmptyDraft, EmptyRows
<1>5. Typed'
  <2> HIDE DEF Goto, Forget, Label, Labels
  <2> QED  BY <1>1, <1>2, <1>3, ForgetTyped DEF IInv, Typed, committed, Others
<1>6. Numbering'
  <2>1. \A y \in Request : draft'[y].rows = draft[y].rows \/ DOMAIN draft'[y].rows = {}
    BY <1>3, <1>4 DEF Others
  <2>2. \A y \in Request : at'[y] = "insert" =>
          at[y] = "insert" /\ number'[y] = number[y] /\ draft'[y].rows = draft[y].rows
    <3> HIDE DEF Forget
    <3> QED  BY <1>1, <1>2, <1>3, ForgetTyped DEF IInv, Others
  <2> QED  BY <2>1, <2>2, NumberingKept DEF IInv, committed
<1>7. Whole'
  <2>1. Job[x].kind = "run" => WholeRun(x)'
    <3>1. SUFFICES ASSUME Job[x].kind = "run" PROVE WholeRun(x)'  OBVIOUS
    <3>2. WholeRun(x)  BY <3>1 DEF IInv, Whole
    <3>3. OnBooks(x)' = OnBooks(x)  BY DEF OnBooks, Numbers, committed
    <3>4. \A l : Billed(l)' <=> Billed(l)  BY DEF Billed, Numbers, committed
    <3> HIDE DEF OnBooks, Accounted, Billed
    <3> QED  BY <1>2, <3>2, <3>3, <3>4 DEF WholeRun
  <2>2. \A n \in OwnNumbers(x)' : draft'[x].rows[n].by = x  BY <1>4 DEF OwnNumbers
  <2>3. /\ \A n \in Numbers : n \in Numbers' /\ invoices'[n] = invoices[n]
        /\ \A n \in Numbers' \ Numbers : invoices'[n].by = x
    BY DEF Numbers, committed
  <2> HIDE DEF WholeRun, Forget
  <2> QED  BY <1>1, <1>2, <1>3, <2>1, <2>2, <2>3, ForgetTyped, WholeKept DEF IInv
<1> QED  BY <1>5, <1>6, <1>7 DEF IInv

LEMMA CrashStep == ASSUME IInv, NEW x \in Request, Crash(x) PROVE IInv'
<1>1. "crashed" \in Labels(Job[x].kind)
  BY JobFacts DEF Kind, Labels, RunLabels, BillLabels, LetLabels, EndLabels
<1>2. Rollback(x, "crashed") /\ UNCHANGED <<committed, mails, active>>  BY DEF Crash
<1> HIDE DEF Rollback
<1> QED  BY <1>1, <1>2, RollbackStep

\* The invoice that is inserted has the next number after x's own, and no other
\* request has rows: it would hold that number.
LEMMA InsertNumber ==
  ASSUME IInv, NEW x \in Request, at[x] = "insert",
         \A y \in Others(x) : number[x] \notin OwnNumbers(y),
         number[x] \notin Numbers \cup OwnNumbers(x),
         NEW c \in Nat, NumberedTo(c)
  PROVE  /\ \E k \in Nat : OwnNumbers(x) = (c + 1) .. (c + k) /\ number[x] = c + k + 1
         /\ \A y \in Others(x) : OwnNumbers(y) = {}
<1>1. PICK k \in Nat : OwnNumbers(x) = (c + 1) .. (c + k) /\ number[x] \in 1 .. (c + k + 1)
  BY DEF NumberedTo
<1>2. Numbers = 1 .. c  BY DEF NumberedTo
<1>3. number[x] = c + k + 1  BY <1>1, <1>2
<1>4. ASSUME NEW y \in Others(x) PROVE OwnNumbers(y) = {}
  <2>1. PICK j \in Nat : OwnNumbers(y) = (c + 1) .. (c + j)  BY DEF NumberedTo, Others
  <2>2. CASE k # 0
    <3>1. c + 1 \in (c + 1) .. (c + k)  BY <2>2
    <3>2. OwnNumbers(x) # {}  BY <1>1, <3>1
    <3> QED  BY <3>2 DEF IInv, Numbering, Others
  <2>3. CASE k = 0
    <3>1. number[x] = c + 1  BY <1>3, <2>3
    <3>2. CASE j # 0
      <4>1. number[x] \in OwnNumbers(y)  BY <2>1, <3>1, <3>2
      <4> QED  BY <4>1
    <3>3. CASE j = 0  BY <2>1, <3>3
    <3> QED  BY <3>2, <3>3
  <2> QED  BY <2>2, <2>3
<1> QED  BY <1>1, <1>3, <1>4

LEMMA InsertInvoiceStep == ASSUME IInv, NEW x \in Request, InsertInvoice(x) PROVE IInv'
<1>1. /\ Job[x].kind \in {"run", "bill"} /\ at[x] = "insert"
      /\ UNCHANGED <<committed, mails, active>>
  BY KindsAt DEF IInv, InsertInvoice
<1>2. CASE number[x] \in Numbers \cup OwnNumbers(x)
  <2>1. "failed" \in Labels(Job[x].kind)  BY <1>1 DEF Labels, RunLabels, BillLabels
  <2>2. Rollback(x, "failed")  BY <1>2 DEF InsertInvoice
  <2> HIDE DEF Rollback
  <2> QED  BY <1>1, <2>1, <2>2, RollbackStep
<1>3. CASE number[x] \notin Numbers \cup OwnNumbers(x)
  <2> DEFINE old == draft[x].rows
             new == [n \in DOMAIN old \cup {number[x]} |-> IF n \in DOMAIN old THEN old[n] ELSE NewInvoice(x)]
             d == [draft[x] EXCEPT !.rows = new]
  <2>1. /\ Goto(x, AfterInsert(x)) /\ draft' = [draft EXCEPT ![x] = d]
        /\ hand' = [hand EXCEPT ![x] = NoLease] /\ number' = [number EXCEPT ![x] = 0]
        /\ UNCHANGED <<saw, todo>>
    BY <1>3 DEF InsertInvoice
  <2>2. AfterInsert(x) \in Labels(Job[x].kind) /\ AfterInsert(x) \in {"check", "mail"}
    BY <1>1 DEF AfterInsert, Labels, RunLabels, BillLabels
  <2>3. /\ at' \in [Request -> Label] /\ \A y \in Request : at'[y] \in Labels(Job[y].kind)
        /\ at'[x] = AfterInsert(x) /\ \A y \in Others(x) : at'[y] = at[y]
    <3> HIDE DEF Goto
    <3> QED  BY <2>1, <2>2, AtTyped DEF IInv
  <2>4. draft[x] \in Draft /\ old \in Rows /\ number[x] \in Nat  BY DEF IInv, Typed, Draft
  <2>5. NewInvoice(x) \in InvoiceRow
    <3>1. hand[x] \in Lease \cup {NoLease} /\ (Job[x].kind = "run" => hand[x] \in Lease)
      BY <1>1 DEF IInv, Typed
    <3> QED  BY <3>1, JobFacts DEF NewInvoice, InvoiceRow
  <2>6. DOMAIN new = OwnNumbers(x) \cup {number[x]}  BY DEF OwnNumbers
  <2>7. new \in Rows
    <3>1. DOMAIN old \in SUBSET Nat /\ old \in [DOMAIN old -> InvoiceRow]  BY <2>4, RowsFacts
    <3>2. new \in [DOMAIN old \cup {number[x]} -> InvoiceRow]
      <4> HIDE DEF InvoiceRow, old
      <4> QED  BY <2>5, <3>1
    <3>3. DOMAIN old \cup {number[x]} \in SUBSET Nat  BY <2>4, <3>1
    <3> HIDE DEF new, old
    <3> QED  BY <3>2, <3>3, RowsIntro
  <2>8. d \in Draft /\ d.rows = new
    <3>1. d.rows = new
      <4>1. draft[x] \in Draft  BY <2>4
      <4> HIDE DEF new
      <4> QED  BY <4>1 DEF Draft
    <3> HIDE DEF Draft, new
    <3> QED  BY <2>4, <2>7, <3>1, DraftColumns
  <2>9. /\ draft' \in [Request -> Draft] /\ draft'[x].rows = new
        /\ \A y \in Others(x) : draft'[y] = draft[y]
    <3> HIDE DEF d, Draft, new
    <3> QED  BY <2>1, <2>8, DraftTyped DEF IInv
  <2>10. /\ hand' \in [Request -> Lease \cup {NoLease}] /\ number' \in [Request -> Nat]
         /\ \A y \in Others(x) : hand'[y] = hand[y] /\ number'[y] = number[y]
    BY <2>1 DEF IInv, Typed, Others
  <2>11. Typed'
    <3>1. \A y \in Request : Job[y].kind = "run" /\ at'[y] \in {"count", "insert"} => hand'[y] \in Lease
      BY <2>2, <2>3, <2>10 DEF IInv, Typed, Others
    <3> HIDE DEF new, d, Goto, Draft, Label, Labels
    <3> QED  BY <1>1, <2>1, <2>3, <2>9, <2>10, <3>1 DEF IInv, Typed, committed
  <2> HIDE DEF d
  <2>12. Numbering'
    <3>1. PICK c \in Nat : NumberedTo(c)  BY DEF IInv, Numbering
    <3>2. \A y \in Others(x) : number[x] \notin OwnNumbers(y)  BY DEF InsertInvoice
    <3>3. /\ \E k \in Nat : OwnNumbers(x) = (c + 1) .. (c + k) /\ number[x] = c + k + 1
          /\ \A y \in Others(x) : OwnNumbers(y) = {}
      BY <1>1, <1>3, <3>1, <3>2, InsertNumber
    <3>4. PICK k \in Nat : OwnNumbers(x) = (c + 1) .. (c + k) /\ number[x] = c + k + 1
      BY <3>3
    <3>5. OwnNumbers(x)' = (c + 1) .. (c + (k + 1))
      <4>1. OwnNumbers(x)' = ((c + 1) .. (c + k)) \cup {c + k + 1}
        BY <2>6, <2>9, <3>4 DEF OwnNumbers
      <4>2. ((c + 1) .. (c + k)) \cup {c + k + 1} = (c + 1) .. (c + (k + 1))  OBVIOUS
      <4> QED  BY <4>1, <4>2
    <3>6. \A y \in Others(x) : OwnNumbers(y)' = {}  BY <2>9, <3>3 DEF OwnNumbers
    <3>7. Numbers' = 1 .. c  BY <1>1, <3>1 DEF NumberedTo, Numbers, committed
    <3>8. ASSUME NEW y \in Request
          PROVE  \E j \in Nat : /\ OwnNumbers(y)' = (c + 1) .. (c + j)
                                /\ at'[y] = "insert" => number'[y] \in 1 .. (c + j + 1)
      <4>1. CASE y = x
        <5>1. at'[y] # "insert"  BY <2>2, <2>3, <4>1
        <5>2. k + 1 \in Nat  OBVIOUS
        <5> QED  BY <3>5, <4>1, <5>1, <5>2
      <4>2. CASE y # x
        <5>1. OwnNumbers(y)' = {} /\ OwnNumbers(y) = {}  BY <3>3, <3>6, <4>2 DEF Others
        <5>2. PICK j \in Nat : /\ OwnNumbers(y) = (c + 1) .. (c + j)
                               /\ at[y] = "insert" => number[y] \in 1 .. (c + j + 1)
          BY <3>1 DEF NumberedTo
        <5>3. at'[y] = at[y] /\ number'[y] = number[y]  BY <2>3, <2>10, <4>2 DEF Others
        <5> QED  BY <5>1, <5>2, <5>3
      <4> QED  BY <4>1, <4>2
    <3>9. NumberedTo(c)'  BY <3>7, <3>8 DEF NumberedTo
    <3>10. \A y, z \in Request : OwnNumbers(y)' # {} /\ OwnNumbers(z)' # {} => y = z
      BY <3>6 DEF Others
    <3> QED  BY <3>9, <3>10 DEF Numbering
  <2>13. Whole'
    <3>1. \A n \in OwnNumbers(x) : n \in DOMAIN new /\ new[n] = draft[x].rows[n]
      BY <2>6 DEF OwnNumbers
    <3>2. new[number[x]] = NewInvoice(x)  BY <1>3 DEF OwnNumbers
    <3>3. DOMAIN new = OwnNumbers(x)' BY <2>9 DEF OwnNumbers
    <3>4. \A n \in OwnNumbers(x)' : draft'[x].rows[n].by = x
      <4>1. \A n \in OwnNumbers(x) : draft[x].rows[n].by = x  BY DEF IInv, Whole
      <4>2. NewInvoice(x).by = x  BY DEF NewInvoice
      <4> HIDE DEF new
      <4> QED  BY <2>6, <2>9, <3>1, <3>2, <3>3, <4>1, <4>2
    <3>5. ASSUME Job[x].kind = "run" PROVE WholeRun(x)'
      <4>1. WholeRun(x) /\ ~OnBooks(x)  BY <1>1, <3>5 DEF IInv, Whole, WholeRun
      <4>2. OnBooks(x)' = OnBooks(x)  BY <1>1 DEF OnBooks, Numbers, committed
      <4>3. \A l : Billed(l)' <=> Billed(l)  BY <1>1 DEF Billed, Numbers, committed
      <4>4. \A l : InDraft(x, l) => InDraft(x, l)'
        <5> HIDE DEF new
        <5> QED  BY <2>9, <3>1, <3>3 DEF InDraft
      <4>5. \A l : l = hand[x] => InDraft(x, l)'
        <5>1. number[x] \in OwnNumbers(x)' /\ draft'[x].rows[number[x]].lease = hand[x]
          <6>1. NewInvoice(x).lease = hand[x]  BY DEF NewInvoice
          <6> HIDE DEF new
          <6> QED  BY <2>6, <2>9, <3>2, <3>3, <6>1
        <5> HIDE DEF new
        <5> QED  BY <5>1 DEF InDraft
      <4>6. \A l \in active[x] : Accounted(x, l)  BY <1>1, <4>1 DEF WholeRun
      <4>7. \A l \in active'[x] : Accounted(x, l)'
        <5> HIDE DEF Billed, InDraft, new
        <5> QED  BY <1>1, <2>1, <4>3, <4>4, <4>5, <4>6 DEF Accounted
      <4>8. at'[x] = "check"  BY <2>3, <3>5 DEF AfterInsert
      <4> HIDE DEF OnBooks, Accounted, Billed
      <4> QED  BY <4>1, <4>2, <4>7, <4>8 DEF WholeRun
    <3>6. /\ \A n \in Numbers : n \in Numbers' /\ invoices'[n] = invoices[n]
          /\ \A n \in Numbers' \ Numbers : invoices'[n].by = x
      BY <1>1 DEF Numbers, committed
    <3> HIDE DEF WholeRun, new
    <3> QED  BY <1>1, <2>1, <2>3, <2>9, <2>10, <3>4, <3>5, <3>6, WholeKept DEF IInv
  <2> QED  BY <2>11, <2>12, <2>13 DEF IInv
<1> QED  BY <1>2, <1>3

----------------------------------------------------------------------------
(* The e-mails and the commits in the middle of the route.                 *)

LEMMA SendStep == ASSUME IInv, NEW x \in Request, Send(x) PROVE IInv'
<1>1. Job[x].kind \in {"run", "bill"} /\ at[x] = "mail"  BY KindsAt DEF IInv, Send
<1>2. "dispatch" \in Labels(Job[x].kind)  BY <1>1 DEF Labels, RunLabels, BillLabels
<1>3. Goto(x, "dispatch") /\ UNCHANGED <<committed, saw, active, todo, hand, number>>  BY DEF Send
<1>4. PICK n \in ToTell(x) : draft' = [draft EXCEPT ![x].told = {n}]  BY DEF Send
<1> DEFINE d == [draft[x] EXCEPT !.told = {n}]
<1>5. draft' = [draft EXCEPT ![x] = d]  BY <1>4
<1>6. draft[x] \in Draft /\ draft[x].rows \in Rows  BY DEF IInv, Typed, Draft
<1>7. {n} \in SUBSET Nat
  <2>1. OwnNumbers(x) \subseteq Nat /\ Numbers \subseteq Nat
    BY <1>6, RowsFacts DEF IInv, Typed, OwnNumbers, Numbers
  <2> QED  BY <2>1 DEF ToTell
<1>8. d \in Draft /\ d.rows = draft[x].rows
  <2> HIDE DEF Draft
  <2> QED  BY <1>6, <1>7, DraftColumns
<1> HIDE DEF d, Draft
<1>9. /\ draft' \in [Request -> Draft] /\ draft'[x] = d /\ \A y \in Others(x) : draft'[y] = draft[y]
  BY <1>5, <1>8, DraftTyped DEF IInv
<1>10. /\ at' \in [Request -> Label] /\ \A y \in Request : at'[y] \in Labels(Job[y].kind)
       /\ at'[x] = "dispatch" /\ \A y \in Others(x) : at'[y] = at[y]
  <2> HIDE DEF Goto
  <2> QED  BY <1>2, <1>3, AtTyped DEF IInv
<1>11. Typed'
  <2> HIDE DEF Goto, Label, Labels
  <2> QED  BY <1>1, <1>3, <1>9, <1>10 DEF IInv, Typed, committed, Others
<1>12. Numbering'
  <2>1. \A y \in Request : draft'[y].rows = draft[y].rows  BY <1>8, <1>9 DEF Others
  <2>2. \A y \in Request : at'[y] = "insert" => at[y] = "insert"  BY <1>10 DEF Others
  <2> QED  BY <1>3, <2>1, <2>2, NumberingKept DEF IInv, committed
<1>13. Whole'
  <2>1. Job[x].kind = "run" => WholeRun(x)'
    <3> HIDE DEF Goto
    <3> QED  BY <1>1, <1>3, <1>8, <1>9, <1>10, RunOn DEF committed
  <2>2. \A m \in OwnNumbers(x)' : draft'[x].rows[m].by = x
    BY <1>8, <1>9 DEF IInv, Whole, OwnNumbers
  <2>3. /\ \A m \in Numbers : m \in Numbers' /\ invoices'[m] = invoices[m]
        /\ \A m \in Numbers' \ Numbers : invoices'[m].by = x
    BY <1>3 DEF Numbers, committed
  <2> HIDE DEF WholeRun
  <2> QED  BY <1>3, <1>9, <1>10, <2>1, <2>2, <2>3, WholeKept DEF IInv
<1> QED  BY <1>11, <1>12, <1>13 DEF IInv

\* The first commit after the loop puts the whole run on the books.
LEMMA CommitRun ==
  ASSUME IInv, NEW x \in Request, Job[x].kind = "run", at[x] \in {"mail", "dispatch"}, CommitAll(x),
         active' = active
  PROVE  \A l \in active'[x] : Billed(l)'
<1>1. WholeRun(x)  BY DEF IInv, Whole
<1>2. \A l \in active[x] : Accounted(x, l)  BY <1>1 DEF WholeRun
<1>3. todo[x] = {}  BY <1>1 DEF WholeRun
<1>4. \A l \in active[x] : Billed(l) \/ InDraft(x, l)
  <2> HIDE DEF Billed, InDraft
  <2> QED  BY <1>2, <1>3 DEF Accounted
<1>5. /\ Numbers' = Numbers \cup OwnNumbers(x)
      /\ \A n \in Numbers : invoices'[n] = invoices[n]
      /\ \A n \in OwnNumbers(x) : invoices'[n] = draft[x].rows[n]
  BY CommitBooks DEF IInv
<1>6. \A l : Billed(l) => Billed(l)'  BY <1>5 DEF Billed
<1>7. \A l : InDraft(x, l) => Billed(l)'  BY <1>5 DEF Billed, InDraft
<1> HIDE DEF Billed, InDraft, CommitAll
<1> QED  BY <1>4, <1>6, <1>7

LEMMA DispatchStep == ASSUME IInv, NEW x \in Request, Dispatch(x) PROVE IInv'
<1>1. Job[x].kind \in {"run", "bill"} /\ at[x] = "dispatch"  BY KindsAt DEF IInv, Dispatch
<1>2. "mail" \in Labels(Job[x].kind)  BY <1>1 DEF Labels, RunLabels, BillLabels
<1>3. CommitAll(x) /\ Goto(x, "mail") /\ UNCHANGED <<mails, saw, active, todo, hand, number>>
  BY DEF Dispatch
<1>4. /\ at' \in [Request -> Label] /\ \A y \in Request : at'[y] \in Labels(Job[y].kind)
      /\ at'[x] = "mail" /\ \A y \in Others(x) : at'[y] = at[y]
  <2> HIDE DEF Goto
  <2> QED  BY <1>2, <1>3, AtTyped DEF IInv
<1>5. Typed'
  <2> HIDE DEF Goto, CommitAll, Label, Labels
  <2> QED  BY <1>1, <1>3, <1>4, CommitTyped DEF IInv, Typed, Others
<1>6. Numbering'
  <2>1. \A y \in Request : at'[y] = "insert" => y # x /\ at[y] = "insert" /\ number'[y] = number[y]
    BY <1>3, <1>4 DEF Others
  <2> HIDE DEF CommitAll
  <2> QED  BY <1>3, <2>1, NumberingCommitted DEF IInv
<1>7. Whole'
  <2>1. ASSUME Job[x].kind = "run" PROVE WholeRun(x)'
    <3>1. \A l \in active'[x] : Billed(l)'  BY <1>1, <1>3, <2>1, CommitRun
    <3>2. \A l : Billed(l)' => Accounted(x, l)'  BY DEF Accounted
    <3>3. todo'[x] = {}  BY <1>1, <1>3, <2>1 DEF IInv, Whole, WholeRun
    <3> HIDE DEF OnBooks, Accounted, Billed
    <3> QED  BY <1>4, <3>1, <3>2, <3>3 DEF WholeRun
  <2> HIDE DEF CommitAll, WholeRun
  <2> QED  BY <1>3, <1>4, <2>1, CommitWhole DEF IInv
<1> QED  BY <1>5, <1>6, <1>7 DEF IInv

LEMMA LogAndCommitStep == ASSUME IInv, NEW x \in Request, LogAndCommit(x) PROVE IInv'
<1>1. Job[x].kind \in {"run", "bill"} /\ at[x] = "mail"  BY KindsAt DEF IInv, LogAndCommit
<1>2. "done" \in Labels(Job[x].kind)  BY <1>1 DEF Labels, RunLabels, BillLabels
<1>3. CommitAll(x) /\ Goto(x, "done") /\ Forget(x) /\ UNCHANGED <<mails, active>>
  BY DEF LogAndCommit
<1>4. /\ at' \in [Request -> Label] /\ \A y \in Request : at'[y] \in Labels(Job[y].kind)
      /\ at'[x] = "done" /\ \A y \in Others(x) : at'[y] = at[y]
  <2> HIDE DEF Goto
  <2> QED  BY <1>2, <1>3, AtTyped DEF IInv
<1>5. Typed'
  <2> HIDE DEF Goto, CommitAll, Forget, Label, Labels
  <2> QED  BY <1>1, <1>3, <1>4, ForgetTyped, CommitTyped DEF IInv, Typed, Others
<1>6. Numbering'
  <2>1. \A y \in Request : at'[y] = "insert" => y # x /\ at[y] = "insert" /\ number'[y] = number[y]
    BY <1>3, <1>4, ForgetTyped DEF IInv, Others
  <2> HIDE DEF CommitAll
  <2> QED  BY <1>3, <2>1, NumberingCommitted DEF IInv
<1>7. Whole'
  <2>1. ASSUME Job[x].kind = "run" PROVE WholeRun(x)'
    <3>1. \A l \in active'[x] : Billed(l)'  BY <1>1, <1>3, <2>1, CommitRun
    <3> HIDE DEF OnBooks, Accounted, Billed
    <3> QED  BY <1>4, <3>1 DEF WholeRun
  <2> HIDE DEF CommitAll, WholeRun, Forget
  <2> QED  BY <1>3, <1>4, <2>1, ForgetTyped, CommitWhole DEF IInv
<1> QED  BY <1>5, <1>6, <1>7 DEF IInv

----------------------------------------------------------------------------
(* The theorems.                                                           *)

LEMMA InitTyped == Init => Typed
<1> SUFFICES ASSUME Init PROVE Typed  OBVIOUS
<1>1. lease \in [Lease -> LeaseState] /\ unit \in [Unit -> UnitState] /\ home \in [Tenant -> Homes]
  BY DEF Init, LeaseState, UnitState, Homes
<1>2. invoices \in Rows /\ told \in SUBSET Nat  BY EmptyRows DEF Init
<1>3. at \in [Request -> Label] /\ \A x \in Request : at[x] \in Labels(Job[x].kind)
  <2>1. \A x \in Request : First(x) \in Labels(Job[x].kind) /\ "absent" \in Labels(Job[x].kind)
    BY JobFacts DEF First, Kind, Labels, RunLabels, BillLabels, LetLabels, EndLabels
  <2>2. \A x \in Request : First(x) \in Label /\ "absent" \in Label
    BY DEF First, Label, RunLabels, BillLabels, LetLabels, EndLabels
  <2> HIDE DEF First, Label, Labels
  <2> QED  BY <2>1, <2>2 DEF Init
<1>4. saw \in [Request -> Seen]
  <2>1. Unseen \in Seen  BY DEF Unseen, Seen, LeaseState, UnitState, Homes
  <2> HIDE DEF Seen
  <2> QED  BY <2>1 DEF Init
<1>5. draft \in [Request -> Draft]
  <2> HIDE DEF Draft
  <2> QED  BY EmptyDraft DEF Init
<1>6. /\ active \in [Request -> SUBSET Lease] /\ todo \in [Request -> SUBSET Lease]
      /\ hand \in [Request -> Lease \cup {NoLease}] /\ number \in [Request -> Nat]
  BY DEF Init
<1>7. \A x \in Request : at[x] \notin {"count", "insert"}  BY DEF Init, First
<1> QED  BY <1>1, <1>2, <1>3, <1>4, <1>5, <1>6, <1>7 DEF Typed

LEMMA InitIInv == Init => IInv
<1> SUFFICES ASSUME Init PROVE IInv  OBVIOUS
<1>1. Numbers = {} /\ \A x \in Request : OwnNumbers(x) = {}
  BY EmptyRows, EmptyDraft DEF Init, Numbers, OwnNumbers
<1>2. Numbering
  <2>1. 1 .. 0 = {} /\ (0 + 1) .. (0 + 0) = {}  OBVIOUS
  <2>2. \A x \in Request : at[x] # "insert"  BY DEF Init, First
  <2>3. NumberedTo(0)  BY <1>1, <2>1, <2>2 DEF NumberedTo
  <2> QED  BY <1>1, <2>3 DEF Numbering
<1>3. Whole
  <2>1. \A x \in Request : ~OnBooks(x) /\ active[x] = {} /\ at[x] \in {"absent", First(x)}
    BY <1>1 DEF Init, OnBooks
  <2>2. \A x \in Request : at[x] \notin {"mail", "dispatch"}  BY <2>1 DEF First
  <2> QED  BY <1>1, <2>1, <2>2 DEF Whole, WholeRun
<1> QED  BY <1>2, <1>3, InitTyped DEF IInv

LEMMA Stutter == ASSUME IInv, UNCHANGED vars PROVE IInv'
<1>1. Typed'  BY DEF IInv, Typed, vars
<1>2. /\ invoices' = invoices /\ at' = at /\ active' = active /\ todo' = todo /\ hand' = hand
      /\ number' = number /\ draft' = draft
  BY DEF vars
<1>3. Numbering'  BY <1>2, NumberingKept DEF IInv
<1>4. Whole'
  BY <1>2 DEF IInv, Whole, WholeRun, OnBooks, Accounted, Billed, InDraft, OwnNumbers, Numbers
<1> QED  BY <1>1, <1>3, <1>4 DEF IInv

LEMMA NextIInv == IInv /\ [Next]_vars => IInv'
<1> SUFFICES ASSUME IInv, [Next]_vars PROVE IInv'  OBVIOUS
<1>1. CASE UNCHANGED vars  BY <1>1, Stutter
<1>2. CASE Next
  <2>1. PICK x \in Request : Step(x) \/ Crash(x)  BY <1>2 DEF Next
  <2>2. CASE Step(x)
    BY <2>2, ReadTenantStep, ReadUnitStep, CheckActiveStep, ReadLeaseStep, WriteUnitStep,
       WriteTenantStep, WriteLeaseStep, CommitStep, ReadLeasesStep, CheckBilledStep,
       CountInvoicesStep, InsertInvoiceStep, SendStep, DispatchStep, LogAndCommitStep
       DEF Step
  <2>3. CASE Crash(x)  BY <2>3, CrashStep
  <2> QED  BY <2>1, <2>2, <2>3
<1> QED  BY <1>1, <1>2

\* Whatever requests arrive and however they interleave, the state is well
\* formed: in particular every row of a run is a lease's, and is its tenant's.
THEOREM TypeCorrect == Spec => []TypeOK
<1>1. IInv => TypeOK  BY TypedOK DEF IInv
<1> QED  BY <1>1, InitIInv, NextIInv, PTL DEF Spec

\* The invoice numbers on the books are 1 to n without a gap, so that the count
\* plus one of _next_invoice_number is always free among the committed ones.
THEOREM NumbersAreDense == Spec => []NumbersDense
<1>1. IInv => NumbersDense  BY NumberingDense DEF IInv
<1> QED  BY <1>1, InitIInv, NextIInv, PTL DEF Spec

\* A monthly run is all or nothing, wherever it is interrupted, although its
\* e-mails commit in the middle of the route.
THEOREM RunsAreWhole == Spec => []RunIsWhole
<1>1. IInv => RunIsWhole  BY WholeRuns DEF IInv
<1> QED  BY <1>1, InitIInv, NextIInv, PTL DEF Spec

----------------------------------------------------------------------------
(* What every step has in common.                                          *)

\* What a request keeps for itself.
SameFor(y) ==
  /\ at'[y] = at[y] /\ saw'[y] = saw[y] /\ todo'[y] = todo[y] /\ hand'[y] = hand[y]
  /\ draft'[y] = draft[y]

LEMMA OthersRest ==
  ASSUME Typed, NEW x \in Request, Step(x) \/ Crash(x)
  PROVE  at[x] # "done" /\ \A y \in Others(x) : SameFor(y)
<1>1. CASE ReadTenant(x) \/ ReadUnit(x) \/ CheckActive(x) \/ ReadLease(x)
  BY <1>1 DEF ReadTenant, ReadUnit, CheckActive, ReadLease, Goto, Others, SameFor, Typed
<1>2. CASE WriteUnit(x) \/ WriteTenant(x) \/ WriteLease(x)
  BY <1>2 DEF WriteUnit, WriteTenant, WriteLease, Goto, Others, SameFor, Typed
<1>3. CASE Commit(x) \/ Dispatch(x) \/ LogAndCommit(x)
  BY <1>3 DEF Commit, Dispatch, LogAndCommit, CommitAll, Forget, Goto, Others, SameFor, Typed
<1>4. CASE ReadLeases(x) \/ CheckBilled(x) \/ CountInvoices(x)
  BY <1>4 DEF ReadLeases, CheckBilled, CountInvoices, Goto, Others, SameFor, Typed
<1>5. CASE InsertInvoice(x)
  BY <1>5 DEF InsertInvoice, Rollback, Forget, Goto, Others, SameFor, Typed
<1>6. CASE Send(x)
  BY <1>6 DEF Send, Goto, Others, SameFor, Typed
<1>7. CASE Crash(x)
  BY <1>7 DEF Crash, Rollback, Forget, Goto, Others, SameFor, Typed, Finished
<1> QED BY <1>1, <1>2, <1>3, <1>4, <1>5, <1>6, <1>7 DEF Step

\* A step either commits, or leaves the tables alone.
LEMMA TablesRest ==
  ASSUME NEW x \in Request, Step(x) \/ Crash(x)
  PROVE  Commit(x) \/ Dispatch(x) \/ LogAndCommit(x) \/ UNCHANGED committed
  BY DEF Step, ReadTenant, ReadUnit, CheckActive, ReadLease, WriteUnit, WriteTenant, WriteLease,
     ReadLeases, CheckBilled, CountInvoices, InsertInvoice, Send, Crash

\* A request that rolls back has nothing left.
LEMMA RollbackClears ==
  ASSUME Typed, NEW x \in Request, NEW label, Rollback(x, label)
  PROVE  at'[x] = label /\ draft'[x] = NoDraft /\ OwnNumbers(x)' = {} /\ saw'[x] = Unseen
<1> HIDE DEF NoDraft, Unseen
<1>1. at'[x] = label /\ draft'[x] = NoDraft /\ saw'[x] = Unseen
  BY DEF Rollback, Forget, Goto, Typed
<1> QED BY <1>1, EmptyDraft, EmptyRows DEF OwnNumbers

----------------------------------------------------------------------------
(* Billing.                                                                *)

RowLease(x, n) == draft[x].rows[n].lease

OnceOf(x) ==
  /\ at[x] \in {"absent", "leases"} => OwnNumbers(x) = {}
  /\ \A m, n \in OwnNumbers(x) : RowLease(x, m) = RowLease(x, n) => m = n
  /\ \A n \in OwnNumbers(x) : RowLease(x, n) \notin todo[x]
  /\ at[x] \in {"count", "insert"} =>
       hand[x] \notin todo[x] /\ \A n \in OwnNumbers(x) : RowLease(x, n) # hand[x]
  /\ \A n \in Numbers :
       Job[invoices[n].by].kind = "run" /\ invoices[n].lease \in Billing(x)
         => invoices[n].lease \in overlapped

Once == BilledByOneRun /\ \A x \in Request : Job[x].kind = "run" => OnceOf(x)

LEMMA OnceElsewhere ==
  ASSUME NEW y \in Request, OnceOf(y), SameFor(y), UNCHANGED committed
  PROVE  OnceOf(y)'
<1>1. OwnNumbers(y)' = OwnNumbers(y)  BY DEF SameFor, OwnNumbers
<1>2. \A n : RowLease(y, n)' = RowLease(y, n)  BY DEF SameFor, RowLease
<1>3. Billing(y)' = Billing(y)  BY DEF SameFor, Billing, OwnNumbers
<1> QED BY <1>1, <1>2, <1>3 DEF OnceOf, SameFor, committed, Numbers

\* A run that has nothing in its session.
LEMMA NothingBilled ==
  ASSUME NEW x \in Request, OwnNumbers(x) = {}, at[x] \notin {"count", "insert"}
  PROVE  OnceOf(x)
<1>1. Billing(x) = {}  BY DEF Billing
<1> QED BY <1>1 DEF OnceOf

LEMMA BillingIs ==
  ASSUME NEW x \in Request, NEW l
  PROVE  l \in Billing(x) <=> \/ \E n \in OwnNumbers(x) : RowLease(x, n) = l
                              \/ at[x] \in {"count", "insert"} /\ l = hand[x]
  BY DEF Billing, RowLease

LEMMA OnceStep ==
  ASSUME IInv, Once, NEW x \in Request, Step(x) \/ Crash(x), UNCHANGED committed,
         Job[x].kind = "run"
  PROVE  OnceOf(x)'
<1>0. Typed /\ OnceOf(x)  BY DEF IInv, Once
<1>1. CASE ReadLeases(x)
  <2>1. at'[x] = "check" /\ draft' = draft /\ at[x] = "leases"
    BY <1>0, <1>1 DEF ReadLeases, Goto, Typed
  <2>2. OwnNumbers(x)' = {}  BY <1>0, <2>1 DEF OnceOf, OwnNumbers
  <2>3. (OnceOf(x))'
    <3>1. Billing(x)' = {}  BY <2>1, <2>2 DEF Billing
    <3> QED BY <2>1, <2>2, <3>1 DEF OnceOf
  <2> QED BY <2>3
<1>2. CASE CheckBilled(x)
  <2>1. at[x] = "check" /\ draft' = draft /\ UNCHANGED committed  BY <1>2 DEF CheckBilled
  <2>2. OwnNumbers(x)' = OwnNumbers(x) /\ \A n : RowLease(x, n)' = RowLease(x, n)
    BY <2>1 DEF OwnNumbers, RowLease
  <2>3. todo'[x] \subseteq todo[x]  BY <1>0, <1>2 DEF CheckBilled, Typed
  <2>4. \/ at'[x] \notin {"count", "insert"}
        \/ hand'[x] \in todo[x] /\ hand'[x] \notin todo'[x] /\ ~Billed(hand'[x])
    BY <1>0, <1>2 DEF CheckBilled, Goto, Typed
  <2>5. at'[x] \notin {"absent", "leases"}
    BY <1>0, <1>2 DEF CheckBilled, Goto, Typed
  <2>6. \A l : l \in Billing(x)' => l \in Billing(x) \/ ~Billed(l)
    BY <2>2, <2>4 DEF Billing, RowLease
  <2> QED BY <1>0, <2>1, <2>2, <2>3, <2>4, <2>5, <2>6 DEF OnceOf, committed, Numbers, Billed
<1>3. CASE CountInvoices(x)
  <2>1. at[x] = "count" /\ at'[x] = "insert" /\ draft' = draft /\ todo' = todo /\ hand' = hand
    BY <1>0, <1>3 DEF CountInvoices, Goto, Typed
  <2>2. OwnNumbers(x)' = OwnNumbers(x) /\ \A n : RowLease(x, n)' = RowLease(x, n)
    BY <2>1 DEF OwnNumbers, RowLease
  <2>3. Billing(x)' = Billing(x)  BY <2>1 DEF Billing, OwnNumbers
  <2> QED BY <1>0, <2>1, <2>2, <2>3 DEF OnceOf, committed, Numbers
<1>4. CASE InsertInvoice(x)
  <2>1. CASE number[x] \in Numbers \cup OwnNumbers(x)
    <3>1. Rollback(x, "failed")  BY <1>4, <2>1 DEF InsertInvoice
    <3>2. at'[x] = "failed" /\ OwnNumbers(x)' = {}  BY <1>0, <3>1, RollbackClears
    <3>3. Billing(x)' = {}  BY <3>2 DEF Billing
    <3> QED BY <3>2, <3>3 DEF OnceOf
  <2>2. CASE number[x] \notin Numbers \cup OwnNumbers(x)
    <3> DEFINE old == draft[x].rows
               new == [n \in DOMAIN old \cup {number[x]} |->
                         IF n \in DOMAIN old THEN old[n] ELSE NewInvoice(x)]
    <3>1. draft' = [draft EXCEPT ![x].rows = new]  BY <1>4, <2>2 DEF InsertInvoice
    <3>2. draft'[x].rows = new
      <4>1. draft \in [Request -> Draft]  BY <1>0 DEF Typed
      <4> HIDE DEF new
      <4> QED BY <3>1, <4>1 DEF Draft
    <3>3. at[x] = "insert" /\ at'[x] = "check" /\ todo' = todo
      BY <1>0, <1>4, <2>2 DEF InsertInvoice, Goto, AfterInsert, Typed
    <3>4. OwnNumbers(x)' = OwnNumbers(x) \cup {number[x]}  BY <3>2 DEF OwnNumbers
    <3>5. NewInvoice(x).lease = hand[x]  BY DEF NewInvoice
    <3>6. PICK k : k = number[x]  OBVIOUS
    <3>7. /\ OwnNumbers(x)' = OwnNumbers(x) \cup {k} /\ k \notin OwnNumbers(x)
          /\ \A n \in OwnNumbers(x) : RowLease(x, n)' = RowLease(x, n)
          /\ RowLease(x, k)' = hand[x]
      BY <2>2, <3>2, <3>4, <3>5, <3>6 DEF OwnNumbers, RowLease
    <3> HIDE DEF new
    <3>8. \A l : l \in Billing(x)' => l \in Billing(x)
      BY <3>3, <3>7 DEF Billing, RowLease
    <3>9. /\ at'[x] \notin {"absent", "leases", "count", "insert"} /\ todo'[x] = todo[x]
          /\ hand[x] \notin todo[x] /\ \A n \in OwnNumbers(x) : RowLease(x, n) # hand[x]
      BY <1>0, <3>3 DEF OnceOf
    <3> QED BY <1>0, <3>7, <3>8, <3>9 DEF OnceOf, committed, Numbers
  <2> QED BY <2>1, <2>2
<1>5. CASE Send(x)
  <2>1. PICK n \in ToTell(x) : draft' = [draft EXCEPT ![x].told = {n}]  BY <1>5 DEF Send
  <2>2. draft'[x].rows = draft[x].rows
    <3>1. draft \in [Request -> Draft]  BY <1>0 DEF Typed
    <3> QED BY <2>1, <3>1 DEF Draft
  <2>3. at[x] = "mail" /\ at'[x] = "dispatch" /\ todo' = todo /\ hand' = hand
    BY <1>0, <1>5 DEF Send, Goto, Typed
  <2>4. OwnNumbers(x)' = OwnNumbers(x) /\ \A m : RowLease(x, m)' = RowLease(x, m)
    BY <2>2 DEF OwnNumbers, RowLease
  <2>5. Billing(x)' = Billing(x)  BY <2>2, <2>3 DEF Billing, OwnNumbers
  <2> QED BY <1>0, <2>3, <2>4, <2>5 DEF OnceOf, committed, Numbers
<1>6. CASE Crash(x)
  <2>1. at'[x] = "crashed" /\ OwnNumbers(x)' = {}  BY <1>0, <1>6, RollbackClears DEF Crash
  <2>2. Billing(x)' = {}  BY <2>1 DEF Billing
  <2> QED BY <2>1, <2>2 DEF OnceOf
<1>7. ASSUME Commit(x) \/ Dispatch(x) \/ LogAndCommit(x) PROVE OnceOf(x)'
  <2>1. CommitAll(x) /\ at'[x] \in {"done", "mail"}
    BY <1>0, <1>7 DEF Commit, Dispatch, LogAndCommit, Goto, Typed
  <2>2. OwnNumbers(x)' = {}  BY <2>1, CommitBooks DEF IInv
  <2>3. Billing(x)' = {}  BY <2>1, <2>2 DEF Billing
  <2> QED BY <2>1, <2>2, <2>3 DEF OnceOf
<1> QED
  BY <1>0, <1>1, <1>2, <1>3, <1>4, <1>5, <1>6, <1>7, KindsAt DEF Step, ReadTenant, ReadUnit,
     CheckActive, ReadLease, WriteUnit, WriteTenant, WriteLease

LEMMA OnceCommit ==
  ASSUME IInv, Once, NEW x \in Request, Commit(x) \/ Dispatch(x) \/ LogAndCommit(x)
  PROVE  Once'
<1> DEFINE Run(r) == Job[r].kind = "run"
<1>1. Typed /\ Numbering /\ Whole /\ CommitAll(x) /\ Step(x)
  BY DEF IInv, Commit, Dispatch, LogAndCommit, Step
<1>2. /\ Numbers' = Numbers \cup OwnNumbers(x) /\ OwnNumbers(x)' = {}
      /\ \A n \in Numbers : invoices'[n] = invoices[n]
      /\ \A n \in OwnNumbers(x) : invoices'[n] = draft[x].rows[n]
  BY <1>1, CommitBooks
<1>3. overlapped \subseteq overlapped' /\ Overlaps(x) \subseteq overlapped'
  BY <1>1 DEF CommitAll
<1>4. \A n \in OwnNumbers(x) : /\ invoices'[n].by = x /\ invoices'[n].lease = RowLease(x, n)
                               /\ invoices'[n].lease \in Billing(x)
  <2>1. \A n \in OwnNumbers(x) : draft[x].rows[n].by = x  BY <1>1 DEF Whole
  <2> QED BY <1>2, <2>1 DEF RowLease, Billing
<1>5. \A n \in OwnNumbers(x) : n \notin Numbers  BY <1>1, OwnAreNew
<1>6. BilledByOneRun'
  <2> SUFFICES ASSUME NEW m \in Numbers', NEW n \in Numbers',
                      Run(invoices'[m].by), Run(invoices'[n].by),
                      invoices'[m].lease = invoices'[n].lease
               PROVE  m = n \/ invoices'[n].lease \in overlapped'
    BY DEF BilledByOneRun
  <2>1. CASE m \in Numbers /\ n \in Numbers
    <3>1. m = n \/ invoices[n].lease \in overlapped
      BY <1>2, <2>1 DEF Once, BilledByOneRun
    <3> QED BY <1>2, <1>3, <2>1, <3>1
  <2>2. CASE m \in OwnNumbers(x) /\ n \in OwnNumbers(x)
    <3>1. OnceOf(x)  BY <1>4, <2>2 DEF Once
    <3> QED BY <1>4, <2>2, <3>1 DEF OnceOf
  <2>3. CASE m \in Numbers /\ n \in OwnNumbers(x)
    <3>1. OnceOf(x)  BY <1>4, <2>3 DEF Once
    <3>2. invoices[m].lease \in Billing(x) /\ Run(invoices[m].by)  BY <1>2, <1>4, <2>3
    <3>3. invoices[m].lease \in overlapped  BY <2>3, <3>1, <3>2 DEF OnceOf
    <3> QED BY <1>2, <1>3, <2>3, <3>3
  <2>4. CASE n \in Numbers /\ m \in OwnNumbers(x)
    <3>1. OnceOf(x)  BY <1>4, <2>4 DEF Once
    <3>2. invoices[n].lease \in Billing(x) /\ Run(invoices[n].by)  BY <1>2, <1>4, <2>4
    <3>3. invoices[n].lease \in overlapped  BY <2>4, <3>1, <3>2 DEF OnceOf
    <3> QED BY <1>2, <1>3, <2>4, <3>3
  <2> QED BY <1>2, <2>1, <2>2, <2>3, <2>4
<1>7. ASSUME NEW y \in Others(x), Run(y) PROVE OnceOf(y)'
  <2>1. SameFor(y) /\ y \in Request /\ y # x  BY <1>1, OthersRest DEF Others
  <2>2. OnceOf(y)  BY <1>7, <2>1 DEF Once
  <2>3. OwnNumbers(y)' = OwnNumbers(y) /\ \A n : RowLease(y, n)' = RowLease(y, n)
    BY <2>1 DEF SameFor, OwnNumbers, RowLease
  <2>4. Billing(y)' = Billing(y)  BY <2>1 DEF SameFor, Billing, OwnNumbers
  <2>5. ASSUME NEW n \in Numbers', Run(invoices'[n].by), invoices'[n].lease \in Billing(y)'
        PROVE  invoices'[n].lease \in overlapped'
    <3>1. CASE n \in Numbers
      BY <1>2, <1>3, <2>2, <2>4, <2>5, <3>1 DEF OnceOf
    <3>2. CASE n \in OwnNumbers(x)
      <4>1. invoices'[n].lease \in Billing(x) \cap Billing(y)  BY <1>4, <2>4, <2>5, <3>2
      <4>2. Billing(x) \cap Billing(y) \subseteq Overlaps(x)  BY <1>7 DEF Overlaps
      <4> QED BY <1>3, <4>1, <4>2
    <3> QED BY <1>2, <3>1, <3>2
  <2> QED BY <2>1, <2>2, <2>3, <2>5 DEF OnceOf, SameFor
<1>8. OnceOf(x)'
  <2>1. at'[x] \notin {"count", "insert"}
    BY <1>1 DEF Commit, Dispatch, LogAndCommit, Goto, Typed
  <2>2. Billing(x)' = {}  BY <1>2, <2>1 DEF Billing
  <2> QED BY <1>2, <2>1, <2>2 DEF OnceOf
<1> QED BY <1>6, <1>7, <1>8 DEF Once, Others

LEMMA OnceInit == Init => Once
<1> SUFFICES ASSUME Init PROVE Once  OBVIOUS
<1>1. Numbers = {}  BY EmptyRows DEF Init, Numbers
<1>2. \A x \in Request : OwnNumbers(x) = {} /\ at[x] \notin {"count", "insert"}
  BY EmptyRows, EmptyDraft DEF Init, OwnNumbers, First
<1> QED BY <1>1, <1>2, NothingBilled DEF Once, BilledByOneRun

LEMMA OnceNext == IInv /\ Once /\ [Next]_vars => Once'
<1> SUFFICES ASSUME IInv, Once, [Next]_vars PROVE Once'  OBVIOUS
<1>1. CASE UNCHANGED vars
  <2>1. UNCHANGED committed /\ \A y \in Request : SameFor(y)  BY <1>1 DEF vars, committed, SameFor
  <2>2. \A y \in Request : Job[y].kind = "run" => OnceOf(y)'  BY <2>1, OnceElsewhere DEF Once
  <2> QED BY <2>1, <2>2 DEF Once, BilledByOneRun, committed, Numbers
<1>2. CASE Next
  <2>1. PICK x \in Request : Step(x) \/ Crash(x)  BY <1>2 DEF Next
  <2>2. CASE UNCHANGED committed
    <3>1. Job[x].kind = "run" => OnceOf(x)'  BY <2>1, <2>2, OnceStep
    <3>2. \A y \in Others(x) : Job[y].kind = "run" => OnceOf(y)'
      BY <2>1, <2>2, OthersRest, OnceElsewhere DEF IInv, Once, Others
    <3> QED BY <2>2, <3>1, <3>2 DEF Once, BilledByOneRun, committed, Numbers, Others
  <2> QED BY <2>1, <2>2, TablesRest, OnceCommit
<1> QED BY <1>1, <1>2

----------------------------------------------------------------------------
(* Letting and ending.                                                     *)

Excused(u) == u \in overlapped \/ EndedAgain(u)
EndedAlready(l) == \E z \in Request : Job[z].kind = "end" /\ Job[z].lease = l /\ at[z] = "done"
EndedBefore(x) ==
  \E z \in Others(x) : Job[z].kind = "end" /\ Job[z].lease = Job[x].lease /\ at[z] = "done"

UnitSeen(x) == at[x] \in {"active", "writeUnit", "writeTenant", "writeLease", "commit"}
TenantSeen(x) == at[x] \in {"writeUnit", "writeTenant", "writeLease", "commit"}
UnitWritten(x) == at[x] \in {"writeTenant", "writeLease", "commit"}
LeaseSeen(x) == at[x] \in {"unit", "tenant", "writeUnit", "writeTenant", "writeLease", "commit"}

LetOf(x) ==
  /\ saw[x].lease = "NONE"
  /\ UnitSeen(x) =>
       /\ saw[x].unit # "OCCUPIED"
       /\ \A k \in ActiveLeases : LeaseUnit[k] = UnitOf(x) => Excused(UnitOf(x))
  /\ TenantSeen(x) =>
       \A k \in ActiveLeases : LeaseTenant[k] = TenantOf(x) => TenantOf(x) \in overlapped
  /\ UnitWritten(x) => draft[x].unit = "OCCUPIED"
  /\ at[x] = "commit" => draft[x].lease = "ACTIVE"
EndOf(x) ==
  /\ LeaseSeen(x) => lease[Job[x].lease] = "ACTIVE" \/ EndedBefore(x)
  /\ saw[x].lease = "TERMINATED" => EndedBefore(x)
  /\ draft[x].unit \in {Same, "AVAILABLE"} /\ draft[x].lease \in {Same, "TERMINATED"}
  /\ at[x] = "commit" => draft[x].lease = "TERMINATED" \/ saw[x].lease = "TERMINATED"
BillOf(x) == draft[x].lease = Same /\ draft[x].unit = Same
LetsOf(x) ==
  /\ Job[x].kind = "let" => LetOf(x)
  /\ Job[x].kind = "end" => EndOf(x)
  /\ Job[x].kind \in {"run", "bill"} => BillOf(x)

Occupied == \A l \in ActiveLeases : unit[LeaseUnit[l]] = "OCCUPIED" \/ Excused(LeaseUnit[l])
EndedByOne == \A l \in Lease : lease[l] = "TERMINATED" => EndedAlready(l)

Lets == LetOnce /\ Occupied /\ EndedByOne /\ \A x \in Request : LetsOf(x)

\* Excuses stay.
DoneStays == \A z \in Request : at[z] = "done" => at'[z] = "done"
Later == DoneStays /\ overlapped \subseteq overlapped'

LEMMA ExcusesStay ==
  ASSUME Later
  PROVE  /\ \A u : Excused(u) => Excused(u)'
         /\ \A l : EndedAlready(l) => EndedAlready(l)'
         /\ \A x : EndedBefore(x) => EndedBefore(x)'
  BY DEF Later, DoneStays, Excused, EndedAgain, EndedAlready, EndedBefore, Others

LEMMA StepIsLater ==
  ASSUME Typed, NEW x \in Request, Step(x) \/ Crash(x)
  PROVE  Later
<1>1. DoneStays  BY OthersRest DEF DoneStays, Others, SameFor
<1>2. overlapped \subseteq overlapped'
  BY TablesRest DEF Commit, Dispatch, LogAndCommit, CommitAll, committed
<1> QED BY <1>1, <1>2 DEF Later

LEMMA LetsElsewhere ==
  ASSUME NEW y \in Request, LetsOf(y), SameFor(y), Later, lease' = lease
  PROVE  LetsOf(y)'
<1>1. ActiveLeases' = ActiveLeases  BY DEF ActiveLeases
<1>2. /\ at'[y] = at[y] /\ saw'[y] = saw[y] /\ draft'[y] = draft[y]  BY DEF SameFor
<1>3. /\ Excused(UnitOf(y)) => Excused(UnitOf(y))'
      /\ EndedBefore(y) => EndedBefore(y)'
      /\ TenantOf(y) \in overlapped => TenantOf(y) \in overlapped'
  BY ExcusesStay DEF Later
<1>4. LetOf(y) => LetOf(y)'
  <2> HIDE DEF Excused, ActiveLeases
  <2> QED BY <1>1, <1>2, <1>3 DEF LetOf, UnitSeen, TenantSeen, UnitWritten, UnitOf, TenantOf
<1>5. EndOf(y) => EndOf(y)'
  <2> HIDE DEF EndedBefore
  <2> QED BY <1>2, <1>3 DEF EndOf, LeaseSeen
<1>6. BillOf(y) => BillOf(y)'  BY <1>2 DEF BillOf
<1> HIDE DEF LetOf, EndOf, BillOf
<1> QED BY <1>4, <1>5, <1>6 DEF LetsOf

LEMMA TablesOfLets ==
  ASSUME LetOnce, Occupied, EndedByOne, Later, lease' = lease, unit' = unit
  PROVE  LetOnce' /\ Occupied' /\ EndedByOne'
<1>1. ActiveLeases' = ActiveLeases  BY DEF ActiveLeases
<1>2. \A u : Excused(u) => Excused(u)'  BY ExcusesStay
<1>3. LetOnce'
  <2>1. \A u : u \in overlapped \/ EndedAgain(u) => (u \in overlapped \/ EndedAgain(u))'
    BY <1>2 DEF Excused
  <2>2. \A u : u \in overlapped => u \in overlapped'  BY DEF Later
  <2> HIDE DEF EndedAgain, ActiveLeases
  <2> QED BY <1>1, <2>1, <2>2 DEF LetOnce
<1>4. Occupied'
  <2> HIDE DEF Excused, ActiveLeases
  <2> QED BY <1>1, <1>2 DEF Occupied
<1>5. EndedByOne'
  <2> HIDE DEF EndedAlready
  <2> QED BY ExcusesStay DEF EndedByOne
<1> QED BY <1>3, <1>4, <1>5

\* One column of a draft or of what was seen.
LEMMA Columns ==
  ASSUME Typed, NEW x \in Request
  PROVE  /\ \A v : draft' = [draft EXCEPT ![x].unit = v] =>
                     draft'[x].unit = v /\ draft'[x].lease = draft[x].lease
         /\ \A v : draft' = [draft EXCEPT ![x].lease = v] =>
                     draft'[x].lease = v /\ draft'[x].unit = draft[x].unit
         /\ \A v : draft' = [draft EXCEPT ![x].home = v] =>
                     draft'[x].lease = draft[x].lease /\ draft'[x].unit = draft[x].unit
         /\ \A v : draft' = [draft EXCEPT ![x].rows = v] =>
                     draft'[x].lease = draft[x].lease /\ draft'[x].unit = draft[x].unit
         /\ \A v : draft' = [draft EXCEPT ![x].told = v] =>
                     draft'[x].lease = draft[x].lease /\ draft'[x].unit = draft[x].unit
         /\ \A v : saw' = [saw EXCEPT ![x].home = v] =>
                     saw'[x].lease = saw[x].lease /\ saw'[x].unit = saw[x].unit
         /\ \A v : saw' = [saw EXCEPT ![x].unit = v] =>
                     saw'[x].lease = saw[x].lease /\ saw'[x].unit = v
         /\ \A v : saw' = [saw EXCEPT ![x].lease = v] =>
                     saw'[x].lease = v /\ saw'[x].unit = saw[x].unit
<1>1. draft \in [Request -> Draft] /\ saw \in [Request -> Seen]  BY DEF Typed
<1> HIDE DEF Rows, Homes, LeaseState, UnitState
<1>2. draft[x] \in Draft /\ saw[x] \in Seen  BY <1>1
<1> QED BY <1>1, <1>2 DEF Draft, Seen

LEMMA Clean == NoDraft.lease = Same /\ NoDraft.unit = Same /\ Unseen.lease = "NONE"
  BY DEF NoDraft, Unseen

\* A statement of a request that lets a unit.
LEMMA LetStep ==
  ASSUME Typed, Lets, NEW x \in Request, Step(x), UNCHANGED committed, Job[x].kind = "let"
  PROVE  LetOf(x)'
<1>0. LetOf(x) /\ Later  BY StepIsLater DEF Lets, LetsOf
<1>1. ActiveLeases' = ActiveLeases  BY DEF ActiveLeases, committed
<1>2. /\ Excused(UnitOf(x)) => Excused(UnitOf(x))'
      /\ TenantOf(x) \in overlapped => TenantOf(x) \in overlapped'
  BY <1>0, ExcusesStay DEF Later
<1>3. CASE ReadTenant(x)
  <2>1. at'[x] = "unit"  BY <1>3 DEF ReadTenant, Goto, Typed
  <2>2. saw'[x].lease = "NONE"  BY <1>0, <1>3, Columns DEF ReadTenant, LetOf
  <2> QED BY <2>1, <2>2 DEF LetOf, UnitSeen, TenantSeen, UnitWritten
<1>4. CASE ReadUnit(x)
  <2>1. at'[x] \in {"refused", "active"} /\ (at'[x] = "active" => unit[UnitOf(x)] # "OCCUPIED")
    BY <1>4 DEF ReadUnit, Goto, Typed
  <2>2. saw'[x].lease = "NONE" /\ saw'[x].unit = unit[UnitOf(x)]
    BY <1>0, <1>4, Columns DEF ReadUnit, LetOf
  <2>3. ASSUME NEW k \in ActiveLeases, LeaseUnit[k] = UnitOf(x), unit[UnitOf(x)] # "OCCUPIED"
        PROVE  Excused(UnitOf(x))
    BY <2>3 DEF Lets, Occupied
  <2> HIDE DEF Excused, ActiveLeases
  <2>4. UnitSeen(x)' => \A k \in ActiveLeases' : LeaseUnit[k] = UnitOf(x) => Excused(UnitOf(x))'
    BY <1>1, <1>2, <2>1, <2>3 DEF UnitSeen
  <2> QED BY <2>1, <2>2, <2>4 DEF LetOf, UnitSeen, TenantSeen, UnitWritten, UnitOf
<1>5. CASE CheckActive(x)
  <2>1. /\ at[x] = "active" /\ at'[x] \in {"refused", "writeUnit"}
        /\ at'[x] = "writeUnit" => \A k \in ActiveLeases : LeaseTenant[k] # TenantOf(x)
        /\ saw' = saw /\ draft' = draft
    BY <1>5 DEF CheckActive, Goto, Typed
  <2> HIDE DEF Excused, ActiveLeases
  <2>2. \A k \in ActiveLeases' : LeaseUnit[k] = UnitOf(x) => Excused(UnitOf(x))'
    BY <1>0, <1>1, <1>2, <2>1 DEF LetOf, UnitSeen
  <2>3. saw'[x].lease = "NONE" /\ saw'[x].unit # "OCCUPIED"
    BY <1>0, <2>1 DEF LetOf, UnitSeen
  <2>4. at'[x] = "writeUnit" => \A k \in ActiveLeases' : LeaseTenant[k] # TenantOf(x)
    BY <1>1, <2>1
  <2> QED BY <2>1, <2>2, <2>3, <2>4 DEF LetOf, UnitSeen, TenantSeen, UnitWritten, UnitOf, TenantOf
<1>6. ASSUME WriteUnit(x) \/ WriteTenant(x) \/ WriteLease(x)
      PROVE  LetOf(x)'
  <2>1. at[x] \in {"writeUnit", "writeTenant", "writeLease"}
    BY <1>6 DEF WriteUnit, WriteTenant, WriteLease
  <2>2. UnitSeen(x) /\ TenantSeen(x)  BY <2>1 DEF UnitSeen, TenantSeen
  <2>3. saw' = saw  BY <1>6 DEF WriteUnit, WriteTenant, WriteLease
  <2>4. saw'[x].lease = "NONE" /\ saw'[x].unit # "OCCUPIED"  BY <1>0, <2>2, <2>3 DEF LetOf
  <2>5. \A k \in ActiveLeases' : LeaseUnit[k] = UnitOf(x) => Excused(UnitOf(x))'
    <3> HIDE DEF Excused, ActiveLeases
    <3> QED BY <1>0, <1>1, <1>2, <2>2 DEF LetOf
  <2>6. \A k \in ActiveLeases' : LeaseTenant[k] = TenantOf(x) => TenantOf(x) \in overlapped'
    <3> HIDE DEF Excused, ActiveLeases
    <3> QED BY <1>0, <1>1, <1>2, <2>2 DEF LetOf
  <2>7. draft'[x].unit = "OCCUPIED" /\ at'[x] \in {"writeTenant", "writeLease", "commit"}
    <3>1. CASE WriteUnit(x)
      <4>1. draft' = [draft EXCEPT ![x].unit = "OCCUPIED"]
        BY <1>0, <2>2, <3>1 DEF WriteUnit, NewUnit, LetOf
      <4> QED BY <3>1, <4>1, Columns DEF WriteUnit, Goto, Typed
    <3>2. CASE WriteTenant(x)
      <4>1. PICK v : draft' = [draft EXCEPT ![x].home = v]  BY <3>2 DEF WriteTenant
      <4>2. at[x] = "writeTenant" /\ at'[x] = "writeLease"  BY <3>2 DEF WriteTenant, Goto, Typed
      <4> QED BY <1>0, <4>1, <4>2, Columns DEF LetOf, UnitWritten
    <3>3. CASE WriteLease(x)
      <4>1. draft' = [draft EXCEPT ![x].lease = "ACTIVE"]  BY <1>0, <3>3 DEF WriteLease, LetOf
      <4>2. at[x] = "writeLease" /\ at'[x] = "commit"  BY <3>3 DEF WriteLease, Goto, Typed
      <4> QED BY <1>0, <4>1, <4>2, Columns DEF LetOf, UnitWritten
    <3> QED BY <1>6, <3>1, <3>2, <3>3
  <2>8. at'[x] = "commit" => draft'[x].lease = "ACTIVE"
    <3>1. CASE WriteUnit(x) \/ WriteTenant(x)
      BY <3>1 DEF WriteUnit, WriteTenant, Goto, Typed
    <3>2. CASE WriteLease(x)
      <4>1. draft' = [draft EXCEPT ![x].lease = "ACTIVE"]  BY <1>0, <3>2 DEF WriteLease, LetOf
      <4> QED BY <4>1, Columns
    <3> QED BY <1>6, <3>1, <3>2
  <2> HIDE DEF Excused, ActiveLeases
  <2>9. (LetOf(x))'
    BY <2>4, <2>5, <2>6, <2>7, <2>8 DEF LetOf, UnitSeen, TenantSeen, UnitWritten, UnitOf, TenantOf
  <2> QED BY <2>9
<1>7. CASE Commit(x)
  <2>1. CommitAll(x) /\ Forget(x) /\ at'[x] = "done"  BY <1>7 DEF Commit, Goto, Typed
  <2>2. saw'[x].lease = "NONE"
    <3> HIDE DEF Unseen
    <3> QED BY <2>1, Clean DEF Forget, Typed
  <2> QED BY <2>1, <2>2 DEF LetOf, UnitSeen, TenantSeen, UnitWritten
<1> QED
  BY <1>3, <1>4, <1>5, <1>6, <1>7, KindsAt DEF Step, ReadLease, ReadLeases, CheckBilled,
     CountInvoices, InsertInvoice, Send, Dispatch, LogAndCommit

\* A statement of a request that ends a lease.
LEMMA EndStep ==
  ASSUME Typed, Lets, NEW x \in Request, Step(x), UNCHANGED committed, Job[x].kind = "end"
  PROVE  EndOf(x)'
<1>0. EndOf(x) /\ Later /\ lease' = lease  BY StepIsLater DEF Lets, LetsOf, committed
<1>1. EndedBefore(x) => EndedBefore(x)'  BY <1>0, ExcusesStay
<1>2. LeaseSeen(x) => lease'[Job[x].lease] = "ACTIVE" \/ EndedBefore(x)'  BY <1>0, <1>1 DEF EndOf
<1>3. CASE ReadLease(x)
  <2>1. /\ at[x] = "lease" /\ draft' = draft /\ at'[x] \in {"refused", "unit"}
        /\ at'[x] = "unit" => lease[Job[x].lease] # "NONE"
        /\ saw' = [saw EXCEPT ![x].lease = lease[Job[x].lease]]
    BY <1>3 DEF ReadLease, Goto, Typed
  <2>2. saw'[x].lease = lease[Job[x].lease]  BY <2>1, Columns
  <2>3. lease[Job[x].lease] \in LeaseState  BY JobFacts DEF Typed
  <2>4. lease[Job[x].lease] = "TERMINATED" => EndedBefore(x)
    BY <2>1, JobFacts DEF Lets, EndedByOne, EndedAlready, EndedBefore, Others
  <2> HIDE DEF EndedBefore
  <2>5. at'[x] = "unit" => lease'[Job[x].lease] = "ACTIVE" \/ EndedBefore(x)'
    BY <1>0, <1>1, <2>1, <2>3, <2>4 DEF LeaseState
  <2>6. saw'[x].lease = "TERMINATED" => EndedBefore(x)'  BY <1>1, <2>2, <2>4
  <2> QED BY <1>0, <2>1, <2>5, <2>6 DEF EndOf, LeaseSeen
<1>4. CASE ReadTenant(x) \/ ReadUnit(x)
  <2>1. /\ at[x] \in {"unit", "tenant"} /\ draft' = draft /\ at'[x] \in {"tenant", "writeUnit"}
    BY <1>4 DEF ReadTenant, ReadUnit, Goto, Typed
  <2>2. saw'[x].lease = saw[x].lease  BY <1>4, Columns DEF ReadTenant, ReadUnit
  <2>3. LeaseSeen(x)  BY <2>1 DEF LeaseSeen
  <2> HIDE DEF EndedBefore
  <2> QED BY <1>0, <1>1, <1>2, <2>1, <2>2, <2>3 DEF EndOf
<1>5. CASE WriteUnit(x)
  <2>1. at[x] = "writeUnit" /\ at'[x] = "writeTenant" /\ saw' = saw
    BY <1>5 DEF WriteUnit, Goto, Typed
  <2>2. draft' = draft \/ draft' = [draft EXCEPT ![x].unit = "AVAILABLE"]
    BY <1>5 DEF WriteUnit, NewUnit
  <2>3. draft'[x].lease = draft[x].lease /\ draft'[x].unit \in {draft[x].unit, "AVAILABLE"}
    BY <2>2, Columns
  <2>4. LeaseSeen(x)  BY <2>1 DEF LeaseSeen
  <2> HIDE DEF EndedBefore
  <2> QED BY <1>0, <1>1, <1>2, <2>1, <2>3, <2>4 DEF EndOf
<1>6. CASE WriteTenant(x)
  <2>1. at[x] = "writeTenant" /\ at'[x] = "writeLease" /\ saw' = saw
    BY <1>6 DEF WriteTenant, Goto, Typed
  <2>2. PICK v : draft' = [draft EXCEPT ![x].home = v]  BY <1>6 DEF WriteTenant
  <2>3. draft'[x].lease = draft[x].lease /\ draft'[x].unit = draft[x].unit  BY <2>2, Columns
  <2>4. LeaseSeen(x)  BY <2>1 DEF LeaseSeen
  <2> HIDE DEF EndedBefore
  <2> QED BY <1>0, <1>1, <1>2, <2>1, <2>3, <2>4 DEF EndOf
<1>7. CASE WriteLease(x)
  <2>1. at[x] = "writeLease" /\ saw' = saw  BY <1>7 DEF WriteLease
  <2>2. \/ saw[x].lease = "TERMINATED" /\ draft' = draft
        \/ draft' = [draft EXCEPT ![x].lease = "TERMINATED"]
    BY <1>7 DEF WriteLease
  <2>3. /\ draft'[x].unit = draft[x].unit
        /\ \/ saw[x].lease = "TERMINATED" /\ draft'[x].lease = draft[x].lease
           \/ draft'[x].lease = "TERMINATED"
    BY <2>2, Columns
  <2>4. LeaseSeen(x)  BY <2>1 DEF LeaseSeen
  <2> HIDE DEF EndedBefore
  <2> QED BY <1>0, <1>1, <1>2, <2>1, <2>3, <2>4 DEF EndOf
<1>8. CASE Commit(x)
  <2>1. CommitAll(x) /\ Forget(x) /\ at'[x] = "done"  BY <1>8 DEF Commit, Goto, Typed
  <2>2. draft'[x] = NoDraft /\ saw'[x] = Unseen
    <3> HIDE DEF NoDraft, Unseen
    <3> QED BY <2>1 DEF CommitAll, Forget, Typed
  <2>3. draft'[x].lease = Same /\ draft'[x].unit = Same /\ saw'[x].lease = "NONE"  BY <2>2, Clean
  <2> QED BY <2>1, <2>3 DEF EndOf, LeaseSeen
<1> QED
  BY <1>3, <1>4, <1>5, <1>6, <1>7, <1>8, KindsAt DEF Step, CheckActive, ReadLeases, CheckBilled,
     CountInvoices, InsertInvoice, Send, Dispatch, LogAndCommit

\* A statement of a bill or a run writes no lease and no unit.
LEMMA BillStep ==
  ASSUME Typed, Lets, NEW x \in Request, Step(x), Job[x].kind \in {"run", "bill"}
  PROVE  BillOf(x)'
<1>0. BillOf(x)  BY DEF Lets, LetsOf
<1>1. CASE draft' = draft
  BY <1>0, <1>1 DEF BillOf
<1>2. CASE InsertInvoice(x)
  <2>1. CASE number[x] \in Numbers \cup OwnNumbers(x)
    <3>1. draft'[x] = NoDraft  BY <1>2, <2>1, RollbackClears DEF InsertInvoice
    <3> QED BY <3>1, Clean DEF BillOf
  <2>2. CASE number[x] \notin Numbers \cup OwnNumbers(x)
    <3>1. PICK v : draft' = [draft EXCEPT ![x].rows = v]  BY <1>2, <2>2 DEF InsertInvoice
    <3> QED BY <1>0, <3>1, Columns DEF BillOf
  <2> QED BY <2>1, <2>2
<1>3. CASE Send(x)
  <2>1. PICK v : draft' = [draft EXCEPT ![x].told = v]  BY <1>3 DEF Send
  <2> QED BY <1>0, <2>1, Columns DEF BillOf
<1>4. CASE Commit(x) \/ Dispatch(x) \/ LogAndCommit(x)
  <2>1. draft' = [draft EXCEPT ![x] = NoDraft]  BY <1>4 DEF Commit, Dispatch, LogAndCommit, CommitAll
  <2>2. draft'[x] = NoDraft
    <3> HIDE DEF NoDraft
    <3> QED BY <2>1 DEF Typed
  <2> QED BY <2>2, Clean DEF BillOf
<1> QED
  BY <1>1, <1>2, <1>3, <1>4, KindsAt DEF Step, ReadTenant, ReadUnit, CheckActive, ReadLease,
     WriteUnit, WriteTenant, WriteLease, ReadLeases, CheckBilled, CountInvoices

\* Two that let one unit, or to one tenant, at the same time are both excused.
LEMMA LettingTwo ==
  ASSUME NEW x \in Request, NEW y \in Others(x), Job[x].kind = "let", Job[y].kind = "let",
         at[x] = "commit", CommitAll(x)
  PROVE  /\ UnitSeen(y) /\ UnitOf(x) = UnitOf(y) => UnitOf(y) \in overlapped'
         /\ TenantSeen(y) /\ TenantOf(x) = TenantOf(y) => TenantOf(y) \in overlapped'
<1>1. Letting(x) = {TenantOf(x), UnitOf(x)}  BY DEF Letting
<1>2. UnitSeen(y) \/ TenantSeen(y) => Letting(y) = {TenantOf(y), UnitOf(y)}
  BY DEF Letting, UnitSeen, TenantSeen
<1>3. Letting(x) \cap Letting(y) \subseteq Overlaps(x)  BY DEF Overlaps
<1>4. Overlaps(x) \subseteq overlapped'  BY DEF CommitAll
<1> QED BY <1>1, <1>2, <1>3, <1>4

\* What the commit of a lease does to the tables.
LEMMA LetWrites ==
  ASSUME Typed, NEW x \in Request, LetOf(x), at[x] = "commit", CommitAll(x)
  PROVE  /\ lease' = [lease EXCEPT ![Job[x].lease] = "ACTIVE"]
         /\ unit' = [unit EXCEPT ![UnitOf(x)] = "OCCUPIED"]
         /\ ActiveLeases' = ActiveLeases \cup {Job[x].lease}
<1>1. draft[x].lease = "ACTIVE" /\ draft[x].unit = "OCCUPIED"
  BY DEF LetOf, UnitWritten
<1>2. \A v : Written(v, "ACTIVE") = "ACTIVE" /\ Written(v, "OCCUPIED") = "OCCUPIED"
  BY DEF Written, Same, Kept
<1>3. /\ lease' = [lease EXCEPT ![Job[x].lease] = "ACTIVE"]
      /\ unit' = [unit EXCEPT ![UnitOf(x)] = "OCCUPIED"]
  BY <1>1, <1>2 DEF CommitAll
<1> QED BY <1>3, JobFacts DEF ActiveLeases, Typed

LEMMA CommitLet ==
  ASSUME IInv, Lets, NEW x \in Request, Commit(x), Job[x].kind = "let"
  PROVE  Lets'
<1> DEFINE l == Job[x].lease  u == UnitOf(x)
<1>0. Typed /\ LetsOf(x) /\ LetOf(x) /\ Step(x)  BY DEF IInv, Lets, LetsOf, Step
<1>1. /\ at[x] = "commit" /\ CommitAll(x) /\ Forget(x) /\ at'[x] = "done"
  BY <1>0 DEF Commit, Goto, Typed
<1>2. /\ lease' = [lease EXCEPT ![l] = "ACTIVE"] /\ unit' = [unit EXCEPT ![u] = "OCCUPIED"]
      /\ ActiveLeases' = ActiveLeases \cup {l}
  BY <1>0, <1>1, LetWrites
<1>3. Later /\ \A v : Excused(v) => Excused(v)'  BY <1>0, StepIsLater, ExcusesStay
<1>4. /\ \A k \in ActiveLeases : LeaseUnit[k] = u => Excused(u)
      /\ \A k \in ActiveLeases : LeaseTenant[k] = TenantOf(x) => TenantOf(x) \in overlapped
  BY <1>0, <1>1 DEF LetOf, UnitSeen, TenantSeen
<1>5. LeaseUnit[l] = u /\ LeaseTenant[l] = TenantOf(x) /\ l \in Lease /\ u \in Unit
  BY JobFacts DEF UnitOf, TenantOf
<1>6. LetOnce'
  <2> SUFFICES ASSUME NEW j \in ActiveLeases', NEW k \in ActiveLeases', j # k
               PROVE  /\ LeaseUnit[j] = LeaseUnit[k] => Excused(LeaseUnit[k])'
                      /\ LeaseTenant[j] = LeaseTenant[k] => LeaseTenant[k] \in overlapped'
    BY DEF LetOnce, Excused
  <2>1. CASE j \in ActiveLeases /\ k \in ActiveLeases
    <3>1. /\ LeaseUnit[j] = LeaseUnit[k] => Excused(LeaseUnit[k])
          /\ LeaseTenant[j] = LeaseTenant[k] => LeaseTenant[k] \in overlapped
      BY <2>1 DEF Lets, LetOnce, Excused
    <3> HIDE DEF Excused
    <3> QED BY <1>3, <3>1 DEF Later
  <2>2. CASE j = l /\ k \in ActiveLeases
    <3> HIDE DEF Excused, ActiveLeases
    <3> QED BY <1>3, <1>4, <1>5, <2>2 DEF Later
  <2>3. CASE k = l /\ j \in ActiveLeases
    <3> HIDE DEF Excused, ActiveLeases
    <3> QED BY <1>3, <1>4, <1>5, <2>3 DEF Later
  <2> QED BY <1>2, <2>1, <2>2, <2>3
<1>7. Occupied'
  <2> SUFFICES ASSUME NEW k \in ActiveLeases'
               PROVE  unit'[LeaseUnit[k]] = "OCCUPIED" \/ Excused(LeaseUnit[k])'
    BY DEF Occupied
  <2>1. CASE LeaseUnit[k] = u  BY <1>0, <1>2, <1>5, <2>1 DEF Typed
  <2>2. CASE LeaseUnit[k] # u
    <3>1. k \in ActiveLeases /\ unit'[LeaseUnit[k]] = unit[LeaseUnit[k]]
      <4>1. k \in ActiveLeases  BY <1>2, <1>5, <2>2
      <4>2. LeaseUnit[k] \in Unit  BY <4>1, IssuingAssumption DEF ActiveLeases
      <4> QED BY <1>0, <1>2, <2>2, <4>1, <4>2 DEF Typed
    <3>2. unit[LeaseUnit[k]] = "OCCUPIED" \/ Excused(LeaseUnit[k])  BY <3>1 DEF Lets, Occupied
    <3> HIDE DEF Excused
    <3> QED BY <1>3, <3>1, <3>2
  <2> QED BY <2>1, <2>2
<1>8. EndedByOne'
  <2> SUFFICES ASSUME NEW k \in Lease, lease'[k] = "TERMINATED" PROVE EndedAlready(k)'
    BY DEF EndedByOne
  <2>1. lease[k] = "TERMINATED"  BY <1>0, <1>2, <1>5 DEF Typed
  <2>2. EndedAlready(k)  BY <2>1 DEF Lets, EndedByOne
  <2> QED BY <1>3, <2>2, ExcusesStay
<1>9. ASSUME NEW y \in Others(x) PROVE LetsOf(y)'
  <2>1. y \in Request /\ y # x /\ SameFor(y) /\ LetsOf(y)
    BY <1>0, OthersRest DEF Others, Lets
  <2>2. /\ at'[y] = at[y] /\ saw'[y] = saw[y] /\ draft'[y] = draft[y]  BY <2>1 DEF SameFor
  <2>3. ASSUME Job[y].kind = "let" PROVE LetOf(y)'
    <3>1. LetOf(y)  BY <2>1, <2>3 DEF LetsOf
    <3>2. UnitSeen(y) => \A k \in ActiveLeases' : LeaseUnit[k] = UnitOf(y) => Excused(UnitOf(y))'
      <4> SUFFICES ASSUME UnitSeen(y), NEW k \in ActiveLeases', LeaseUnit[k] = UnitOf(y)
                   PROVE  Excused(UnitOf(y))'
        OBVIOUS
      <4>1. CASE k \in ActiveLeases
        <5>1. Excused(UnitOf(y))  BY <3>1, <4>1 DEF LetOf
        <5> HIDE DEF Excused
        <5> QED BY <1>3, <5>1 DEF UnitOf
      <4>2. CASE k = l
        <5>1. UnitOf(y) \in overlapped'  BY <1>0, <1>1, <1>5, <2>3, <4>2, LettingTwo
        <5> QED BY <5>1 DEF Excused, UnitOf
      <4> QED BY <1>2, <4>1, <4>2
    <3>3. TenantSeen(y) =>
            \A k \in ActiveLeases' : LeaseTenant[k] = TenantOf(y) => TenantOf(y) \in overlapped'
      <4> SUFFICES ASSUME TenantSeen(y), NEW k \in ActiveLeases', LeaseTenant[k] = TenantOf(y)
                   PROVE  TenantOf(y) \in overlapped'
        OBVIOUS
      <4>1. CASE k \in ActiveLeases
        BY <1>3, <3>1, <4>1 DEF LetOf, Later
      <4>2. CASE k = l
        BY <1>0, <1>1, <1>5, <2>3, <4>2, LettingTwo
      <4> QED BY <1>2, <4>1, <4>2
    <3> HIDE DEF Excused, ActiveLeases
    <3> QED BY <2>2, <3>1, <3>2, <3>3 DEF LetOf, UnitSeen, TenantSeen, UnitWritten, UnitOf, TenantOf
  <2>4. ASSUME Job[y].kind = "end" PROVE EndOf(y)'
    <3>1. EndOf(y)  BY <2>1, <2>4 DEF LetsOf
    <3>2. EndedBefore(y) => EndedBefore(y)'  BY <1>3, ExcusesStay
    <3>3. lease[Job[y].lease] = "ACTIVE" => lease'[Job[y].lease] = "ACTIVE"
      BY <1>0, <1>2, <2>1, JobFacts DEF Typed
    <3> HIDE DEF EndedBefore
    <3> QED BY <2>2, <3>1, <3>2, <3>3 DEF EndOf, LeaseSeen
  <2>5. ASSUME Job[y].kind \in {"run", "bill"} PROVE BillOf(y)'
    BY <2>1, <2>2, <2>5 DEF LetsOf, BillOf
  <2> QED BY <2>3, <2>4, <2>5 DEF LetsOf
<1>10. LetsOf(x)'
  <2>1. draft'[x] = NoDraft /\ saw'[x] = Unseen
    <3> HIDE DEF NoDraft, Unseen
    <3> QED BY <1>0, <1>1 DEF CommitAll, Forget, Typed
  <2>2. ~UnitSeen(x)' /\ ~LeaseSeen(x)'  BY <1>1 DEF UnitSeen, LeaseSeen
  <2>3. draft'[x].lease = Same /\ draft'[x].unit = Same /\ saw'[x].lease = "NONE"  BY <2>1, Clean
  <2>4. ~TenantSeen(x)' /\ ~UnitWritten(x)' /\ at'[x] # "commit"
    BY <1>1 DEF TenantSeen, UnitWritten
  <2> QED BY <2>2, <2>3, <2>4 DEF LetsOf, LetOf, EndOf, BillOf
<1> QED BY <1>6, <1>7, <1>8, <1>9, <1>10 DEF Lets, Others

\* What the commit of an end does: the lease is not ACTIVE any more, or it was
\* ended by another request before, and the unit may be free.
LEMMA EndWrites ==
  ASSUME Typed, NEW x \in Request, EndOf(x), at[x] = "commit", CommitAll(x)
  PROVE  /\ \/ lease' = [lease EXCEPT ![Job[x].lease] = "TERMINATED"]
            \/ lease' = lease /\ EndedBefore(x)
         /\ unit' \in {unit, [unit EXCEPT ![UnitOf(x)] = "AVAILABLE"]}
         /\ ActiveLeases' \subseteq ActiveLeases
<1>1. /\ draft[x].lease = "TERMINATED" \/ (draft[x].lease = Same /\ EndedBefore(x))
      /\ draft[x].unit \in {Same, "AVAILABLE"}
  <2> HIDE DEF EndedBefore
  <2> QED BY DEF EndOf
<1>2. /\ \A v : Written(v, Same) = v /\ Written(v, "TERMINATED") = "TERMINATED"
      /\ \A v : Written(v, "AVAILABLE") = "AVAILABLE"
  BY DEF Written, Same, Kept
<1>3. PICK k, u : k = Job[x].lease /\ u = UnitOf(x)  OBVIOUS
<1>4. /\ lease' = [lease EXCEPT ![k] = Written(lease[k], draft[x].lease)]
      /\ unit' = [unit EXCEPT ![u] = Written(unit[u], draft[x].unit)]
      /\ [lease EXCEPT ![k] = lease[k]] = lease /\ [unit EXCEPT ![u] = unit[u]] = unit
  BY <1>3, JobFacts DEF CommitAll, Typed
<1> HIDE DEF EndedBefore, Same, Written
<1>5. \/ lease' = [lease EXCEPT ![Job[x].lease] = "TERMINATED"]
      \/ lease' = lease /\ EndedBefore(x)
  <2>1. CASE draft[x].lease = "TERMINATED"
    <3>1. Written(lease[k], draft[x].lease) = "TERMINATED"  BY <1>2, <2>1
    <3> QED BY <1>3, <1>4, <3>1
  <2>2. CASE draft[x].lease = Same /\ EndedBefore(x)
    <3>1. Written(lease[k], draft[x].lease) = lease[k]  BY <1>2, <2>2
    <3> QED BY <1>4, <2>2, <3>1
  <2> QED BY <1>1, <2>1, <2>2
<1>6. unit' \in {unit, [unit EXCEPT ![UnitOf(x)] = "AVAILABLE"]}
  <2>1. CASE draft[x].unit = "AVAILABLE"
    <3>1. Written(unit[u], draft[x].unit) = "AVAILABLE"  BY <1>2, <2>1
    <3> QED BY <1>3, <1>4, <3>1
  <2>2. CASE draft[x].unit = Same
    <3>1. Written(unit[u], draft[x].unit) = unit[u]  BY <1>2, <2>2
    <3> QED BY <1>4, <3>1
  <2> QED BY <1>1, <2>1, <2>2
<1>7. ActiveLeases' \subseteq ActiveLeases
  BY <1>5, JobFacts DEF ActiveLeases, Typed
<1> QED BY <1>5, <1>6, <1>7

LEMMA CommitEnd ==
  ASSUME IInv, Lets, NEW x \in Request, Commit(x), Job[x].kind = "end"
  PROVE  Lets'
<1> DEFINE l == Job[x].lease  u == UnitOf(x)
<1>0. Typed /\ LetsOf(x) /\ EndOf(x) /\ Step(x)  BY DEF IInv, Lets, LetsOf, Step
<1>1. /\ at[x] = "commit" /\ CommitAll(x) /\ Forget(x) /\ at'[x] = "done"
  BY <1>0 DEF Commit, Goto, Typed
<1>2. /\ \/ lease' = [lease EXCEPT ![l] = "TERMINATED"]
         \/ lease' = lease /\ EndedBefore(x)
      /\ unit' \in {unit, [unit EXCEPT ![u] = "AVAILABLE"]}
      /\ ActiveLeases' \subseteq ActiveLeases
  BY <1>0, <1>1, EndWrites
<1>3. Later /\ \A v : Excused(v) => Excused(v)'  BY <1>0, StepIsLater, ExcusesStay
<1>4. LeaseUnit[l] = u /\ l \in Lease /\ u \in Unit  BY JobFacts DEF UnitOf
<1>5. EndedBefore(x) => Excused(u)'
  <2> SUFFICES ASSUME EndedBefore(x) PROVE EndedAgain(u)'  BY DEF Excused
  <2>1. PICK z \in Others(x) : Job[z].kind = "end" /\ Job[z].lease = l /\ at[z] = "done"
    BY DEF EndedBefore
  <2>2. z \in Request /\ z # x /\ at'[z] = "done"  BY <1>3, <2>1 DEF Others, Later, DoneStays
  <2>3. UnitOf(z) = u  BY <2>1 DEF UnitOf
  <2> QED BY <1>1, <2>1, <2>2, <2>3 DEF EndedAgain
<1>6. LetOnce'
  <2> SUFFICES ASSUME NEW j \in ActiveLeases', NEW k \in ActiveLeases', j # k
               PROVE  /\ LeaseUnit[j] = LeaseUnit[k] => Excused(LeaseUnit[k])'
                      /\ LeaseTenant[j] = LeaseTenant[k] => LeaseTenant[k] \in overlapped'
    BY DEF LetOnce, Excused
  <2>1. /\ LeaseUnit[j] = LeaseUnit[k] => Excused(LeaseUnit[k])
        /\ LeaseTenant[j] = LeaseTenant[k] => LeaseTenant[k] \in overlapped
    BY <1>2 DEF Lets, LetOnce, Excused
  <2> HIDE DEF Excused
  <2> QED BY <1>3, <2>1 DEF Later
<1>7. Occupied'
  <2> SUFFICES ASSUME NEW k \in ActiveLeases'
               PROVE  unit'[LeaseUnit[k]] = "OCCUPIED" \/ Excused(LeaseUnit[k])'
    BY DEF Occupied
  <2>1. k \in ActiveLeases /\ k \in Lease  BY <1>2 DEF ActiveLeases
  <2>2. LeaseUnit[k] \in Unit  BY <2>1, IssuingAssumption
  <2>3. unit[LeaseUnit[k]] = "OCCUPIED" \/ Excused(LeaseUnit[k])  BY <2>1 DEF Lets, Occupied
  <2>4. CASE LeaseUnit[k] # u
    <3>1. unit'[LeaseUnit[k]] = unit[LeaseUnit[k]]  BY <1>0, <1>2, <2>2, <2>4 DEF Typed
    <3> HIDE DEF Excused
    <3> QED BY <1>3, <2>3, <3>1
  <2>5. CASE LeaseUnit[k] = u
    <3>1. CASE EndedBefore(x)
      <4> HIDE DEF Excused
      <4> QED BY <1>5, <2>5, <3>1
    <3>2. CASE ~EndedBefore(x)
      <4>1. lease[l] = "ACTIVE"
        <5> HIDE DEF EndedBefore
        <5> QED BY <1>0, <1>1, <3>2 DEF EndOf, LeaseSeen
      <4>2. lease'[l] = "TERMINATED"
        <5> HIDE DEF EndedBefore
        <5> QED BY <1>0, <1>2, <1>4, <3>2 DEF Typed
      <4>3. k # l /\ l \in ActiveLeases  BY <1>4, <4>1, <4>2 DEF ActiveLeases
      <4>4. Excused(u)
        <5>1. LeaseUnit[l] = LeaseUnit[k]  BY <1>4, <2>5
        <5> QED BY <1>4, <2>1, <2>5, <4>3, <5>1 DEF Lets, LetOnce, Excused
      <4> HIDE DEF Excused
      <4> QED BY <1>3, <2>5, <4>4
    <3> QED BY <3>1, <3>2
  <2> QED BY <2>4, <2>5
<1>8. EndedByOne'
  <2> SUFFICES ASSUME NEW k \in Lease, lease'[k] = "TERMINATED" PROVE EndedAlready(k)'
    BY DEF EndedByOne
  <2>1. CASE k = l  BY <1>1, <2>1 DEF EndedAlready
  <2>2. CASE k # l
    <3>1. lease[k] = "TERMINATED"
      <4> HIDE DEF EndedBefore
      <4> QED BY <1>0, <1>2, <2>2 DEF Typed
    <3>2. EndedAlready(k)  BY <3>1 DEF Lets, EndedByOne
    <3> QED BY <1>3, <3>2, ExcusesStay
  <2> QED BY <2>1, <2>2
<1>9. ASSUME NEW y \in Others(x) PROVE LetsOf(y)'
  <2>1. y \in Request /\ y # x /\ SameFor(y) /\ LetsOf(y)
    BY <1>0, OthersRest DEF Others, Lets
  <2>2. /\ at'[y] = at[y] /\ saw'[y] = saw[y] /\ draft'[y] = draft[y]  BY <2>1 DEF SameFor
  <2>3. ASSUME Job[y].kind = "let" PROVE LetOf(y)'
    <3>1. LetOf(y)  BY <2>1, <2>3 DEF LetsOf
    <3>2. /\ Excused(UnitOf(y)) => Excused(UnitOf(y))'
          /\ TenantOf(y) \in overlapped => TenantOf(y) \in overlapped'
      BY <1>3, ExcusesStay DEF Later
    <3> HIDE DEF Excused, ActiveLeases
    <3> QED BY <1>2, <2>2, <3>1, <3>2 DEF LetOf, UnitSeen, TenantSeen, UnitWritten, UnitOf, TenantOf
  <2>4. ASSUME Job[y].kind = "end" PROVE EndOf(y)'
    <3>1. EndOf(y)  BY <2>1, <2>4 DEF LetsOf
    <3>2. EndedBefore(y) => EndedBefore(y)'  BY <1>3, ExcusesStay
    <3>3. Job[y].lease = l => EndedBefore(y)'
      <4>1. x \in Others(y)  BY <2>1 DEF Others
      <4> QED BY <1>1, <4>1 DEF EndedBefore, Others
    <3>4. Job[y].lease # l => lease'[Job[y].lease] = lease[Job[y].lease]
      <4> HIDE DEF EndedBefore
      <4> QED BY <1>0, <1>2, <2>1, JobFacts DEF Typed
    <3> HIDE DEF EndedBefore
    <3> QED BY <2>2, <3>1, <3>2, <3>3, <3>4 DEF EndOf, LeaseSeen
  <2>5. ASSUME Job[y].kind \in {"run", "bill"} PROVE BillOf(y)'
    BY <2>1, <2>2, <2>5 DEF LetsOf, BillOf
  <2> QED BY <2>3, <2>4, <2>5 DEF LetsOf
<1>10. LetsOf(x)'
  <2>1. draft'[x] = NoDraft /\ saw'[x] = Unseen
    <3> HIDE DEF NoDraft, Unseen
    <3> QED BY <1>0, <1>1 DEF CommitAll, Forget, Typed
  <2>2. ~UnitSeen(x)' /\ ~LeaseSeen(x)'  BY <1>1 DEF UnitSeen, LeaseSeen
  <2>3. draft'[x].lease = Same /\ draft'[x].unit = Same /\ saw'[x].lease = "NONE"  BY <2>1, Clean
  <2>4. ~TenantSeen(x)' /\ ~UnitWritten(x)' /\ at'[x] # "commit"
    BY <1>1 DEF TenantSeen, UnitWritten
  <2> QED BY <2>2, <2>3, <2>4 DEF LetsOf, LetOf, EndOf, BillOf
<1> QED BY <1>6, <1>7, <1>8, <1>9, <1>10 DEF Lets, Others

\* The commit of a bill or a run, and every step that commits nothing.
LEMMA CommitBill ==
  ASSUME IInv, Lets, NEW x \in Request, Step(x), CommitAll(x), Job[x].kind \in {"run", "bill"}
  PROVE  Lets'
<1>1. Typed /\ BillOf(x)  BY DEF IInv, Lets, LetsOf
<1>2. lease' = lease /\ unit' = unit
  <2>1. PICK k, u : k = Job[x].lease /\ u = UnitOf(x)  OBVIOUS
  <2>2. /\ lease' = [lease EXCEPT ![k] = Written(lease[k], Same)]
        /\ unit' = [unit EXCEPT ![u] = Written(unit[u], Same)]
        /\ [lease EXCEPT ![k] = lease[k]] = lease /\ [unit EXCEPT ![u] = unit[u]] = unit
    BY <1>1, <2>1, JobFacts DEF CommitAll, Typed, BillOf
  <2>3. Written(lease[k], Same) = lease[k] /\ Written(unit[u], Same) = unit[u]
    BY DEF Written
  <2> QED BY <2>2, <2>3
<1>3. Later  BY <1>1, StepIsLater
<1>4. LetOnce' /\ Occupied' /\ EndedByOne'  BY <1>2, <1>3, TablesOfLets DEF Lets
<1>5. LetsOf(x)'  BY <1>1, BillStep DEF LetsOf
<1>6. \A y \in Others(x) : LetsOf(y)'
  BY <1>1, <1>2, <1>3, OthersRest, LetsElsewhere DEF Others, Lets
<1> QED BY <1>4, <1>5, <1>6 DEF Lets, Others

LEMMA LetsRest ==
  ASSUME IInv, Lets, NEW x \in Request, Step(x) \/ Crash(x), UNCHANGED committed
  PROVE  Lets'
<1>1. Typed  BY DEF IInv
<1>2. Later /\ lease' = lease /\ unit' = unit  BY <1>1, StepIsLater DEF committed
<1>3. LetOnce' /\ Occupied' /\ EndedByOne'  BY <1>2, TablesOfLets DEF Lets
<1>4. \A y \in Others(x) : LetsOf(y)'
  BY <1>1, <1>2, OthersRest, LetsElsewhere DEF Others, Lets
<1>5. CASE Step(x)
  <2>1. LetsOf(x)'
    BY <1>1, <1>5, LetStep, EndStep, BillStep DEF LetsOf
  <2> QED BY <1>3, <1>4, <2>1 DEF Lets, Others
<1>6. CASE Crash(x)
  <2>1. Rollback(x, "crashed")  BY <1>6 DEF Crash
  <2>2. draft'[x] = NoDraft /\ saw'[x] = Unseen /\ at'[x] = "crashed"
    BY <1>1, <2>1, RollbackClears
  <2>3. LetsOf(x)'
    <3>1. draft'[x].lease = Same /\ draft'[x].unit = Same /\ saw'[x].lease = "NONE"
      BY <2>2, Clean
    <3>2. ~UnitSeen(x)' /\ ~LeaseSeen(x)' /\ ~TenantSeen(x)' /\ ~UnitWritten(x)'
      BY <2>2 DEF UnitSeen, LeaseSeen, TenantSeen, UnitWritten
    <3> QED BY <2>2, <3>1, <3>2 DEF LetsOf, LetOf, EndOf, BillOf
  <2> QED BY <1>3, <1>4, <2>3 DEF Lets, Others
<1> QED BY <1>5, <1>6

LEMMA LetsNext == IInv /\ Lets /\ [Next]_vars => Lets'
<1> SUFFICES ASSUME IInv, Lets, [Next]_vars PROVE Lets'  OBVIOUS
<1>1. CASE UNCHANGED vars
  <2>1. /\ lease' = lease /\ unit' = unit /\ Later /\ \A y \in Request : SameFor(y)
    BY <1>1 DEF vars, Later, DoneStays, SameFor
  <2> QED BY <2>1, LetsElsewhere, TablesOfLets DEF Lets
<1>2. CASE Next
  <2>1. PICK x \in Request : Step(x) \/ Crash(x)  BY <1>2 DEF Next
  <2>2. CASE UNCHANGED committed  BY <2>1, <2>2, LetsRest
  <2>3. CASE Commit(x)
    <3>1. Job[x].kind \in {"let", "end"}  BY <2>3, KindsAt DEF IInv, Commit
    <3> QED BY <2>3, <3>1, CommitLet, CommitEnd
  <2>4. CASE Dispatch(x) \/ LogAndCommit(x)
    <3>1. Job[x].kind \in {"run", "bill"} /\ Step(x) /\ CommitAll(x)
      BY <2>4, KindsAt DEF IInv, Dispatch, LogAndCommit, Step
    <3> QED BY <3>1, CommitBill
  <2> QED BY <2>1, <2>2, <2>3, <2>4, TablesRest
<1> QED BY <1>1, <1>2

LEMMA LetsInit == Init => Lets
<1> SUFFICES ASSUME Init PROVE Lets  OBVIOUS
<1>1. ActiveLeases = Signed /\ \A l \in Lease : lease[l] # "TERMINATED"
  BY IssuingAssumption DEF Init, ActiveLeases
<1>2. \A l \in Signed : LeaseTenant[l] \in Tenant /\ LeaseUnit[l] \in Unit
  BY IssuingAssumption
<1>3. LetOnce
  <2> SUFFICES ASSUME NEW k \in Signed, NEW l \in Signed, k # l
               PROVE  LeaseUnit[k] # LeaseUnit[l] /\ LeaseTenant[k] # LeaseTenant[l]
    BY <1>1 DEF LetOnce
  <2> QED BY LettingAssumption
<1>4. Occupied  BY <1>1, <1>2 DEF Init, Occupied
<1>5. EndedByOne  BY <1>1 DEF EndedByOne
<1>6. ASSUME NEW x \in Request PROVE LetsOf(x)
  <2>1. draft[x] = NoDraft /\ saw[x] = Unseen
    <3> HIDE DEF NoDraft, Unseen
    <3> QED BY DEF Init
  <2>2. at[x] \in {"absent", First(x)}  BY DEF Init
  <2>3. ~UnitSeen(x) /\ (Job[x].kind = "end" => ~LeaseSeen(x))
    BY <2>2 DEF UnitSeen, LeaseSeen, First
  <2>4. draft[x].lease = Same /\ draft[x].unit = Same /\ saw[x].lease = "NONE"  BY <2>1, Clean
  <2>5. ~TenantSeen(x) /\ ~UnitWritten(x) /\ at[x] # "commit"
    BY <2>3 DEF UnitSeen, TenantSeen, UnitWritten
  <2> QED BY <2>3, <2>4, <2>5 DEF LetsOf, LetOf, EndOf, BillOf
<1> QED BY <1>3, <1>4, <1>5, <1>6 DEF Lets

----------------------------------------------------------------------------
(* Mails.                                                                  *)

OnBooksAs(m) == m.number \in Numbers /\ invoices[m.number] = m.row
InSession(m) ==
  LET x == m.row.by IN
  at[x] = "dispatch" /\ m.number \in OwnNumbers(x) /\ draft[x].rows[m.number] = m.row
Mailed(m) == m.row.by \in Request /\ (OnBooksAs(m) \/ InSession(m) \/ at[m.row.by] = "crashed")
Biller(x) == x \in Request /\ Job[x].kind \in {"run", "bill"}

Mails ==
  /\ \A m \in mails : Mailed(m)
  /\ \A n \in Numbers : Biller(invoices[n].by)
  /\ \A x \in Request : OwnNumbers(x) # {} => Biller(x)
  /\ \A n \in Numbers :
       at[invoices[n].by] = "done" /\ invoices[n].tenant \in HasEmail => n \in told

\* Only an invoice, a commit or a rollback changes the rows of a session.
LEMMA RowsRest ==
  ASSUME Typed, NEW x \in Request, Step(x), ~Commit(x), ~Dispatch(x), ~LogAndCommit(x),
         ~InsertInvoice(x)
  PROVE  draft'[x].rows = draft[x].rows
<1>1. draft \in [Request -> Draft]  BY DEF Typed
<1>2. CASE draft' = draft  BY <1>2
<1>3. CASE WriteUnit(x) \/ WriteTenant(x) \/ WriteLease(x) \/ Send(x)
  <2>1. \/ draft' = draft
        \/ \E v : draft' = [draft EXCEPT ![x].unit = v]
        \/ \E v : draft' = [draft EXCEPT ![x].home = v]
        \/ \E v : draft' = [draft EXCEPT ![x].lease = v]
        \/ \E v : draft' = [draft EXCEPT ![x].told = v]
    BY <1>3 DEF WriteUnit, WriteTenant, WriteLease, Send
  <2> QED BY <1>1, <2>1 DEF Draft
<1> QED
  BY <1>2, <1>3 DEF Step, ReadTenant, ReadUnit, CheckActive, ReadLease, ReadLeases, CheckBilled,
     CountInvoices

\* Where a step that commits nothing leads.
LEMMA AtRest ==
  ASSUME Typed, NEW x \in Request, Step(x), ~Commit(x), ~Dispatch(x), ~LogAndCommit(x)
  PROVE  at[x] \notin {"dispatch", "crashed"} /\ at'[x] # "done"
  BY DEF Step, ReadTenant, ReadUnit, CheckActive, ReadLease, WriteUnit, WriteTenant, WriteLease,
     ReadLeases, CheckBilled, CountInvoices, InsertInvoice, Rollback, AfterInsert, Send, Goto, Typed

\* A mail stays right if its request has not gone on from its dispatch.
LEMMA MailedStays ==
  ASSUME NEW x \in Request, UNCHANGED committed, \A y \in Others(x) : SameFor(y),
         at[x] \notin {"dispatch", "crashed"} \/ at'[x] = "crashed",
         NEW m, Mailed(m)
  PROVE  Mailed(m)'
<1>1. Numbers' = Numbers /\ invoices' = invoices  BY DEF Numbers, committed
<1>2. CASE m.row.by = x
  BY <1>1, <1>2 DEF Mailed, OnBooksAs, InSession
<1>3. CASE m.row.by # x
  <2>1. m.row.by \in Request => SameFor(m.row.by)  BY <1>3 DEF Others
  <2> QED BY <1>1, <2>1 DEF Mailed, OnBooksAs, InSession, SameFor, OwnNumbers
<1> QED BY <1>2, <1>3

LEMMA NewMail ==
  ASSUME NEW x \in Request, NEW k, NEW r, r.by = x,
         \/ k \in Numbers' /\ invoices'[k] = r
         \/ at'[x] = "dispatch" /\ k \in OwnNumbers(x)' /\ draft'[x].rows[k] = r
  PROVE  Mailed([number |-> k, row |-> r])'
  BY DEF Mailed, OnBooksAs, InSession

LEMMA MailsRest ==
  ASSUME IInv, Mails, NEW x \in Request, Step(x) \/ Crash(x),
         ~Commit(x), ~Dispatch(x), ~LogAndCommit(x)
  PROVE  Mails'
<1>1. Typed /\ UNCHANGED committed /\ \A y \in Others(x) : SameFor(y)
  BY OthersRest, TablesRest DEF IInv
<1>2. Numbers' = Numbers /\ invoices' = invoices /\ told' = told
  BY <1>1 DEF Numbers, committed
<1>3. \/ at[x] \notin {"dispatch", "crashed"} /\ at'[x] # "done" /\ Step(x)
      \/ at'[x] = "crashed" /\ OwnNumbers(x)' = {} /\ mails' = mails
  <2>1. CASE Step(x)  BY <1>1, <2>1, AtRest
  <2>2. CASE Crash(x)  BY <1>1, <2>2, RollbackClears DEF Crash
  <2> QED BY <2>1, <2>2
<1>4. \A m : Mailed(m) => Mailed(m)'  BY <1>1, <1>3, MailedStays
<1>5. \A m \in mails' : Mailed(m)'
  <2>1. CASE mails' = mails
    <3> HIDE DEF Mailed
    <3> QED BY <1>4, <2>1 DEF Mails
  <2>2. CASE Send(x)
    <3>1. PICK n \in ToTell(x) :
            /\ draft' = [draft EXCEPT ![x].told = {n}]
            /\ mails' \in {mails, mails \cup {[number |-> n, row |-> Row(x, n)]}}
      BY <2>2 DEF Send
    <3>2. draft'[x].rows = draft[x].rows
      <4>1. draft \in [Request -> Draft]  BY <1>1 DEF Typed
      <4> QED BY <3>1, <4>1 DEF Draft
    <3>3. at'[x] = "dispatch"  BY <1>1, <2>2 DEF Send, Goto, Typed
    <3>4. PICK k, r : k = n /\ r = Row(x, n)  OBVIOUS
    <3>5. r.by = x /\ (n \in Numbers \/ n \in OwnNumbers(x))  BY <3>4 DEF ToTell
    <3>6. \/ k \in Numbers' /\ invoices'[k] = r
          \/ at'[x] = "dispatch" /\ k \in OwnNumbers(x)' /\ draft'[x].rows[k] = r
      BY <1>2, <3>2, <3>3, <3>4, <3>5 DEF Row, OwnNumbers
    <3>7. Mailed([number |-> k, row |-> r])'  BY <3>5, <3>6, NewMail
    <3>8. mails' \subseteq mails \cup {[number |-> k, row |-> r]}  BY <3>1, <3>4
    <3> HIDE DEF Mailed
    <3> QED BY <1>4, <3>7, <3>8 DEF Mails
  <2> QED
    BY <1>3, <2>1, <2>2 DEF Step, ReadTenant, ReadUnit, CheckActive, ReadLease, WriteUnit,
       WriteTenant, WriteLease, ReadLeases, CheckBilled, CountInvoices, InsertInvoice
<1>6. \A n \in Numbers' : Biller(invoices'[n].by)  BY <1>2 DEF Mails
<1>7. ASSUME NEW y \in Request, OwnNumbers(y)' # {} PROVE Biller(y)
  <2>1. CASE y # x
    <3>1. OwnNumbers(y)' = OwnNumbers(y)  BY <1>1, <2>1 DEF Others, SameFor, OwnNumbers
    <3> QED BY <1>7, <3>1 DEF Mails
  <2>2. CASE y = x /\ InsertInvoice(x)  BY <1>1, <2>2, KindsAt DEF InsertInvoice, Biller
  <2>3. CASE y = x /\ ~InsertInvoice(x)
    <3>1. Step(x)  BY <1>3, <1>7, <2>3
    <3>2. OwnNumbers(x)' = OwnNumbers(x)  BY <1>1, <2>3, <3>1, RowsRest DEF OwnNumbers
    <3> QED BY <1>7, <2>3, <3>2 DEF Mails
  <2> QED BY <2>1, <2>2, <2>3
<1>8. \A n \in Numbers' :
        at'[invoices'[n].by] = "done" /\ invoices'[n].tenant \in HasEmail => n \in told'
  <2>1. \A y \in Request : at'[y] = "done" => at[y] = "done"
    BY <1>1, <1>3 DEF Others, SameFor
  <2>2. \A n \in Numbers : invoices[n].by \in Request  BY DEF Mails, Biller
  <2> QED BY <1>2, <2>1, <2>2 DEF Mails
<1> QED BY <1>5, <1>6, <1>7, <1>8 DEF Mails, Biller

\* A commit puts what the session holds on the books.
LEMMA MailsCommit ==
  ASSUME IInv, Mails, NEW x \in Request, Commit(x) \/ Dispatch(x) \/ LogAndCommit(x)
  PROVE  Mails'
<1>1. Typed /\ Numbering /\ Whole /\ CommitAll(x) /\ Step(x) /\ mails' = mails
  BY DEF IInv, Commit, Dispatch, LogAndCommit, Step
<1>2. \A y \in Others(x) : SameFor(y)  BY <1>1, OthersRest
<1>3. /\ Numbers' = Numbers \cup OwnNumbers(x) /\ OwnNumbers(x)' = {}
      /\ \A n \in Numbers : invoices'[n] = invoices[n]
      /\ \A n \in OwnNumbers(x) : invoices'[n] = draft[x].rows[n] /\ invoices'[n].by = x
  <2>1. \A n \in OwnNumbers(x) : draft[x].rows[n].by = x  BY <1>1 DEF Whole
  <2> QED BY <1>1, <2>1, CommitBooks
<1>4. told \subseteq told'  BY <1>1 DEF CommitAll
<1>5. ASSUME NEW m, Mailed(m) PROVE Mailed(m)'
  <2>1. OnBooksAs(m) => OnBooksAs(m)'  BY <1>3 DEF OnBooksAs
  <2>2. CASE m.row.by = x
    <3>1. InSession(m) => OnBooksAs(m)'  BY <1>3, <2>2 DEF InSession, OnBooksAs
    <3>2. at[x] # "crashed"  BY <1>1 DEF Commit, Dispatch, LogAndCommit
    <3> QED BY <1>5, <2>1, <2>2, <3>1, <3>2 DEF Mailed
  <2>3. CASE m.row.by # x
    <3>1. m.row.by \in Request => SameFor(m.row.by)  BY <1>2, <2>3 DEF Others
    <3>2. m.row.by \in Request /\ InSession(m) => InSession(m)'
      BY <3>1 DEF InSession, SameFor, OwnNumbers
    <3> QED BY <1>5, <2>1, <3>1, <3>2 DEF Mailed, SameFor
  <2> QED BY <2>2, <2>3
<1>6. \A m \in mails' : Mailed(m)'
  <2> HIDE DEF Mailed
  <2> QED BY <1>1, <1>5 DEF Mails
<1>7. \A n \in Numbers' : Biller(invoices'[n].by)  BY <1>3 DEF Mails
<1>8. \A y \in Request : OwnNumbers(y)' # {} => Biller(y)
  <2>1. \A y \in Others(x) : OwnNumbers(y)' = OwnNumbers(y)  BY <1>2 DEF SameFor, OwnNumbers
  <2> QED BY <1>3, <2>1 DEF Mails, Others
<1>9. ASSUME NEW n \in Numbers', at'[invoices'[n].by] = "done", invoices'[n].tenant \in HasEmail
      PROVE  n \in told'
  <2>1. Biller(invoices'[n].by)  BY <1>7
  <2>2. CASE invoices'[n].by # x
    <3>1. n \in Numbers /\ invoices'[n] = invoices[n]  BY <1>3, <2>2
    <3>2. at[invoices[n].by] = "done"  BY <1>2, <1>9, <2>1, <2>2, <3>1 DEF Others, SameFor, Biller
    <3> QED BY <1>4, <1>9, <3>1, <3>2 DEF Mails
  <2>3. CASE invoices'[n].by = x
    <3>1. Job[x].kind \in {"run", "bill"}  BY <2>1, <2>3 DEF Biller
    <3>2. LogAndCommit(x)
      BY <1>1, <1>9, <2>3, <3>1, KindsAt DEF Commit, Dispatch, Goto, Typed
    <3>3. invoices'[n] = Row(x, n)  BY <1>1, <1>3, OwnAreNew DEF Row
    <3>4. n \in told  BY <1>3, <1>9, <2>3, <3>2, <3>3 DEF LogAndCommit, ToTell
    <3> QED BY <1>4, <3>4
  <2> QED BY <2>2, <2>3
<1> QED BY <1>6, <1>7, <1>8, <1>9 DEF Mails, Biller

LEMMA MailsInit == Init => Mails
<1> SUFFICES ASSUME Init PROVE Mails  OBVIOUS
<1>1. Numbers = {} /\ mails = {}  BY EmptyRows DEF Init, Numbers
<1>2. \A x \in Request : OwnNumbers(x) = {}  BY EmptyRows, EmptyDraft DEF Init, OwnNumbers
<1> QED BY <1>1, <1>2 DEF Mails

LEMMA MailsNext == IInv /\ Mails /\ [Next]_vars => Mails'
<1> SUFFICES ASSUME IInv, Mails, [Next]_vars PROVE Mails'  OBVIOUS
<1>1. CASE UNCHANGED vars
  BY <1>1 DEF vars, Mails, Mailed, OnBooksAs, InSession, Biller, Numbers, OwnNumbers
<1>2. CASE Next
  BY <1>2, MailsRest, MailsCommit DEF Next
<1> QED BY <1>1, <1>2

----------------------------------------------------------------------------
(* The theorems.                                                           *)

\* No lease is billed by two runs, unless both were billing it at once; and no
\* unit and no tenant has two active leases, unless they were being signed at
\* once or a lease of the unit was ended again.
THEOREM DoneOnlyOnce == Spec => []DoneOnce
<1>1. IInv /\ Once /\ Lets => DoneOnce  BY DEF Once, Lets, DoneOnce
<1> QED BY <1>1, InitIInv, NextIInv, OnceInit, OnceNext, LetsInit, LetsNext, PTL DEF Spec


\* What was mailed is on the books, or about to be, as the mail says, but for a
\* process that died between mail and commit; and who is done has told everyone.
THEOREM MailsAreTrue == Spec => []MailsMatchBooks
<1>1. Mails => MailsMatchBooks
  <2>1. \A m : Mailed(m) => LET x == m.row.by IN
          \/ m.number \in Numbers /\ invoices[m.number] = m.row
          \/ at[x] = "dispatch" /\ m.number \in OwnNumbers(x)
          \/ at[x] = "crashed"
    BY DEF Mailed, OnBooksAs, InSession
  <2> HIDE DEF Mailed
  <2> QED BY <2>1 DEF Mails, MailsMatchBooks
<1> QED BY <1>1, InitIInv, NextIInv, MailsInit, MailsNext, PTL DEF Spec

----------------------------------------------------------------------------
(* Waiting.                                                                *)

\* What keeps a request x from its next statement: a row or a number that
\* another one has written and not committed (the guards of WriteUnit,
\* WriteTenant, WriteLease and InsertInvoice).
WaitsFor(x, y) ==
  \/ at[x] = "writeUnit" /\ saw[x].unit # NewUnit(x) /\ draft[y].unit # Same /\ UnitOf(y) = UnitOf(x)
  \/ /\ at[x] = "writeTenant" /\ (Job[x].kind = "let" \/ saw[x].home # NewHome(x))
     /\ draft[y].home # Same /\ TenantOf(y) = TenantOf(x)
  \/ /\ at[x] = "writeLease" /\ saw[x].lease # "TERMINATED"
     /\ draft[y].lease # Same /\ Job[y].lease = Job[x].lease
  \/ at[x] = "insert" /\ number[x] \in OwnNumbers(y)

\* Requests each of which waits for another of them.
Knot(X) == X # {} /\ \A x \in X : \E y \in X \ {x} : WaitsFor(x, y)
NobodyWaitsForAll == \A X \in SUBSET Request : ~Knot(X)

\* Rows are locked in the order unit, tenant, lease.
LocksOf(x) ==
  /\ draft[x].unit # Same => at[x] \in {"writeTenant", "writeLease", "commit"}
  /\ draft[x].home # Same => at[x] \in {"writeLease", "commit"}
  /\ draft[x].lease # Same => at[x] = "commit"
Locks == \A x \in Request : LocksOf(x)

\* Who has written nothing holds nothing.
LEMMA NoDraftLocksNothing ==
  NoDraft.unit = Same /\ NoDraft.home = Same /\ NoDraft.lease = Same
  BY DEF NoDraft

\* A request's statements keep to the order, and a commit or rollback lets go
\* of everything.
LEMMA LocksStep ==
  ASSUME Typed, NEW x \in Request, LocksOf(x), Step(x) \/ Crash(x)
  PROVE  LocksOf(x)'
<1>1. draft \in [Request -> Draft] /\ at \in [Request -> Label]
  BY DEF Typed
<1>2. CASE ReadTenant(x) \/ ReadUnit(x) \/ CheckActive(x) \/ ReadLease(x)
  BY <1>1, <1>2 DEF ReadTenant, ReadUnit, CheckActive, ReadLease, Goto, LocksOf
<1>3. CASE WriteUnit(x)
  <2>1. draft' = draft \/ \E v : draft' = [draft EXCEPT ![x].unit = v]
    BY <1>3 DEF WriteUnit
  <2>2. draft'[x].home = draft[x].home /\ draft'[x].lease = draft[x].lease
    BY <1>1, <2>1 DEF Draft
  <2> QED BY <1>1, <1>3, <2>2 DEF WriteUnit, Goto, LocksOf
<1>4. CASE WriteTenant(x)
  <2>1. \E v : draft' = [draft EXCEPT ![x].home = v]
    BY <1>4 DEF WriteTenant
  <2>2. draft'[x].unit = draft[x].unit /\ draft'[x].lease = draft[x].lease
    BY <1>1, <2>1 DEF Draft
  <2> QED BY <1>1, <1>4, <2>2 DEF WriteTenant, Goto, LocksOf
<1>5. CASE WriteLease(x)
  BY <1>1, <1>5 DEF WriteLease, Goto, LocksOf
<1>6. CASE Commit(x) \/ Dispatch(x) \/ LogAndCommit(x)
  <2>1. draft' = [draft EXCEPT ![x] = NoDraft]
    BY <1>6 DEF Commit, Dispatch, LogAndCommit, CommitAll
  <2>2. draft'[x] = NoDraft
    BY <1>1, <2>1
  <2> QED BY <2>2, NoDraftLocksNothing DEF LocksOf
<1>7. CASE ReadLeases(x) \/ CheckBilled(x) \/ CountInvoices(x)
  BY <1>1, <1>7 DEF ReadLeases, CheckBilled, CountInvoices, Goto, LocksOf
<1>8. CASE InsertInvoice(x)
  <2>1. draft' = [draft EXCEPT ![x] = NoDraft] \/ \E v : draft' = [draft EXCEPT ![x].rows = v]
    BY <1>8 DEF InsertInvoice, Rollback
  <2>2. \/ draft'[x] = NoDraft
        \/ /\ draft'[x].unit = draft[x].unit /\ draft'[x].home = draft[x].home
           /\ draft'[x].lease = draft[x].lease
    BY <1>1, <2>1 DEF Draft
  <2>3. at[x] = "insert"
    BY <1>8 DEF InsertInvoice
  <2> QED BY <2>2, <2>3, NoDraftLocksNothing DEF LocksOf
<1>9. CASE Send(x)
  <2>1. \E v : draft' = [draft EXCEPT ![x].told = v]
    BY <1>9 DEF Send
  <2>2. /\ draft'[x].unit = draft[x].unit /\ draft'[x].home = draft[x].home
        /\ draft'[x].lease = draft[x].lease
    BY <1>1, <2>1 DEF Draft
  <2>3. at[x] = "mail"
    BY <1>9 DEF Send
  <2> QED BY <2>2, <2>3 DEF LocksOf
<1>10. CASE Crash(x)
  <2>1. draft'[x] = NoDraft
    BY <1>10, RollbackClears DEF Crash
  <2> QED BY <2>1, NoDraftLocksNothing DEF LocksOf
<1> QED BY <1>2, <1>3, <1>4, <1>5, <1>6, <1>7, <1>8, <1>9, <1>10 DEF Step

\* At first nobody holds anything.
LEMMA LocksInit == Init => Locks
  BY NoDraftLocksNothing DEF Init, Locks, LocksOf

\* Nobody else's step adds to what a request holds.
LEMMA LocksNext == IInv /\ Locks /\ [Next]_vars => Locks'
<1> SUFFICES ASSUME IInv, Locks, [Next]_vars PROVE Locks'
  OBVIOUS
<1>1. CASE UNCHANGED vars
  BY <1>1 DEF vars, Locks, LocksOf
<1>2. ASSUME NEW x \in Request, Step(x) \/ Crash(x) PROVE Locks'
  <2>1. \A y \in Others(x) : SameFor(y) /\ LocksOf(y)
    BY <1>2, OthersRest DEF IInv, Locks, Others
  <2>2. \A y \in Others(x) : LocksOf(y)'
    BY <2>1 DEF SameFor, LocksOf
  <2>3. LocksOf(x)'
    BY <1>2, LocksStep DEF IInv, Locks
  <2> QED BY <2>2, <2>3 DEF Locks, Others
<1> QED BY <1>1, <1>2 DEF Next

\* Runs, bills by hand, lettings and endings, any number of them at once, never
\* wait for one another in a ring: rows are locked in one order, and whoever
\* waits for an invoice number waits for one who holds them all.
THEOREM NoDeadlock == Spec => []NobodyWaitsForAll
<1>1. IInv /\ Locks => NobodyWaitsForAll
  <2> SUFFICES ASSUME IInv, Locks, NEW X \in SUBSET Request, Knot(X) PROVE FALSE
    BY DEF NobodyWaitsForAll
  <2>1. \A x \in X : \E y \in X \ {x} : WaitsFor(x, y)
    BY DEF Knot
  <2>2. \A x \in X : at[x] \in {"writeUnit", "writeTenant", "writeLease", "insert"}
    BY <2>1 DEF WaitsFor
  <2>3. \A x \in X : at[x] # "writeLease"
    BY <2>1, <2>2 DEF WaitsFor, Locks, LocksOf
  <2>4. \A x \in X : at[x] # "writeTenant"
    BY <2>1, <2>2, <2>3 DEF WaitsFor, Locks, LocksOf
  <2>5. \A x \in X : at[x] # "writeUnit"
    BY <2>1, <2>2, <2>3, <2>4 DEF WaitsFor, Locks, LocksOf
  <2>6. \A x \in X : at[x] = "insert"
    BY <2>2, <2>3, <2>4, <2>5
  <2>7. \A x \in X : \E y \in X \ {x} : number[x] \in OwnNumbers(y)
    BY <2>1, <2>6 DEF WaitsFor
  <2>8. PICK x \in X : TRUE
    BY DEF Knot
  <2>9. PICK y \in X \ {x} : number[x] \in OwnNumbers(y)
    BY <2>7, <2>8
  <2>10. PICK z \in X \ {y} : number[y] \in OwnNumbers(z)
    BY <2>7, <2>9
  <2> QED BY <2>9, <2>10 DEF IInv, Numbering
<1> QED BY <1>1, PTL, InitIInv, NextIInv, LocksInit, LocksNext DEF Spec
=============================================================================
