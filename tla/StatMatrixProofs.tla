-------------------------- MODULE StatMatrixProofs --------------------------
(***************************************************************************)
(* Proofs about StatMatrix, for any nodes, messages, bins and limits.      *)
(***************************************************************************)
EXTENDS StatMatrix, SequenceLemmas

-----------------------------------------------------------------------------
(* Matrices. *)

\* The rows an agent a may have for a message: only its own may be missing.
RowsOf(a) == {f \in UNION {[D -> Row \cup {NULL}] : D \in SUBSET Names} :
                 \A x \in DOMAIN f \ {Name(a)} : f[x] \in Row}
MessageOf(a) == [rows : RowsOf(a), message_status : {0, 1}]
MatrixOf(a) == UNION {[M -> MessageOf(a)] : M \in SUBSET Messages}

\* The constants.
LEMMA Sizes ==
    /\ axe_length \in Nat \ {0} /\ ttl_bin \in 0..axe_length /\ Src \in [Messages -> Nodes]
    /\ max_number_of_bundles \in Nat \ {0} /\ MaxArrivals \in Nat /\ MaxExchanges \in Nat
    /\ MaxMarks \in Nat /\ Nodes \subseteq Nat /\ IsFiniteSet(Nodes) /\ IsFiniteSet(Messages)
    /\ Policies \subseteq {0, 2} /\ MaxAge \in [Messages -> 0..axe_length]
BY StatMatrixAssumption

\* A missing row is none of a node.
LEMMA NullIsNoRow == NULL \notin Row
<1>1. NULL.version = -1
  BY DEF NULL
<1>2. \A r \in Row : r.version \in 0..axe_length
  BY DEF Row
<1>3. ~(-1 \in 0..axe_length)
  OBVIOUS
<1> QED  BY <1>1, <1>2, <1>3

\* Rows have names; only the own one may be missing.
LEMMA RowsLemma ==
    ASSUME NEW a, NEW f \in RowsOf(a)
    PROVE  /\ DOMAIN f \subseteq Names
           /\ f \in [DOMAIN f -> Row \cup {NULL}]
           /\ \A x \in DOMAIN f : x # Name(a) => f[x] \in Row
<1>1. PICK D \in SUBSET Names : f \in [D -> Row \cup {NULL}]
  BY DEF RowsOf
<1> QED  BY <1>1 DEF RowsOf

\* Rows with the right names.
LEMMA RowsIntro ==
    ASSUME NEW a, NEW D \in SUBSET Names, NEW f \in [D -> Row \cup {NULL}],
           \A x \in D : x # Name(a) => f[x] \in Row
    PROVE  f \in RowsOf(a)
<1>1. f \in UNION {[E -> Row \cup {NULL}] : E \in SUBSET Names}
  OBVIOUS
<1>2. DOMAIN f = D
  OBVIOUS
<1> QED  BY <1>1, <1>2 DEF RowsOf

\* A matrix has messages.
LEMMA MatrixLemma ==
    ASSUME NEW a, NEW mx \in MatrixOf(a)
    PROVE  /\ DOMAIN mx \subseteq Messages /\ mx \in [DOMAIN mx -> MessageOf(a)]
           /\ \A m \in DOMAIN mx : /\ mx[m].rows \in RowsOf(a)
                                   /\ mx[m].message_status \in {0, 1}
<1>1. PICK M \in SUBSET Messages : mx \in [M -> MessageOf(a)]
  BY DEF MatrixOf
<1> QED  BY <1>1 DEF MessageOf

\* Messages make a matrix.
LEMMA MatrixIntro ==
    ASSUME NEW a, NEW M \in SUBSET Messages, NEW mx \in [M -> MessageOf(a)]
    PROVE  mx \in MatrixOf(a)
BY DEF MatrixOf

\* A row is put in place.
LEMMA PutLemma ==
    ASSUME NEW a, NEW f \in RowsOf(a), NEW x \in Names, NEW v,
           v \in Row \/ (x = Name(a) /\ v = NULL), NEW g, g = Put(f, x, v)
    PROVE  /\ g \in RowsOf(a)
           /\ DOMAIN g = DOMAIN f \cup {x}
           /\ g[x] = v
           /\ \A y \in DOMAIN f : y # x => g[y] = f[y]
<1> DEFINE D == DOMAIN f \cup {x}
<1>1. g = [y \in D |-> IF y = x THEN v ELSE f[y]]
  BY DEF Put
<1>2. D \in SUBSET Names
  BY RowsLemma
<1>3. \A y \in DOMAIN f : f[y] \in Row \cup {NULL} /\ (y # Name(a) => f[y] \in Row)
  BY RowsLemma
<1>4. g \in [D -> Row \cup {NULL}]
  BY <1>1, <1>3
<1>5. \A y \in D : y # Name(a) => g[y] \in Row
  BY <1>1, <1>3
<1>6. g \in RowsOf(a)
  BY <1>2, <1>4, <1>5, RowsIntro
<1> QED  BY <1>1, <1>6

-----------------------------------------------------------------------------
(* What an agent writes into its matrix. *)

\* A message the agent a changed by itself: the rows of others are as before.
OwnChange(a, dm, new) ==
    /\ new \in MessageOf(a)
    /\ \A x \in DOMAIN new.rows \ {Name(a)} :
          x \in DOMAIN dm.rows /\ new.rows[x] = dm.rows[x]

OwnStep(a, mx, new) ==
    /\ new \in MatrixOf(a) /\ DOMAIN mx \subseteq DOMAIN new
    /\ \A m \in DOMAIN new : \A x \in DOMAIN new[m].rows \ {Name(a)} :
          /\ m \in DOMAIN mx /\ x \in DOMAIN mx[m].rows
          /\ new[m].rows[x] = mx[m].rows[x]

\* No row is lost.
RowsKept(mx, new) ==
    \A m \in DOMAIN mx : m \in DOMAIN new /\ DOMAIN mx[m].rows \subseteq DOMAIN new[m].rows

\* No change.
LEMMA OwnStepNone ==
    ASSUME NEW a, NEW mx \in MatrixOf(a)
    PROVE  OwnStep(a, mx, mx)
BY DEF OwnStep

\* Two such steps are one.
LEMMA OwnStepTwo ==
    ASSUME NEW a, NEW mx, NEW mx1, NEW mx2, OwnStep(a, mx, mx1), OwnStep(a, mx1, mx2)
    PROVE  OwnStep(a, mx, mx2)
BY DEF OwnStep

\* The own row: its version is the bin, which may be past the last one.
LEMMA SetTimeBinLemma ==
    ASSUME NEW r \in Row \cup {NULL}, NEW bin \in 0..axe_length, NEW value
    PROVE  SetTimeBinValue(r, bin, value) \in Row
<1>1. r.bits \in SUBSET Bins
  BY DEF Row, NULL
<1> DEFINE bs == IF value = 1 THEN r.bits \cup ({bin} \cap Bins) ELSE {j \in r.bits : j <= bin}
<1>2. bs \in SUBSET Bins
  BY <1>1
<1>3. SetTimeBinValue(r, bin, value) = [version |-> bin, bits |-> bs]
  BY DEF SetTimeBinValue
<1> HIDE DEF bs
<1> QED  BY <1>2, <1>3 DEF Row

\* The fields of a message.
LEMMA MessageIntro ==
    ASSUME NEW a, NEW dm \in MessageOf(a), NEW f \in RowsOf(a)
    PROVE  /\ [dm EXCEPT !.rows = f] \in MessageOf(a)
           /\ [dm EXCEPT !.rows = f].rows = f
           /\ [dm EXCEPT !.rows = f].message_status = dm.message_status
BY DEF MessageOf

\* A message without rows, new or complete.
LEMMA NewLemma ==
    ASSUME NEW a
    PROVE  NoRows \in RowsOf(a) /\ DOMAIN NoRows = {} /\ New \in MessageOf(a)
           /\ New.rows = NoRows /\ [rows |-> NoRows, message_status |-> 1] \in MessageOf(a)
<1>1. NoRows \in [{} -> Row \cup {NULL}] /\ DOMAIN NoRows = {}
  BY DEF NoRows
<1>2. NoRows \in RowsOf(a)
  BY <1>1, RowsIntro
<1> QED  BY <1>1, <1>2 DEF New, MessageOf

\* addNode of the agent itself writes its own row.
LEMMA AddNodeLemma ==
    ASSUME NEW a \in Nodes, NEW dm \in MessageOf(a), NEW bin \in 0..axe_length, NEW value
    PROVE  /\ OwnChange(a, dm, addNode(dm, a, bin, value))
           /\ Name(a) \in DOMAIN addNode(dm, a, bin, value).rows
           /\ addNode(dm, a, bin, value).rows[Name(a)] \in Row
           /\ DOMAIN dm.rows \subseteq DOMAIN addNode(dm, a, bin, value).rows
<1> DEFINE r == IF Name(a) \in DOMAIN dm.rows THEN dm.rows[Name(a)]
                ELSE [version |-> 0, bits |-> {}]
           v == SetTimeBinValue(r, bin, value)
           f == Put(dm.rows, Name(a), v)
<1>0. axe_length \in Nat \ {0} /\ Name(a) \in Names
  BY Sizes DEF Name, Names
<1>1. dm.rows \in RowsOf(a)
  BY DEF MessageOf
<1>2. r \in Row \cup {NULL}
  <2>1. [version |-> 0, bits |-> {}] \in Row
    BY <1>0 DEF Row
  <2>2. Name(a) \in DOMAIN dm.rows => dm.rows[Name(a)] \in Row \cup {NULL}
    BY <1>1, RowsLemma
  <2> QED  BY <2>1, <2>2
<1> HIDE DEF r
<1>3. v \in Row
  BY <1>2, SetTimeBinLemma
<1> HIDE DEF v
<1>4. /\ f \in RowsOf(a) /\ DOMAIN f = DOMAIN dm.rows \cup {Name(a)}
      /\ f[Name(a)] = v
      /\ \A y \in DOMAIN dm.rows : y # Name(a) => f[y] = dm.rows[y]
  BY <1>0, <1>1, <1>3, PutLemma
<1> HIDE DEF f
<1>5. addNode(dm, a, bin, value) = [dm EXCEPT !.rows = f]
  BY DEF addNode, f, v, r
<1>6. /\ addNode(dm, a, bin, value) \in MessageOf(a)
      /\ addNode(dm, a, bin, value).rows = f
  BY <1>4, <1>5, MessageIntro
<1> QED  BY <1>3, <1>4, <1>6 DEF OwnChange

\* update_bundle_status writes own rows.
LEMMA UpdateStatusLemma ==
    ASSUME NEW a \in Nodes, NEW mx \in MatrixOf(a), NEW f,
           \A m \in DOMAIN f : f[m] \in 0..axe_length, NEW value
    PROVE  /\ OwnStep(a, mx, update_bundle_status(mx, a, f, value))
           /\ DOMAIN update_bundle_status(mx, a, f, value) = DOMAIN mx
           /\ \A m \in DOMAIN mx : ~HasNull(mx[m]) =>
                ~HasNull(update_bundle_status(mx, a, f, value)[m])
           /\ RowsKept(mx, update_bundle_status(mx, a, f, value))
<1> DEFINE new == update_bundle_status(mx, a, f, value)
<1>1. DOMAIN mx \in SUBSET Messages /\ \A m \in DOMAIN mx : mx[m] \in MessageOf(a)
  BY MatrixLemma
<1>2. /\ DOMAIN new = DOMAIN mx
      /\ new = [m \in DOMAIN mx |-> IF m \in DOMAIN f THEN addNode(mx[m], a, f[m], value)
                                    ELSE mx[m]]
  BY DEF update_bundle_status
<1>3. \A m \in DOMAIN mx : new[m] = IF m \in DOMAIN f THEN addNode(mx[m], a, f[m], value)
                                    ELSE mx[m]
  BY <1>2
<1>4. \A m \in DOMAIN mx : m \in DOMAIN f =>
         /\ OwnChange(a, mx[m], addNode(mx[m], a, f[m], value))
         /\ addNode(mx[m], a, f[m], value).rows[Name(a)] \in Row
         /\ DOMAIN mx[m].rows \subseteq DOMAIN addNode(mx[m], a, f[m], value).rows
  BY <1>1, AddNodeLemma
<1>5. \A m \in DOMAIN mx : new[m] \in MessageOf(a)
  BY <1>1, <1>3, <1>4 DEF OwnChange
<1>6. new \in MatrixOf(a)
  <2>1. new \in [DOMAIN mx -> MessageOf(a)]
    BY <1>2, <1>3, <1>5
  <2> HIDE DEF new
  <2> QED  BY <1>1, <2>1, MatrixIntro
<1> HIDE DEF new
<1>7. OwnStep(a, mx, new)
  BY <1>2, <1>3, <1>4, <1>6 DEF OwnStep, OwnChange
<1>8. ASSUME NEW m \in DOMAIN mx, HasNull(new[m]) PROVE HasNull(mx[m])
  <2>1. CASE m \notin DOMAIN f
    BY <1>3, <1>8, <2>1
  <2>2. CASE m \in DOMAIN f
    <3>1. PICK x \in DOMAIN new[m].rows : new[m].rows[x] = NULL
      BY <1>8 DEF HasNull
    <3>2. new[m].rows[Name(a)] \in Row
      BY <1>3, <1>4, <2>2
    <3>3. x # Name(a)
      BY <3>1, <3>2, NullIsNoRow
    <3>4. x \in DOMAIN mx[m].rows /\ mx[m].rows[x] = NULL
      BY <1>2, <1>7, <3>1, <3>3 DEF OwnStep
    <3> QED  BY <3>4 DEF HasNull
  <2> QED  BY <2>1, <2>2
<1>9. RowsKept(mx, new)
  BY <1>2, <1>3, <1>4 DEF RowsKept
<1> QED  BY <1>2, <1>7, <1>8, <1>9 DEF new

\* IsValid writes the own row too, or empties a message that is complete.
LEMMA IsValidLemma ==
    ASSUME NEW a \in Nodes, NEW dm \in MessageOf(a), NEW late,
           NEW new, new = IsValid(dm, a, late)
    PROVE  OwnChange(a, dm, new)
<1> DEFINE f == TtlVersion(dm, a, late)
           d == dm.rows
<1>0. axe_length \in Nat \ {0} /\ Name(a) \in Names
  BY Sizes DEF Name, Names
<1>1. d \in RowsOf(a)
  BY DEF MessageOf
<1>2. f \in RowsOf(a) /\ \A x \in DOMAIN f \ {Name(a)} : x \in DOMAIN d /\ f[x] = d[x]
  <2>1. CASE f = d
    BY <1>1, <2>1
  <2>2. CASE f = Put(d, Name(a), NULL)
    <3> HIDE DEF f, d
    <3>0. PICK v, x : v = NULL /\ x = Name(a) /\ f = Put(d, x, v)
      BY <2>2
    <3>1. /\ f \in RowsOf(a) /\ DOMAIN f = DOMAIN d \cup {x}
          /\ \A y \in DOMAIN d : y # x => f[y] = d[y]
      BY <1>0, <1>1, <3>0, PutLemma
    <3> QED  BY <3>0, <3>1
  <2>3. CASE /\ Name(a) \in DOMAIN d /\ d[Name(a)] # NULL
             /\ f = [d EXCEPT ![Name(a)].version = axe_length]
    <3> HIDE DEF f, d
    <3>1. d \in [DOMAIN d -> Row \cup {NULL}] /\ DOMAIN d \in SUBSET Names
          /\ \A x \in DOMAIN d : x # Name(a) => d[x] \in Row
      BY <1>1, RowsLemma
    <3>2. d[Name(a)] \in Row
      BY <2>3, <3>1
    <3> DEFINE v == [d[Name(a)] EXCEPT !.version = axe_length]
    <3>3. v \in Row
      BY <1>0, <3>2 DEF Row
    <3>4. f = [d EXCEPT ![Name(a)] = v]
      BY <2>3
    <3> HIDE DEF v
    <3>5. f \in [DOMAIN d -> Row \cup {NULL}]
      BY <3>1, <3>3, <3>4
    <3>6. \A x \in DOMAIN d : x # Name(a) => f[x] = d[x]
      BY <3>1, <3>4
    <3>7. f \in RowsOf(a)
      BY <3>1, <3>5, <3>6, RowsIntro
    <3> QED  BY <3>5, <3>6, <3>7
  <2> QED  BY <2>1, <2>2, <2>3 DEF TtlVersion
<1> HIDE DEF f
<1>3. CASE new = dm
  BY <1>3 DEF OwnChange
<1>4. CASE new = [rows |-> NoRows, message_status |-> 1]
  BY <1>4, NewLemma DEF OwnChange
<1>5. CASE new = [dm EXCEPT !.rows = f]
  <2>1. new \in MessageOf(a) /\ new.rows = f
    BY <1>2, <1>5, MessageIntro
  <2> QED  BY <1>2, <2>1 DEF OwnChange
<1> QED  BY <1>3, <1>4, <1>5 DEF IsValid, f

\* So does asking about several messages.
LEMMA CheckedLemma ==
    ASSUME NEW a \in Nodes, NEW mx \in MatrixOf(a), NEW S, NEW late,
           NEW new, new = Checked(mx, a, S, late)
    PROVE  OwnStep(a, mx, new) /\ DOMAIN new = DOMAIN mx
<1>1. DOMAIN mx \in SUBSET Messages /\ \A m \in DOMAIN mx : mx[m] \in MessageOf(a)
  BY MatrixLemma
<1>2. /\ DOMAIN new = DOMAIN mx
      /\ new = [m \in DOMAIN mx |-> new[m]]
      /\ \A m \in DOMAIN mx : new[m] = IF m \in S THEN IsValid(mx[m], a, late[m]) ELSE mx[m]
  BY DEF Checked
<1>3. \A m \in DOMAIN mx : OwnChange(a, mx[m], new[m])
  <2> TAKE m \in DOMAIN mx
  <2>1. CASE m \in S
    BY <1>1, <1>2, <2>1, IsValidLemma
  <2>2. CASE m \notin S
    BY <1>1, <1>2, <2>2 DEF OwnChange
  <2> QED  BY <2>1, <2>2
<1>4. new \in [DOMAIN mx -> MessageOf(a)]
  BY <1>2, <1>3 DEF OwnChange
<1>5. new \in MatrixOf(a)
  BY <1>1, <1>4, MatrixIntro
<1> QED  BY <1>2, <1>3, <1>5 DEF OwnStep, OwnChange

\* A copy that arrives: its message is added, with the own row.
LEMMA StatAddLemma ==
    ASSUME NEW a \in Nodes, NEW mx \in MatrixOf(a), NEW m \in Messages,
           NEW g \in 0..axe_length, NEW new, new = stat_add_bundle(mx, a, m, g)
    PROVE  OwnStep(a, mx, new)
<1> DEFINE dm == IF m \in DOMAIN mx THEN mx[m] ELSE New
           v == addNode(dm, a, g, 1)
<1>1. DOMAIN mx \in SUBSET Messages /\ \A k \in DOMAIN mx : mx[k] \in MessageOf(a)
  BY MatrixLemma
<1>2. dm \in MessageOf(a)
  BY <1>1, NewLemma
<1>3. OwnChange(a, dm, v)
  BY <1>2, AddNodeLemma
<1>4. CASE new = mx
  BY <1>4, OwnStepNone
<1>5. CASE new = Put(mx, m, v)
  <2> HIDE DEF v
  <2>1. new = [k \in DOMAIN mx \cup {m} |-> IF k = m THEN v ELSE mx[k]]
    BY <1>5 DEF Put
  <2>2. v \in MessageOf(a)
    BY <1>3 DEF OwnChange
  <2>3. /\ new \in [DOMAIN mx \cup {m} -> MessageOf(a)] /\ new[m] = v
        /\ \A k \in DOMAIN mx : k # m => new[k] = mx[k]
    BY <1>1, <2>1, <2>2
  <2>4. new \in MatrixOf(a)
    <3>1. DOMAIN mx \cup {m} \in SUBSET Messages
      BY <1>1
    <3> QED  BY <2>3, <3>1, MatrixIntro
  <2>5. \A x \in DOMAIN v.rows \ {Name(a)} :
           m \in DOMAIN mx /\ x \in DOMAIN mx[m].rows /\ v.rows[x] = mx[m].rows[x]
    BY <1>3, NewLemma DEF OwnChange
  <2> QED  BY <2>3, <2>4, <2>5 DEF OwnStep
<1> QED  BY <1>4, <1>5 DEF stat_add_bundle

-----------------------------------------------------------------------------
(* What an agent reads from a report. *)

Entry == [name : Names, row : Row]

\* A reported row is taken or not; what is there never gets older.
ReportChange(dm, list, new) ==
    /\ new.message_status = dm.message_status /\ DOMAIN dm.rows \subseteq DOMAIN new.rows
    /\ \A x \in DOMAIN new.rows :
          \/ x \in DOMAIN dm.rows /\ new.rows[x] = dm.rows[x]
          \/ \E i \in 1..Len(list) : x = list[i].name /\ new.rows[x] = list[i].row
    /\ \A x \in DOMAIN dm.rows : new.rows[x].version >= dm.rows[x].version

\* Versions are numbers.
LEMMA VersionLemma ==
    ASSUME NEW a, NEW f \in RowsOf(a), NEW x \in DOMAIN f
    PROVE  f[x].version \in Int
<1>1. f[x] \in Row \/ f[x] = NULL
  BY RowsLemma
<1>2. \A r \in Row : r.version \in Int
  BY Sizes DEF Row
<1>3. NULL.version \in Int
  BY DEF NULL
<1> QED  BY <1>1, <1>2, <1>3

\* One row is read.
RowRead(a, dm, entry, new) ==
    /\ new \in MessageOf(a)
    /\ new.message_status = dm.message_status
    /\ DOMAIN dm.rows \subseteq DOMAIN new.rows
    /\ \A x \in DOMAIN new.rows :
          \/ x \in DOMAIN dm.rows /\ new.rows[x] = dm.rows[x]
          \/ x = entry.name /\ new.rows[x] = entry.row
    /\ \A x \in DOMAIN dm.rows : new.rows[x].version >= dm.rows[x].version

LEMMA AddReportLemma ==
    ASSUME NEW a, NEW dm \in MessageOf(a), NEW entry \in Entry,
           NEW new, new = addNode_report(dm, entry)
    PROVE  RowRead(a, dm, entry, new)
<1> DEFINE d == dm.rows
           f == Put(d, entry.name, entry.row)
<1>0. d \in RowsOf(a) /\ entry.name \in Names /\ entry.row \in Row
  BY DEF MessageOf, Entry
<1>1. \A x \in DOMAIN d : d[x].version \in Int
  <2> HIDE DEF d
  <2> QED  BY <1>0, VersionLemma
<1>2. CASE entry.name \in DOMAIN d /\ d[entry.name].version > entry.row.version
  <2>1. new = dm
    BY <1>2 DEF addNode_report
  <2> QED  BY <1>1, <2>1 DEF RowRead
<1>3. CASE ~(entry.name \in DOMAIN d /\ d[entry.name].version > entry.row.version)
  <2>1. new = [dm EXCEPT !.rows = f]
    BY <1>3 DEF addNode_report
  <2> HIDE DEF d
  <2>2. /\ f \in RowsOf(a) /\ DOMAIN f = DOMAIN d \cup {entry.name}
        /\ f[entry.name] = entry.row
        /\ \A y \in DOMAIN d : y # entry.name => f[y] = d[y]
    BY <1>0, PutLemma
  <2> HIDE DEF f
  <2>3. new \in MessageOf(a) /\ new.rows = f /\ new.message_status = dm.message_status
    BY <2>1, <2>2, MessageIntro
  <2>4. entry.row.version \in Int
    BY <1>0, Sizes DEF Row
  <2>5. \A x \in DOMAIN d : f[x].version >= d[x].version
    BY <1>1, <1>3, <2>2, <2>4
  <2> QED  BY <2>2, <2>3, <2>5 DEF d, RowRead
<1> QED  BY <1>2, <1>3

\* The messages a list of rows passes through: they exist.
IsRun(f, n, dm, list) ==
    f = [i \in 0..n |-> IF i = 0 THEN dm ELSE addNode_report(f[i - 1], list[i])]

LEMMA RunLonger ==
    ASSUME NEW dm, NEW list, NEW n \in Nat, NEW f, IsRun(f, n, dm, list)
    PROVE  \E g : IsRun(g, n + 1, dm, list)
<1> DEFINE g == [i \in 0..(n + 1) |-> IF i <= n THEN f[i]
                                      ELSE addNode_report(f[n], list[n + 1])]
           h == [i \in 0..(n + 1) |-> IF i = 0 THEN dm ELSE addNode_report(g[i - 1], list[i])]
<1>1. \A i \in 0..n : f[i] = IF i = 0 THEN dm ELSE addNode_report(f[i - 1], list[i])
  BY DEF IsRun
<1>2. \A i \in 0..n : g[i] = f[i]
  OBVIOUS
<1>3. g[n + 1] = addNode_report(f[n], list[n + 1])
  OBVIOUS
<1>4. \A i \in 0..n : h[i] = g[i]
  BY <1>1, <1>2
<1>5. h[n + 1] = g[n + 1]
  BY <1>2, <1>3
<1>6. \A i \in 0..(n + 1) : h[i] = g[i]
  <2> HIDE DEF g, h
  <2>1. \A i \in 0..(n + 1) : i \in 0..n \/ i = n + 1
    OBVIOUS
  <2> QED  BY <1>4, <1>5, <2>1
<1>7. g = h
  BY <1>6
<1>8. IsRun(g, n + 1, dm, list)
  BY <1>7 DEF IsRun
<1> HIDE DEF g, h
<1> QED  BY <1>8

LEMMA RunExists ==
    ASSUME NEW dm, NEW list, NEW n \in Nat
    PROVE  \E f : IsRun(f, n, dm, list)
<1> DEFINE S == {k \in Nat : ~\E f : IsRun(f, k, dm, list)}
<1>1. 0 \notin S
  <2> DEFINE f == [i \in 0..0 |-> dm]
  <2>1. f = [i \in 0..0 |-> IF i = 0 THEN dm ELSE addNode_report(f[i - 1], list[i])]
    OBVIOUS
  <2>2. IsRun(f, 0, dm, list)
    BY <2>1 DEF IsRun
  <2> QED  BY <2>2
<1>2. \A k \in Nat : k \notin S => k + 1 \notin S
  BY RunLonger
<1>3. S = {}
  <2>0. S \in SUBSET Nat
    OBVIOUS
  <2> HIDE DEF S
  <2>1. SUFFICES ASSUME S # {} PROVE FALSE
    OBVIOUS
  <2>2. Min(S) \in S /\ \A y \in S : Min(S) <= y
    BY <2>0, <2>1, MinLemma
  <2>3. Min(S) \in Nat \ {0}
    BY <1>1, <2>0, <2>2
  <2>4. Min(S) - 1 \in Nat /\ Min(S) - 1 \notin S
    BY <2>2, <2>3
  <2> QED  BY <1>2, <2>2, <2>3, <2>4
<1> QED  BY <1>3

LEMMA RunOfUpdate ==
    ASSUME NEW dm, NEW list, Len(list) \in Nat
    PROVE  \E f : IsRun(f, Len(list), dm, list) /\ update_message(dm, list) = f[Len(list)]
<1> DEFINE f == CHOOSE g : IsRun(g, Len(list), dm, list)
<1>1. IsRun(f, Len(list), dm, list)
  BY RunExists
<1>2. update_message(dm, list) = f[Len(list)]
  BY DEF update_message, IsRun
<1> HIDE DEF f
<1> QED  BY <1>1, <1>2

\* Rows are read one after the other.
LEMMA UpdateMessageLemma ==
    ASSUME NEW a, NEW dm \in MessageOf(a), NEW list \in Seq(Entry),
           NEW new, new = update_message(dm, list)
    PROVE  new \in MessageOf(a) /\ ReportChange(dm, list, new)
<1>0. Len(list) \in Nat /\ \A i \in 1..Len(list) : list[i] \in Entry
  BY LenProperties, ElementOfSeq
<1>1. PICK f : IsRun(f, Len(list), dm, list) /\ new = f[Len(list)]
  BY <1>0, RunOfUpdate
<1>2. /\ f[0] = dm
      /\ \A i \in 1..Len(list) : f[i] = addNode_report(f[i - 1], list[i])
  BY <1>0, <1>1 DEF IsRun
<1> DEFINE Good(g) == g \in MessageOf(a) /\ ReportChange(dm, list, g)
           S == {k \in 0..Len(list) : ~Good(f[k])}
<1>3. Good(dm)
  <2>1. dm.rows \in RowsOf(a)
    BY DEF MessageOf
  <2>2. \A x \in DOMAIN dm.rows : dm.rows[x].version \in Int
    BY <2>1, VersionLemma
  <2> QED  BY <2>2 DEF ReportChange
<1>4. ASSUME NEW i \in 1..Len(list), Good(f[i - 1]) PROVE Good(f[i])
  <2>1. PICK g, h, e : g = f[i - 1] /\ h = f[i] /\ e = list[i] /\ h = addNode_report(g, e)
    BY <1>2
  <2>2. Good(g)
    BY <1>4, <2>1
  <2>3. RowRead(a, g, e, h)
    <3>1. g \in MessageOf(a) /\ e \in Entry
      BY <1>0, <2>1, <2>2
    <3> QED  BY <2>1, <3>1, AddReportLemma
  <2>4. dm.rows \in RowsOf(a) /\ g.rows \in RowsOf(a) /\ h.rows \in RowsOf(a)
    BY <2>2, <2>3 DEF MessageOf, RowRead
  <2>5. \A x \in DOMAIN dm.rows : dm.rows[x].version \in Int
    BY <2>4, VersionLemma
  <2>6. \A x \in DOMAIN g.rows : g.rows[x].version \in Int
    BY <2>4, VersionLemma
  <2>7. \A x \in DOMAIN h.rows : h.rows[x].version \in Int
    BY <2>4, VersionLemma
  <2>8. \A x \in DOMAIN dm.rows : h.rows[x].version >= dm.rows[x].version
    BY <2>2, <2>3, <2>5, <2>6, <2>7 DEF ReportChange, RowRead
  <2>9. \A x \in DOMAIN h.rows :
          \/ x \in DOMAIN dm.rows /\ h.rows[x] = dm.rows[x]
          \/ \E k \in 1..Len(list) : x = list[k].name /\ h.rows[x] = list[k].row
    BY <2>1, <2>2, <2>3 DEF ReportChange, RowRead
  <2>10. h.message_status = dm.message_status /\ DOMAIN dm.rows \subseteq DOMAIN h.rows
    BY <2>2, <2>3 DEF ReportChange, RowRead
  <2>11. Good(h)
    BY <2>3, <2>8, <2>9, <2>10 DEF ReportChange, RowRead
  <2> QED  BY <2>1, <2>11
<1> HIDE DEF Good
<1>5. S = {}
  <2>0. S \in SUBSET Nat
    BY <1>0
  <2>1. 0 \notin S
    BY <1>2, <1>3
  <2>2. \A i \in 1..Len(list) : i - 1 \notin S => i \notin S
    BY <1>0, <1>4
  <2>20. \A i \in S : i \in 0..Len(list)
    OBVIOUS
  <2> HIDE DEF S
  <2>3. SUFFICES ASSUME S # {} PROVE FALSE
    OBVIOUS
  <2>4. PICK k : k \in S /\ \A y \in S : k <= y
    BY <2>0, <2>3, MinLemma
  <2>5. k \in 1..Len(list)
    <3>1. k \in 0..Len(list) /\ k # 0
      BY <2>1, <2>20, <2>4
    <3> QED  BY <1>0, <3>1
  <2>6. k - 1 \in Nat /\ k - 1 \notin S
    BY <1>0, <2>4, <2>5
  <2> QED  BY <2>2, <2>4, <2>5, <2>6
<1>6. Good(f[Len(list)])
  BY <1>0, <1>5
<1> QED  BY <1>1, <1>6 DEF Good

\* A row is what is left of one of W.
Told(r, W) == \E w \in W : BeginningOf(r, w)

\* What the nodes may have written.
Pasts == [Nodes -> [Messages -> SUBSET Row]]

LEMMA RowFields ==
    ASSUME NEW r \in Row
    PROVE  /\ r.version \in Nat /\ r.version <= axe_length /\ r.bits \in SUBSET Bins
           /\ \A j \in r.bits : j \in Nat /\ j < axe_length
<1>1. axe_length \in Nat \ {0}
  BY Sizes
<1> QED  BY <1>1 DEF Row, Bins

\* A row is what is left of itself when nothing is cut.
LEMMA BeginningSame ==
    ASSUME NEW r \in Row
    PROVE  BeginningOf(r, r)
<1>1. axe_length \in 0..axe_length
  BY Sizes
<1>2. r.bits = {j \in r.bits : j < axe_length}
  BY RowFields
<1> QED  BY <1>1, <1>2 DEF BeginningOf

\* What is cut again is what is left of the first row.
LEMMA BeginningTwice ==
    ASSUME NEW r \in Row, NEW s \in Row, NEW w \in Row, BeginningOf(r, s), BeginningOf(s, w)
    PROVE  BeginningOf(r, w)
<1>0. /\ r.version \in Nat /\ s.version \in Nat /\ w.version \in Nat
      /\ \A j \in w.bits : j \in Nat
  BY RowFields
<1>1. CASE /\ r.version = s.version /\ s.version = w.version
           /\ \E k \in 0..axe_length : r.bits = {j \in s.bits : j < k}
           /\ \E k \in 0..axe_length : s.bits = {j \in w.bits : j < k}
  <2>1. PICK k \in 0..axe_length : r.bits = {j \in s.bits : j < k}
    BY <1>1
  <2>2. PICK l \in 0..axe_length : s.bits = {j \in w.bits : j < l}
    BY <1>1
  <2>3. PICK n \in 0..axe_length : n <= k /\ n <= l /\ (n = k \/ n = l)
    <3>1. k <= l \/ l <= k
      BY Sizes
    <3> QED  BY <3>1, Sizes
  <2>4. k \in Int /\ l \in Int /\ n \in Int
    BY Sizes
  <2>5. \A j \in w.bits : j < k /\ j < l <=> j < n
    BY <1>0, <2>3, <2>4
  <2>6. r.bits = {j \in w.bits : j < n}
    BY <2>1, <2>2, <2>5
  <2> QED  BY <1>1, <2>6 DEF BeginningOf
<1>2. CASE r.version <= s.version /\ r.bits = {}
  <2>1. s.version <= w.version
    BY <1>0 DEF BeginningOf
  <2>2. r.version <= w.version
    BY <1>0, <1>2, <2>1
  <2> QED  BY <1>2, <2>2 DEF BeginningOf
<1>3. CASE /\ r.version = s.version /\ s.version <= w.version /\ s.bits = {}
           /\ \E k \in 0..axe_length : r.bits = {j \in s.bits : j < k}
  <2>1. r.bits = {} /\ r.version <= w.version
    BY <1>3
  <2> QED  BY <2>1 DEF BeginningOf
<1> QED  BY <1>1, <1>2, <1>3 DEF BeginningOf

\* What the parser may read of a row that is cut.
LEMMA BeginningsLemma ==
    ASSUME NEW r \in Row, NEW b \in Beginnings(r)
    PROVE  b \in Row /\ BeginningOf(b, r)
<1>0. /\ r.version \in Nat /\ r.version <= axe_length /\ r.bits \in SUBSET Bins
      /\ axe_length \in Nat
  BY RowFields, Sizes
<1>1. CASE b \in {[version |-> r.version, bits |-> {j \in r.bits : j < k}] : k \in 0..axe_length}
  <2>1. PICK k \in 0..axe_length : b = [version |-> r.version, bits |-> {j \in r.bits : j < k}]
    BY <1>1
  <2>2. {j \in r.bits : j < k} \in SUBSET Bins /\ r.version \in 0..axe_length
    BY <1>0
  <2>3. b \in Row
    BY <2>1, <2>2 DEF Row
  <2> QED  BY <2>1, <2>3 DEF BeginningOf
<1>2. CASE b \in {[version |-> u, bits |-> {}] : u \in Leading(r.version)}
  <2>1. Leading(r.version) \subseteq 0..r.version
    BY Zenon DEF Leading
  <2>2. PICK u \in 0..r.version : b = [version |-> u, bits |-> {}]
    BY <1>2, <2>1
  <2>3. u \in 0..axe_length /\ u <= r.version
    BY <1>0
  <2>4. b \in Row
    BY <2>2, <2>3 DEF Row
  <2> QED  BY <2>2, <2>3, <2>4 DEF BeginningOf
<1>3. b \in {[version |-> r.version, bits |-> {j \in r.bits : j < k}] : k \in 0..axe_length}
      \/ b \in {[version |-> u, bits |-> {}] : u \in Leading(r.version)}
  BY Zenon DEF Beginnings
<1> QED  BY <1>1, <1>2, <1>3

\* The rows of a report are what is left of those of their nodes, according to p.
BodyOf(body, p) ==
    /\ DOMAIN body \subseteq Messages
    /\ \A m \in DOMAIN body :
          /\ body[m] \in Seq(Entry)
          /\ \A i \in 1..Len(body[m]) :
                Told(body[m][i].row, p[body[m][i].name[2]][m])

\* A matrix that a report was added to.
ReportStep(a, mx, body, new) ==
    /\ new \in MatrixOf(a) /\ DOMAIN mx \subseteq DOMAIN new
    /\ \A m \in DOMAIN new : \A x \in DOMAIN new[m].rows :
          \/ m \in DOMAIN mx /\ x \in DOMAIN mx[m].rows /\ new[m].rows[x] = mx[m].rows[x]
          \/ /\ m \in DOMAIN body
             /\ \E i \in 1..Len(body[m]) : /\ x = body[m][i].name
                                           /\ new[m].rows[x] = body[m][i].row
    /\ \A m \in DOMAIN mx : \A x \in DOMAIN mx[m].rows :
          new[m].rows[x].version >= mx[m].rows[x].version

\* A report is read.
LEMMA UpdateNetworkLemma ==
    ASSUME NEW a, NEW mx \in MatrixOf(a), NEW body, NEW p, BodyOf(body, p),
           NEW new, new = update_network_stat(mx, body)
    PROVE  ReportStep(a, mx, body, new)
<1>1. DOMAIN mx \in SUBSET Messages /\ \A m \in DOMAIN mx : mx[m] \in MessageOf(a)
  BY MatrixLemma
<1>2. /\ DOMAIN new = DOMAIN mx \cup DOMAIN body
      /\ new = [m \in DOMAIN mx \cup DOMAIN body |-> new[m]]
      /\ \A m \in DOMAIN new :
            new[m] = IF m \notin DOMAIN body THEN mx[m]
                     ELSE IF m \in DOMAIN mx THEN update_message(mx[m], body[m])
                     ELSE add_message(body[m])
  BY DEF update_network_stat
<1>3. New \in MessageOf(a) /\ DOMAIN New.rows = {}
  BY NewLemma
<1>4. ASSUME NEW m \in DOMAIN body, m \in DOMAIN mx
      PROVE  new[m] \in MessageOf(a) /\ ReportChange(mx[m], body[m], new[m])
  <2>1. new[m] = update_message(mx[m], body[m]) /\ mx[m] \in MessageOf(a) /\ body[m] \in Seq(Entry)
    BY <1>1, <1>2, <1>4 DEF BodyOf
  <2> QED  BY <2>1, UpdateMessageLemma
<1>5. ASSUME NEW m \in DOMAIN body, m \notin DOMAIN mx
      PROVE  new[m] \in MessageOf(a) /\ ReportChange(New, body[m], new[m])
  <2>1. new[m] = update_message(New, body[m]) /\ body[m] \in Seq(Entry)
    BY <1>2, <1>5 DEF BodyOf, add_message
  <2> QED  BY <1>3, <2>1, UpdateMessageLemma
<1>6. new \in MatrixOf(a)
  <2>1. \A m \in DOMAIN new : new[m] \in MessageOf(a)
    BY <1>1, <1>2, <1>4, <1>5
  <2>2. new \in [DOMAIN new -> MessageOf(a)] /\ DOMAIN new \in SUBSET Messages
    BY <1>1, <1>2, <2>1 DEF BodyOf
  <2> QED  BY <2>2, MatrixIntro
<1>7. ASSUME NEW m \in DOMAIN mx, NEW x \in DOMAIN mx[m].rows
      PROVE  new[m].rows[x].version >= mx[m].rows[x].version
  <2>1. CASE m \in DOMAIN body
    BY <1>4, <2>1 DEF ReportChange
  <2>2. CASE m \notin DOMAIN body
    <3>1. mx[m].rows \in RowsOf(a) /\ new[m] = mx[m]
      BY <1>1, <1>2, <2>2 DEF MessageOf
    <3>2. mx[m].rows[x].version \in Int
      BY <3>1, VersionLemma
    <3> QED  BY <3>1, <3>2
  <2> QED  BY <2>1, <2>2
<1>8. ASSUME NEW m \in DOMAIN new, NEW x \in DOMAIN new[m].rows
      PROVE  \/ m \in DOMAIN mx /\ x \in DOMAIN mx[m].rows /\ new[m].rows[x] = mx[m].rows[x]
             \/ /\ m \in DOMAIN body
                /\ \E i \in 1..Len(body[m]) : /\ x = body[m][i].name
                                              /\ new[m].rows[x] = body[m][i].row
  <2>1. CASE m \in DOMAIN body /\ m \in DOMAIN mx
    BY <1>4, <2>1 DEF ReportChange
  <2>2. CASE m \in DOMAIN body /\ m \notin DOMAIN mx
    BY <1>3, <1>5, <2>2 DEF ReportChange
  <2>3. CASE m \notin DOMAIN body
    BY <1>2, <2>3
  <2> QED  BY <2>1, <2>2, <2>3
<1> QED  BY <1>2, <1>6, <1>7, <1>8 DEF ReportStep

-----------------------------------------------------------------------------
(* What an agent writes into a report. *)

\* Names are ordered.
LEMMA BeforeLemma ==
    /\ IsFiniteSet(Names)
    /\ \A x \in Names : x[1] \in Int /\ x[2] \in Int /\ x[2] \in Nodes
    /\ \A x \in Names : ~Before(x, x)
    /\ \A x, y \in Names : x = y \/ Before(x, y) \/ Before(y, x)
    /\ \A x, y, z \in Names : Before(x, y) /\ Before(y, z) => Before(x, z)
<1>0. MaxMarks \in Nat /\ Nodes \subseteq Nat /\ IsFiniteSet(Nodes)
  BY Sizes
<1>1. IsFiniteSet(Names)
  <2>1. IsFiniteSet(0..MaxMarks)
    BY <1>0, FS_Interval
  <2> QED  BY <1>0, <2>1, FS_Product DEF Names
<1>2. \A x \in Names : x[1] \in Int /\ x[2] \in Int /\ x[2] \in Nodes /\ x = <<x[1], x[2]>>
  <2> TAKE x \in Names
  <2>1. PICK i \in 0..MaxMarks, n \in Nodes : x = <<i, n>>
    BY DEF Names
  <2>2. i \in Int /\ n \in Int
    BY <1>0
  <2> QED  BY <2>1, <2>2
<1>3. \A x \in Names : ~Before(x, x)
  BY <1>2 DEF Before
<1>4. \A x, y \in Names : x = y \/ Before(x, y) \/ Before(y, x)
  <2> TAKE x, y \in Names
  <2>1. x = <<x[1], x[2]>> /\ y = <<y[1], y[2]>> /\ x[1] \in Int /\ x[2] \in Int
        /\ y[1] \in Int /\ y[2] \in Int
    BY <1>2
  <2>2. x[1] = y[1] /\ x[2] = y[2] => x = y
    BY <2>1
  <2> QED  BY <2>1, <2>2 DEF Before
<1>5. \A x, y, z \in Names : Before(x, y) /\ Before(y, z) => Before(x, z)
  <2> TAKE x, y, z \in Names
  <2>1. x[1] \in Int /\ x[2] \in Int /\ y[1] \in Int /\ y[2] \in Int /\ z[1] \in Int /\ z[2] \in Int
    BY <1>2
  <2> QED  BY <2>1 DEF Before
<1> QED  BY <1>1, <1>2, <1>3, <1>4, <1>5

\* A set of names in order is a sequence of them, as long as the set is large:
\* the numbers of names before a name are all the numbers below that.
LEMMA InOrderLemma ==
    ASSUME NEW S \in SUBSET Names, NEW s, s = InOrder(S)
    PROVE  s \in Seq(S) /\ (S # {} => Len(s) \in Nat \ {0})
<1> DEFINE ahead(x) == {y \in S : Before(y, x)}
           c == Cardinality(S)
           rank == [x \in S |-> Cardinality(ahead(x)) + 1]
<1>1. IsFiniteSet(S) /\ c \in Nat
  BY BeforeLemma, FS_Subset, FS_CardinalityType
<1>2. \A x \in S : /\ IsFiniteSet(ahead(x)) /\ Cardinality(ahead(x)) \in Nat
                   /\ Cardinality(ahead(x)) < c
  <2> TAKE x \in S
  <2>1. ahead(x) \in SUBSET S /\ x \notin ahead(x)
    BY BeforeLemma
  <2> HIDE DEF ahead
  <2>2. IsFiniteSet(ahead(x)) /\ Cardinality(ahead(x)) \in Nat
    BY <1>1, <2>1, FS_Subset, FS_CardinalityType
  <2>3. Cardinality(ahead(x)) <= c /\ (Cardinality(ahead(x)) = c => ahead(x) = S)
    BY <1>1, <2>1, FS_Subset
  <2> QED  BY <1>1, <2>1, <2>2, <2>3
<1>3. \A x, y \in S : Before(x, y) => Cardinality(ahead(x)) # Cardinality(ahead(y))
  <2> SUFFICES ASSUME NEW x \in S, NEW y \in S, Before(x, y)
               PROVE  Cardinality(ahead(x)) # Cardinality(ahead(y))
    OBVIOUS
  <2>1. ahead(x) \in SUBSET ahead(y) /\ x \in ahead(y) /\ x \notin ahead(x)
    <3>1. x \in ahead(y) /\ x \notin ahead(x)
      BY BeforeLemma
    <3>2. \A z \in S : Before(z, x) => Before(z, y)
      BY BeforeLemma
    <3> QED  BY <3>1, <3>2
  <2>2. IsFiniteSet(ahead(y))
    BY <1>2
  <2> HIDE DEF ahead
  <2> QED  BY <2>1, <2>2, FS_Subset
<1>4. rank \in Injection(S, 1..c)
  <2> HIDE DEF ahead
  <2>1. rank \in [S -> 1..c]
    BY <1>1, <1>2
  <2>2. \A x, y \in S : rank[x] = rank[y] => x = y
    <3> TAKE x, y \in S
    <3>1. x = y \/ Before(x, y) \/ Before(y, x)
      BY BeforeLemma
    <3>2. Cardinality(ahead(x)) \in Nat /\ Cardinality(ahead(y)) \in Nat
      BY <1>2
    <3> QED  BY <1>3, <3>1, <3>2
  <2> QED  BY <2>1, <2>2 DEF Injection, IsInjective
<1>5. IsFiniteSet(1..c) /\ Cardinality(1..c) = c
  BY <1>1, FS_Interval
<1>6. rank \in Surjection(S, 1..c)
  BY <1>1, <1>4, <1>5, FS_Injection
<1>7. ASSUME NEW k \in 1..c PROVE s[k] \in S
  <2>1. PICK x \in S : rank[x] = k
    BY <1>6 DEF Surjection
  <2>2. Cardinality(ahead(x)) = k - 1
    <3>1. Cardinality(ahead(x)) \in Nat
      BY <1>2
    <3> HIDE DEF ahead
    <3> QED  BY <2>1, <3>1
  <2>3. s[k] = CHOOSE z \in S : Cardinality(ahead(z)) = k - 1
    BY DEF InOrder
  <2> HIDE DEF ahead
  <2> QED  BY <2>2, <2>3
<1>8. s \in [1..c -> S]
  <2> DEFINE place(k) == CHOOSE x \in S : Cardinality(ahead(x)) = k - 1
  <2>1. s = [k \in 1..c |-> place(k)]
    BY DEF InOrder
  <2> HIDE DEF place, ahead
  <2> QED  BY <1>7, <2>1
<1>9. s \in Seq(S) /\ Len(s) = c
  BY <1>1, <1>8, SeqDef, LenProperties
<1>10. S # {} => c # 0
  BY <1>1, FS_EmptySet
<1> QED  BY <1>1, <1>9, <1>10

\* What is read of a description: what is left of rows of the selected names,
\* under names that stand for the same nodes.
EntriesOf(rows, sel) ==
    {e \in [name : Nat \X Nodes, row : Row] :
        \E x \in sel : e.name[2] = x[2] /\ BeginningOf(e.row, rows[x])}

LEMMA EntryIntro ==
    ASSUME NEW rows, NEW sel \in SUBSET Names, NEW x \in sel, rows[x] \in Row,
           NEW d \in Nat, NEW r \in Row, BeginningOf(r, rows[x])
    PROVE  [name |-> <<d, x[2]>>, row |-> r] \in EntriesOf(rows, sel)
<1>1. x[2] \in Nodes
  BY BeforeLemma
<1> DEFINE e == [name |-> <<d, x[2]>>, row |-> r]
<1>2. e \in [name : Nat \X Nodes, row : Row] /\ e.name[2] = x[2] /\ e.row = r
  BY <1>1
<1> HIDE DEF e
<1>3. e \in EntriesOf(rows, sel)
  BY <1>2 DEF EntriesOf
<1> QED  BY <1>3 DEF e

LEMMA DescriptionLemma ==
    ASSUME NEW rows, NEW sel, sel \subseteq DOMAIN rows, DOMAIN rows \in SUBSET Names,
           \A x \in DOMAIN rows : rows[x] \in Row,
           NEW list \in GetSubSetDescription(rows, sel)
    PROVE  list \in Seq(EntriesOf(rows, sel))
<1> DEFINE E == EntriesOf(rows, sel)
           s == InOrder(sel)
           marks == Marks(rows, sel)
           read(x, d, r) == [name |-> <<d, x[2]>>, row |-> r]
           d1 == s[1][1] + marks
           q3 == [i \in 1..(Len(s) - 1) |-> read(s[i + 1], 0, rows[s[i + 1]])]
<1>1. CASE sel = {}
  <2>1. list = <<>>
    BY <1>1 DEF GetSubSetDescription
  <2> QED  BY <2>1
<1>2. CASE sel # {}
  <2>1. list \in get_node_from_stat(rows, s, marks)
    BY <1>2 DEF GetSubSetDescription
  <2>2. s \in Seq(sel) /\ Len(s) \in Nat \ {0}
    BY <1>2, InOrderLemma
  <2>3. \A i \in 1..Len(s) : s[i] \in sel
    BY <2>2, ElementOfSeq
  <2>4. s[1] \in sel /\ marks \in {0, 1}
    BY <2>2, <2>3 DEF Marks
  <2>5. s[1][1] \in Nat
    <3>1. s[1] \in Names
      BY <2>4
    <3> QED  BY <3>1, Sizes DEF Names
  <2>6. d1 \in Nat
    <3> HIDE DEF s, marks
    <3> QED  BY <2>4, <2>5
  <2>7. \/ list = <<read(s[1], 0, rows[s[1]])>> \o q3
        \/ \E r \in Beginnings(rows[s[1]]) :
              list = <<read(s[1], d1, r), read(s[1], 0, rows[s[1]])>> \o q3
    <3> HIDE DEF s, marks
    <3> QED  BY <2>1 DEF get_node_from_stat
  <2> HIDE DEF s, marks, d1
  <2>8. \A x \in sel, d \in Nat, r \in Row : BeginningOf(r, rows[x]) => read(x, d, r) \in E
    BY EntryIntro
  <2>9. \A x \in sel, d \in Nat : read(x, d, rows[x]) \in E
    BY <2>8, BeginningSame
  <2>10. q3 \in Seq(E)
    <3>1. \A i \in 1..(Len(s) - 1) : s[i + 1] \in sel
      BY <2>2, <2>3
    <3>2. \A i \in 1..(Len(s) - 1) : read(s[i + 1], 0, rows[s[i + 1]]) \in E
      BY <2>9, <3>1
    <3>3. Len(s) - 1 \in Nat
      BY <2>2
    <3> HIDE DEF read, E
    <3>4. q3 \in [1..(Len(s) - 1) -> E]
      BY <3>2
    <3> HIDE DEF q3
    <3> QED  BY <3>3, <3>4, SeqDef
  <2>11. read(s[1], 0, rows[s[1]]) \in E
    BY <2>4, <2>9
  <2>12. CASE list = <<read(s[1], 0, rows[s[1]])>> \o q3
    <3> HIDE DEF read, q3, E
    <3>1. <<read(s[1], 0, rows[s[1]])>> \in Seq(E)
      BY <2>11
    <3>2. list \in Seq(E)
      BY <2>10, <2>12, <3>1, ConcatProperties
    <3> QED  BY <3>2 DEF E
  <2>13. CASE \E r \in Beginnings(rows[s[1]]) :
                list = <<read(s[1], d1, r), read(s[1], 0, rows[s[1]])>> \o q3
    <3>1. PICK r \in Beginnings(rows[s[1]]) :
             list = <<read(s[1], d1, r), read(s[1], 0, rows[s[1]])>> \o q3
      BY <2>13
    <3>2. r \in Row /\ BeginningOf(r, rows[s[1]])
      BY <2>4, BeginningsLemma
    <3>3. read(s[1], d1, r) \in E
      BY <2>4, <2>6, <2>8, <3>2
    <3> HIDE DEF read, q3, E
    <3>4. <<read(s[1], d1, r), read(s[1], 0, rows[s[1]])>> \in Seq(E)
      BY <2>11, <3>3
    <3>5. list \in Seq(E)
      BY <2>10, <3>1, <3>4, ConcatProperties
    <3> QED  BY <3>5 DEF E
  <2> QED  BY <2>7, <2>12, <2>13
<1> QED  BY <1>1, <1>2

\* The rows of a matrix, the missing ones apart, are what is left of those of
\* their nodes.
Sourced(mx, p) ==
    \A m \in DOMAIN mx : \A x \in DOMAIN mx[m].rows :
        mx[m].rows[x] = NULL \/ Told(mx[m].rows[x], p[x[2]][m])

\* A body that describes rows of mx, none of them missing.
Describes(mx, body) ==
    \A m \in DOMAIN body :
        /\ m \in DOMAIN mx /\ ~HasNull(mx[m])
        /\ \E sel \in SUBSET DOMAIN mx[m].rows :
              body[m] \in GetSubSetDescription(mx[m].rows, sel)

LEMMA DescribedLemma ==
    ASSUME NEW a, NEW rows \in RowsOf(a), NEW m \in Messages, NEW p \in Pasts,
           \A x \in DOMAIN rows : rows[x] # NULL /\ Told(rows[x], p[x[2]][m]),
           NEW sel \in SUBSET DOMAIN rows, NEW list \in GetSubSetDescription(rows, sel),
           \A e \in ToSet(list) : e.name \in Names
    PROVE  /\ list \in Seq(Entry)
           /\ \A i \in 1..Len(list) : Told(list[i].row, p[list[i].name[2]][m])
<1>1. DOMAIN rows \in SUBSET Names /\ \A x \in DOMAIN rows : rows[x] \in Row
  BY RowsLemma
<1>2. list \in Seq(EntriesOf(rows, sel))
  BY <1>1, DescriptionLemma
<1>3. ASSUME NEW i \in 1..Len(list)
      PROVE  list[i] \in Entry /\ Told(list[i].row, p[list[i].name[2]][m])
  <2>0. PICK e : e = list[i]
    OBVIOUS
  <2>1. e \in EntriesOf(rows, sel) /\ e \in ToSet(list)
    BY <1>2, <2>0, ElementOfSeq, ToSetLemma
  <2>2. PICK x \in sel : e.name[2] = x[2] /\ BeginningOf(e.row, rows[x])
    BY <2>1 DEF EntriesOf
  <2>3. e \in [name : Nat \X Nodes, row : Row] /\ e.name \in Names
    BY <2>1 DEF EntriesOf
  <2>4. e \in Entry /\ e.row \in Row
    BY <2>3 DEF Entry
  <2>5. rows[x] \in Row /\ x[2] \in Nodes
    BY <1>1, BeforeLemma
  <2>6. PICK w \in p[x[2]][m] : BeginningOf(rows[x], w)
    BY DEF Told
  <2>7. w \in Row
    BY <2>5 DEF Pasts
  <2>8. BeginningOf(e.row, w)
    BY <2>2, <2>4, <2>5, <2>6, <2>7, BeginningTwice
  <2> QED  BY <2>0, <2>2, <2>4, <2>6, <2>8 DEF Told
<1>4. list \in Seq(Entry)
  BY <1>2, <1>3, SeqOfElements
<1> QED  BY <1>3, <1>4

\* A bundle that is sent.
LEMMA SentFields ==
    ASSUME NEW a, NEW b, NEW conv, NEW body, NEW r \in Sent(a, b, conv, body)
    PROVE  /\ r.from = a /\ r.to = b /\ r.conv = conv /\ r.body = body
           /\ \A m \in DOMAIN body : \A e \in ToSet(body[m]) : e.name \in Names
BY DEF Sent

LEMMA SentLemma ==
    ASSUME NEW a, NEW mx \in MatrixOf(a), NEW p \in Pasts, Sourced(mx, p),
           NEW body, Describes(mx, body),
           \A m \in DOMAIN body : \A e \in ToSet(body[m]) : e.name \in Names
    PROVE  BodyOf(body, p)
<1>1. DOMAIN mx \in SUBSET Messages /\ \A m \in DOMAIN mx : mx[m].rows \in RowsOf(a)
  BY MatrixLemma
<1>2. DOMAIN body \subseteq Messages
  BY <1>1 DEF Describes
<1>3. ASSUME NEW m \in DOMAIN body
      PROVE  /\ body[m] \in Seq(Entry)
             /\ \A i \in 1..Len(body[m]) :
                   Told(body[m][i].row, p[body[m][i].name[2]][m])
  <2>1. m \in DOMAIN mx /\ ~HasNull(mx[m]) /\ m \in Messages
    BY <1>2 DEF Describes
  <2>2. PICK sel \in SUBSET DOMAIN mx[m].rows :
           body[m] \in GetSubSetDescription(mx[m].rows, sel)
    BY DEF Describes
  <2>3. PICK rows, list : rows = mx[m].rows /\ list = body[m]
    OBVIOUS
  <2>4. /\ rows \in RowsOf(a) /\ sel \in SUBSET DOMAIN rows
        /\ list \in GetSubSetDescription(rows, sel)
    BY <1>1, <2>1, <2>2, <2>3
  <2>5. \A x \in DOMAIN rows : rows[x] # NULL /\ Told(rows[x], p[x[2]][m])
    BY <2>1, <2>3 DEF Sourced, HasNull
  <2>6. \A e \in ToSet(list) : e.name \in Names
    BY <2>3
  <2>7. /\ list \in Seq(Entry)
        /\ \A i \in 1..Len(list) : Told(list[i].row, p[list[i].name[2]][m])
    BY <2>1, <2>4, <2>5, <2>6, DescribedLemma
  <2> QED  BY <2>3, <2>7
<1> QED  BY <1>2, <1>3 DEF BodyOf

\* Each message of a body has one of its readings.
LEMMA ReadingsLemma ==
    ASSUME NEW f, NEW body \in Readings(f)
    PROVE  DOMAIN body = DOMAIN f /\ \A m \in DOMAIN f : body[m] \in f[m]
BY DEF Readings

\* The whole matrix is described, or the newer rows of what was asked about.
LEMMA WholeDescribed ==
    ASSUME NEW mx, \A m \in DOMAIN mx : ~HasNull(mx[m]), NEW body \in get_stat_to_send(mx)
    PROVE  Describes(mx, body)
<1> DEFINE f == [m \in DOMAIN mx |-> GetDescription(mx[m].rows)]
<1>1. body \in Readings(f)
  BY DEF get_stat_to_send
<1>2. DOMAIN f = DOMAIN mx
      /\ \A m \in DOMAIN mx : f[m] = GetSubSetDescription(mx[m].rows, DOMAIN mx[m].rows)
  BY DEF GetDescription
<1> HIDE DEF f
<1>3. /\ DOMAIN body = DOMAIN mx
      /\ \A m \in DOMAIN mx : body[m] \in GetSubSetDescription(mx[m].rows, DOMAIN mx[m].rows)
  BY <1>1, <1>2, ReadingsLemma
<1>4. \A m \in DOMAIN mx : \E sel \in SUBSET DOMAIN mx[m].rows :
         body[m] \in GetSubSetDescription(mx[m].rows, sel)
  <2> TAKE m \in DOMAIN mx
  <2>1. DOMAIN mx[m].rows \in SUBSET DOMAIN mx[m].rows
    OBVIOUS
  <2> QED  BY <1>3, <2>1, Zenon
<1> QED  BY <1>3, <1>4 DEF Describes

LEMMA NewerDescribed ==
    ASSUME NEW mx, NEW body, \A m \in Answered(mx, body) : ~HasNull(mx[m]),
           NEW new \in get_stat_to_send_based_on_versions(mx, body)
    PROVE  Describes(mx, new)
<1> DEFINE sel(m) == Newer(mx[m].rows, body[m])
           ms == {m \in Answered(mx, body) : sel(m) # {}}
           f == [m \in ms |-> GetSubSetDescription(mx[m].rows, sel(m))]
<1>1. new \in Readings(f)
  BY DEF get_stat_to_send_based_on_versions
<1>2. \A m \in ms : m \in DOMAIN mx /\ ~HasNull(mx[m])
  BY DEF Answered
<1>3. \A m \in ms : sel(m) \in SUBSET DOMAIN mx[m].rows
  BY DEF Newer
<1> HIDE DEF sel, ms
<1>4. DOMAIN f = ms /\ \A m \in ms : f[m] = GetSubSetDescription(mx[m].rows, sel(m))
  OBVIOUS
<1> HIDE DEF f
<1>5. DOMAIN new = ms /\ \A m \in ms : new[m] \in GetSubSetDescription(mx[m].rows, sel(m))
  BY <1>1, <1>4, ReadingsLemma
<1>6. \A m \in ms : \E t \in SUBSET DOMAIN mx[m].rows :
         new[m] \in GetSubSetDescription(mx[m].rows, t)
  BY <1>3, <1>5
<1> QED  BY <1>2, <1>5, <1>6 DEF Describes

-----------------------------------------------------------------------------
(* The inductive invariant. *)

\* Every matrix has its shape, and what it says of a node is what is left of what
\* that node once said.
MatrixInv ==
    /\ DOMAIN messagesMatrix = Nodes
    /\ past \in Pasts
    /\ \A a \in Nodes : messagesMatrix[a] \in MatrixOf(a) /\ Sourced(messagesMatrix[a], past)

\* So does every report in flight; requests may say what they like.
ReportOf(r, p) ==
    /\ r.from \in Nodes /\ r.to \in Nodes /\ r.from # r.to
    /\ r.conv \in 6..9
    /\ r.conv \in {6, 7} => BodyOf(r.body, p)

NetInv == \A r \in net : ReportOf(r, past)

\* No copy is older than its message, and buffers are not too full.
CopyInv ==
    /\ now \in [Messages -> -1..axe_length]
    /\ age \in [Nodes -> [Messages -> Int]]
    /\ \A a \in Nodes : \A m \in Messages : age[a][m] \in -1..now[m]
    /\ \A a \in Nodes : Cardinality(Held(a)) <= max_number_of_bundles
    /\ original \subseteq Messages

RestInv ==
    /\ stat_sprying_policy \in Policies
    /\ DOMAIN bundlesSeen = Nodes /\ \A a \in Nodes : bundlesSeen[a] \subseteq Messages
    /\ DOMAIN updatedSince = Nodes /\ \A a \in Nodes : updatedSince[a] \subseteq Junior(a)
    /\ arrivals \in 0..MaxArrivals /\ exchanges \in 0..MaxExchanges
    /\ crashed \in BOOLEAN

StatInv == MatrixInv /\ NetInv /\ CopyInv /\ RestInv

\* What NeverOlder says of a step.
Advances ==
    \A a \in Nodes : \A m \in Known(a) :
        \A x \in DOMAIN messagesMatrix[a][m].rows \ {Name(a)} :
            x \in DOMAIN messagesMatrix'[a][m].rows =>
                messagesMatrix'[a][m].rows[x].version >= messagesMatrix[a][m].rows[x].version

-----------------------------------------------------------------------------
(* The parts of a step. *)

PastGrows(p, q) == \A b \in Nodes, m \in Messages : p[b][m] \subseteq q[b][m]

\* What is told once is told for good.
LEMMA ToldGrows ==
    ASSUME NEW r, NEW V, NEW W, V \subseteq W, Told(r, V)
    PROVE  Told(r, W)
BY DEF Told

\* Nothing that is sourced stops being so.
LEMMA SourcedGrows ==
    ASSUME NEW a, NEW mx \in MatrixOf(a), NEW p, NEW q, PastGrows(p, q), Sourced(mx, p)
    PROVE  Sourced(mx, q)
<1>1. DOMAIN mx \subseteq Messages /\ \A m \in DOMAIN mx : mx[m].rows \in RowsOf(a)
  BY MatrixLemma
<1>2. \A m \in DOMAIN mx : \A x \in DOMAIN mx[m].rows : x[2] \in Nodes
  BY <1>1, RowsLemma, BeforeLemma
<1>3. ASSUME NEW m \in DOMAIN mx, NEW x \in DOMAIN mx[m].rows, mx[m].rows[x] # NULL
      PROVE  Told(mx[m].rows[x], q[x[2]][m])
  <2>1. Told(mx[m].rows[x], p[x[2]][m])
    BY <1>3 DEF Sourced
  <2>2. p[x[2]][m] \subseteq q[x[2]][m]
    BY <1>1, <1>2 DEF PastGrows
  <2> QED  BY <2>1, <2>2, ToldGrows
<1> QED  BY <1>3 DEF Sourced

LEMMA BodyGrows ==
    ASSUME NEW body, NEW p, NEW q, PastGrows(p, q), BodyOf(body, p)
    PROVE  BodyOf(body, q)
<1>1. \A m \in DOMAIN body : m \in Messages /\ body[m] \in Seq(Entry)
  BY DEF BodyOf
<1>2. ASSUME NEW m \in DOMAIN body, NEW i \in 1..Len(body[m])
      PROVE  Told(body[m][i].row, q[body[m][i].name[2]][m])
  <2>1. body[m][i] \in Entry
    BY <1>1, ElementOfSeq
  <2>2. body[m][i].name \in Names
    BY <2>1 DEF Entry
  <2>3. body[m][i].name[2] \in Nodes
    BY <2>2, BeforeLemma
  <2>4. Told(body[m][i].row, p[body[m][i].name[2]][m])
    BY DEF BodyOf
  <2>5. p[body[m][i].name[2]][m] \subseteq q[body[m][i].name[2]][m]
    BY <1>1, <2>3 DEF PastGrows
  <2> QED  BY <2>4, <2>5, ToldGrows
<1> QED  BY <1>1, <1>2 DEF BodyOf

\* The rows an agent has about itself are known in p.
OwnKnown(a, mx, p) ==
    \A m \in DOMAIN mx : Name(a) \in DOMAIN mx[m].rows =>
        mx[m].rows[Name(a)] = NULL \/ Told(mx[m].rows[Name(a)], p[a][m])

\* A step of the agent itself.
LEMMA OwnSourced ==
    ASSUME NEW a, NEW mx, NEW new, NEW p, Sourced(mx, p), OwnStep(a, mx, new),
           OwnKnown(a, new, p)
    PROVE  Sourced(new, p)
<1>1. Name(a)[2] = a
  BY DEF Name
<1>2. ASSUME NEW m \in DOMAIN new, NEW x \in DOMAIN new[m].rows
      PROVE  new[m].rows[x] = NULL \/ Told(new[m].rows[x], p[x[2]][m])
  <2>1. CASE x = Name(a)
    BY <1>1, <2>1 DEF OwnKnown
  <2>2. CASE x # Name(a)
    BY <2>2 DEF OwnStep, Sourced
  <2> QED  BY <2>1, <2>2
<1> QED  BY <1>2 DEF Sourced

\* A report that is read.
LEMMA ReportSourced ==
    ASSUME NEW a, NEW mx, NEW body, NEW new, NEW p, Sourced(mx, p), BodyOf(body, p),
           ReportStep(a, mx, body, new)
    PROVE  Sourced(new, p)
BY DEF Sourced, BodyOf, ReportStep

\* What Becomes remembers: the rows an agent writes, and those it has already.
LEMMA PastLemma ==
    ASSUME NEW a \in Nodes, messagesMatrix[a] \in MatrixOf(a), past \in Pasts,
           Sourced(messagesMatrix[a], past),
           NEW W \in SUBSET MatrixOf(a), NEW mx2, Becomes(a, W, mx2)
    PROVE  /\ past' \in Pasts
           /\ PastGrows(past, past')
           /\ \A mx \in W : OwnKnown(a, mx, past')
<1> DEFINE own(x, m) == IF m \in DOMAIN x /\ Name(a) \in DOMAIN x[m].rows
                        THEN {x[m].rows[Name(a)]} \ {NULL} ELSE {}
           new(m) == (UNION {own(x, m) : x \in W}) \ own(messagesMatrix[a], m)
           f == [m \in Messages |-> past[a][m] \cup new(m)]
<1>1. past' = [past EXCEPT ![a] = f]
  BY DEF Becomes
<1>2. ASSUME NEW mx \in MatrixOf(a), NEW m PROVE own(mx, m) \in SUBSET Row
  <2>1. CASE m \in DOMAIN mx /\ Name(a) \in DOMAIN mx[m].rows
    <3>1. mx[m].rows \in RowsOf(a)
      BY <2>1, MatrixLemma
    <3>2. mx[m].rows[Name(a)] \in Row \cup {NULL}
      BY <2>1, <3>1, RowsLemma
    <3> QED  BY <2>1, <3>2
  <2>2. CASE ~(m \in DOMAIN mx /\ Name(a) \in DOMAIN mx[m].rows)
    BY <2>2
  <2> QED  BY <2>1, <2>2
<1>3. ASSUME NEW mx \in MatrixOf(a), NEW m \in DOMAIN mx, Name(a) \in DOMAIN mx[m].rows,
             mx[m].rows[Name(a)] # NULL
      PROVE  m \in Messages /\ mx[m].rows[Name(a)] \in own(mx, m)
  BY <1>3, MatrixLemma
<1>4. ASSUME NEW m \in Messages, NEW r \in own(messagesMatrix[a], m)
      PROVE  Told(r, past[a][m])
  <2>1. /\ m \in DOMAIN messagesMatrix[a] /\ Name(a) \in DOMAIN messagesMatrix[a][m].rows
        /\ r = messagesMatrix[a][m].rows[Name(a)] /\ r # NULL
    BY <1>4
  <2>2. Name(a)[2] = a
    BY DEF Name
  <2> HIDE DEF own
  <2> QED  BY <2>1, <2>2 DEF Sourced
<1> HIDE DEF own
<1>5. \A m \in Messages : new(m) \in SUBSET Row
  BY <1>2
<1>6. \A m \in Messages : \A mx \in W : \A r \in own(mx, m) :
         r \in new(m) \/ r \in own(messagesMatrix[a], m)
  OBVIOUS
<1> HIDE DEF new
<1>7. f \in [Messages -> SUBSET Row]
  BY <1>5 DEF Pasts
<1>8. \A m \in Messages : f[m] = past[a][m] \cup new(m)
  OBVIOUS
<1> HIDE DEF f
<1>9. past' \in Pasts /\ past'[a] = f /\ \A b \in Nodes : b # a => past'[b] = past[b]
  BY <1>1, <1>7 DEF Pasts
<1>10. PastGrows(past, past')
  BY <1>8, <1>9 DEF PastGrows
<1>11. ASSUME NEW mx \in W, NEW m \in DOMAIN mx, Name(a) \in DOMAIN mx[m].rows,
              mx[m].rows[Name(a)] # NULL
       PROVE  Told(mx[m].rows[Name(a)], past'[a][m])
  <2>1. PICK r : r = mx[m].rows[Name(a)]
    OBVIOUS
  <2>2. m \in Messages /\ r \in own(mx, m)
    BY <1>3, <1>11, <2>1
  <2>3. CASE r \in new(m)
    <3>1. r \in Row /\ r \in past'[a][m]
      BY <1>5, <1>8, <1>9, <2>2, <2>3
    <3> QED  BY <2>1, <3>1, BeginningSame DEF Told
  <2>4. CASE r \in own(messagesMatrix[a], m)
    <3>1. Told(r, past[a][m])
      BY <1>4, <2>2, <2>4
    <3>2. past[a][m] \subseteq past'[a][m]
      BY <1>10, <2>2 DEF PastGrows
    <3> QED  BY <2>1, <3>1, <3>2, ToldGrows
  <2> QED  BY <1>6, <2>2, <2>3, <2>4
<1> QED  BY <1>9, <1>10, <1>11 DEF OwnKnown

\* The matrix of one agent changes.
LEMMA AdvancesOne ==
    ASSUME MatrixInv, NEW a \in Nodes, NEW mx,
           messagesMatrix' = [messagesMatrix EXCEPT ![a] = mx],
           \A m \in Known(a) : \A x \in DOMAIN messagesMatrix[a][m].rows \ {Name(a)} :
               x \in DOMAIN mx[m].rows =>
                   mx[m].rows[x].version >= messagesMatrix[a][m].rows[x].version
    PROVE  Advances
<1>1. /\ messagesMatrix'[a] = mx
      /\ \A b \in Nodes : b # a => messagesMatrix'[b] = messagesMatrix[b]
  BY DEF MatrixInv
<1>2. ASSUME NEW b \in Nodes, NEW m \in Known(b), NEW x \in DOMAIN messagesMatrix[b][m].rows
      PROVE  messagesMatrix[b][m].rows[x].version \in Int
  <2>1. messagesMatrix[b] \in MatrixOf(b) /\ m \in DOMAIN messagesMatrix[b]
    BY DEF MatrixInv, Known
  <2>2. messagesMatrix[b][m].rows \in RowsOf(b)
    BY <2>1, MatrixLemma
  <2> QED  BY <2>2, VersionLemma
<1>3. SUFFICES ASSUME NEW b \in Nodes, NEW m \in Known(b),
                      NEW x \in DOMAIN messagesMatrix[b][m].rows \ {Name(b)},
                      x \in DOMAIN messagesMatrix'[b][m].rows
               PROVE  messagesMatrix'[b][m].rows[x].version
                          >= messagesMatrix[b][m].rows[x].version
  BY DEF Advances
<1>4. CASE b = a
  BY <1>1, <1>3, <1>4
<1>5. CASE b # a
  BY <1>1, <1>2, <1>5
<1> QED  BY <1>4, <1>5

\* No matrix changes.
LEMMA AdvancesNone ==
    ASSUME MatrixInv, messagesMatrix' = messagesMatrix
    PROVE  Advances
<1>1. ASSUME NEW b \in Nodes, NEW m \in Known(b), NEW x \in DOMAIN messagesMatrix[b][m].rows
      PROVE  messagesMatrix[b][m].rows[x].version \in Int
  <2>1. messagesMatrix[b] \in MatrixOf(b) /\ m \in DOMAIN messagesMatrix[b]
    BY DEF MatrixInv, Known
  <2>2. messagesMatrix[b][m].rows \in RowsOf(b)
    BY <2>1, MatrixLemma
  <2> QED  BY <2>2, VersionLemma
<1> QED  BY <1>1 DEF Advances

\* What a step of a does to the matrices, for a report if it reads one.
MatrixEffect(mx1) ==
    /\ MatrixInv' /\ Advances
    /\ PastGrows(past, past')
    /\ Sourced(mx1, past')

LEMMA OthersSourced ==
    ASSUME MatrixInv, NEW a \in Nodes, NEW mx2 \in MatrixOf(a), Sourced(mx2, past'),
           messagesMatrix' = [messagesMatrix EXCEPT ![a] = mx2],
           past' \in Pasts, PastGrows(past, past')
    PROVE  MatrixInv'
<1>1. /\ messagesMatrix'[a] = mx2 /\ DOMAIN messagesMatrix' = Nodes
      /\ \A b \in Nodes : b # a => messagesMatrix'[b] = messagesMatrix[b]
  BY DEF MatrixInv
<1>2. \A b \in Nodes : messagesMatrix[b] \in MatrixOf(b) /\ Sourced(messagesMatrix[b], past)
  BY DEF MatrixInv
<1>3. \A b \in Nodes : Sourced(messagesMatrix[b], past')
  BY <1>2, SourcedGrows
<1>4. \A b \in Nodes : messagesMatrix'[b] \in MatrixOf(b) /\ Sourced(messagesMatrix'[b], past')
  BY <1>1, <1>2, <1>3
<1>5. DOMAIN messagesMatrix' = Nodes /\ past' \in Pasts
  BY <1>1
<1> QED  BY <1>4, <1>5 DEF MatrixInv

LEMMA OwnEffect ==
    ASSUME MatrixInv, NEW a \in Nodes, NEW mx1, NEW mx2,
           OwnStep(a, messagesMatrix[a], mx1), OwnStep(a, mx1, mx2),
           Becomes(a, {mx1, mx2}, mx2)
    PROVE  MatrixEffect(mx1) /\ Sourced(mx2, past')
<1> DEFINE mx == messagesMatrix[a]
<1>1. /\ mx \in MatrixOf(a) /\ Sourced(mx, past) /\ past \in Pasts
      /\ mx1 \in MatrixOf(a) /\ mx2 \in MatrixOf(a)
  BY DEF MatrixInv, OwnStep
<1>2. /\ past' \in Pasts /\ PastGrows(past, past')
      /\ OwnKnown(a, mx1, past') /\ OwnKnown(a, mx2, past')
  <2>1. PICK W \in SUBSET MatrixOf(a) : W = {mx1, mx2}
    BY <1>1
  <2>2. Becomes(a, W, mx2)
    BY <2>1
  <2> QED  BY <1>1, <2>1, <2>2, PastLemma
<1>3. Sourced(mx, past')
  BY <1>1, <1>2, SourcedGrows
<1>4. Sourced(mx1, past')
  BY <1>2, <1>3, OwnSourced
<1>5. Sourced(mx2, past')
  BY <1>2, <1>4, OwnSourced
<1>6. messagesMatrix' = [messagesMatrix EXCEPT ![a] = mx2]
  BY DEF Becomes
<1>7. MatrixInv'
  BY <1>1, <1>2, <1>5, <1>6, OthersSourced
<1>8. OwnStep(a, mx, mx2)
  BY OwnStepTwo
<1>9. ASSUME NEW m \in Known(a), NEW x \in DOMAIN mx[m].rows \ {Name(a)}, x \in DOMAIN mx2[m].rows
      PROVE  mx2[m].rows[x].version >= mx[m].rows[x].version
  <2>1. m \in DOMAIN mx
    BY DEF Known
  <2>2. m \in DOMAIN mx2 /\ mx2[m].rows[x] = mx[m].rows[x]
    BY <1>8, <1>9, <2>1 DEF OwnStep
  <2>3. mx[m].rows \in RowsOf(a)
    BY <1>1, <2>1, MatrixLemma
  <2>4. mx[m].rows[x].version \in Int
    BY <2>3, VersionLemma
  <2> QED  BY <2>2, <2>4
<1>10. Advances
  BY <1>6, <1>9, AdvancesOne
<1> QED  BY <1>2, <1>4, <1>5, <1>7, <1>10 DEF MatrixEffect

\* A step that writes one matrix.
LEMMA OneEffect ==
    ASSUME MatrixInv, NEW a \in Nodes, NEW mx1, OwnStep(a, messagesMatrix[a], mx1),
           Becomes(a, {mx1}, mx1)
    PROVE  MatrixEffect(mx1)
<1>1. OwnStep(a, mx1, mx1)
  BY OwnStepNone DEF OwnStep
<1>2. {mx1} = {mx1, mx1}
  OBVIOUS
<1>3. Becomes(a, {mx1, mx1}, mx1)
  BY <1>2
<1> QED  BY <1>1, <1>3, OwnEffect

LEMMA ReportEffect ==
    ASSUME MatrixInv, NEW a \in Nodes, NEW mx1, NEW body, NEW mx2,
           OwnStep(a, messagesMatrix[a], mx1), RowsKept(messagesMatrix[a], mx1),
           BodyOf(body, past), mx2 = update_network_stat(mx1, body),
           NEW W \in SUBSET {mx1}, mx1 \in W \/ mx1 = messagesMatrix[a], Becomes(a, W, mx2)
    PROVE  MatrixEffect(mx1)
<1> DEFINE mx == messagesMatrix[a]
<1>0. mx1 \in MatrixOf(a)
  BY DEF OwnStep
<1>00. ReportStep(a, mx1, body, mx2)
  BY <1>0, UpdateNetworkLemma
<1>1. /\ mx \in MatrixOf(a) /\ Sourced(mx, past) /\ past \in Pasts
      /\ mx2 \in MatrixOf(a)
  BY <1>00 DEF MatrixInv, ReportStep
<1>2. /\ past' \in Pasts /\ PastGrows(past, past')
      /\ \A x \in W : OwnKnown(a, x, past')
  <2>1. W \in SUBSET MatrixOf(a)
    BY <1>0
  <2> QED  BY <1>1, <2>1, PastLemma
<1>3. Sourced(mx, past')
  BY <1>1, <1>2, SourcedGrows
<1>4. Sourced(mx1, past')
  BY <1>2, <1>3, OwnSourced
<1>5. Sourced(mx2, past')
  <2>1. BodyOf(body, past')
    BY <1>2, BodyGrows
  <2> QED  BY <1>00, <1>4, <2>1, ReportSourced
<1>6. messagesMatrix' = [messagesMatrix EXCEPT ![a] = mx2]
  BY DEF Becomes
<1>7. MatrixInv'
  BY <1>1, <1>2, <1>5, <1>6, OthersSourced
<1>9. ASSUME NEW m \in Known(a), NEW x \in DOMAIN mx[m].rows \ {Name(a)}, x \in DOMAIN mx2[m].rows
      PROVE  mx2[m].rows[x].version >= mx[m].rows[x].version
  <2>1. m \in DOMAIN mx
    BY DEF Known
  <2>2. m \in DOMAIN mx1 /\ x \in DOMAIN mx1[m].rows
    BY <2>1 DEF RowsKept
  <2>3. mx1[m].rows[x] = mx[m].rows[x]
    BY <2>2 DEF OwnStep
  <2>4. mx2[m].rows[x].version >= mx1[m].rows[x].version
    BY <1>00, <2>2 DEF ReportStep
  <2> QED  BY <2>3, <2>4
<1>10. Advances
  BY <1>6, <1>9, AdvancesOne
<1> QED  BY <1>2, <1>4, <1>7, <1>10 DEF MatrixEffect

\* Reports in flight stay good, and those that are added are.
LEMMA NetLemma ==
    ASSUME NetInv, PastGrows(past, past'), \A r \in net' : r \in net \/ ReportOf(r, past')
    PROVE  NetInv'
<1>1. ASSUME NEW r \in net PROVE ReportOf(r, past')
  BY BodyGrows DEF NetInv, ReportOf
<1> QED  BY <1>1 DEF NetInv

\* The reports that fit.
LEMMA InBoundLemma ==
    ASSUME NEW S
    PROVE  InBound(S) \subseteq S
BY DEF InBound

\* Time only advances.
NowGrows ==
    /\ now' \in [Messages -> -1..axe_length]
    /\ \A m \in Messages : now[m] <= now'[m]

LEMMA NowSame ==
    ASSUME CopyInv, now' = now
    PROVE  NowGrows
<1>1. \A m \in Messages : now[m] \in Int
  BY Sizes DEF CopyInv
<1> QED  BY <1>1 DEF CopyInv, NowGrows

\* The copies of a become those of f.
LEMMA CopyLemma ==
    ASSUME CopyInv, NowGrows, NEW a \in Nodes, NEW f \in [Messages -> Int], Copies(a, f),
           \A m \in Messages : f[m] \in -1..now'[m],
           Cardinality({m \in Messages : f[m] >= 0}) <= max_number_of_bundles
    PROVE  CopyInv'
<1>1. age' = [age EXCEPT ![a] = f] /\ original' \subseteq Messages
  BY DEF Copies
<1>2. /\ age' \in [Nodes -> [Messages -> Int]] /\ age'[a] = f
      /\ \A b \in Nodes : b # a => age'[b] = age[b]
  BY <1>1 DEF CopyInv
<1>3. \A b \in Nodes : Cardinality(Held(b)') <= max_number_of_bundles
  <2> TAKE b \in Nodes
  <2>1. CASE b = a
    BY <1>2, <2>1 DEF Held
  <2>2. CASE b # a
    <3>1. Held(b)' = Held(b)
      BY <1>2, <2>2 DEF Held
    <3> QED  BY <3>1 DEF CopyInv
  <2> QED  BY <2>1, <2>2
<1>4. \A b \in Nodes : \A m \in Messages : age'[b][m] \in -1..now'[m]
  <2> TAKE b \in Nodes
  <2> TAKE m \in Messages
  <2>1. CASE b = a
    BY <1>2, <2>1
  <2>2. CASE b # a
    <3>1. age'[b][m] = age[b][m] /\ age[b][m] \in -1..now[m] /\ now[m] \in Int /\ now'[m] \in Int
          /\ now[m] <= now'[m]
      BY <1>2, <2>2, Sizes DEF CopyInv, NowGrows
    <3> QED  BY <3>1
  <2> QED  BY <2>1, <2>2
<1>5. now' \in [Messages -> -1..axe_length]
  BY DEF NowGrows
<1> QED  BY <1>1, <1>2, <1>3, <1>4, <1>5 DEF CopyInv

\* No copy changes.
LEMMA CopySame ==
    ASSUME CopyInv, NowGrows, age' = age, original' = original
    PROVE  CopyInv'
<1>1. \A b \in Nodes : Held(b)' = Held(b)
  BY DEF Held
<1>2. \A b \in Nodes : \A m \in Messages : age'[b][m] \in -1..now'[m]
  <2> TAKE b \in Nodes
  <2> TAKE m \in Messages
  <2>1. age'[b][m] = age[b][m] /\ age[b][m] \in -1..now[m] /\ now[m] \in Int /\ now'[m] \in Int
        /\ now[m] <= now'[m]
    BY Sizes DEF CopyInv, NowGrows
  <2> QED  BY <2>1
<1>3. now' \in [Messages -> -1..axe_length]
  BY DEF NowGrows
<1>4. \A b \in Nodes : Cardinality(Held(b)') <= max_number_of_bundles
  BY <1>1 DEF CopyInv
<1> QED  BY <1>2, <1>3, <1>4 DEF CopyInv

\* A buffer is finite.
LEMMA HeldLemma ==
    ASSUME CopyInv, NEW a \in Nodes
    PROVE  /\ Held(a) \subseteq Messages /\ IsFiniteSet(Held(a))
           /\ Cardinality(Held(a)) \in Nat /\ Cardinality(Held(a)) <= max_number_of_bundles
           /\ age[a] \in [Messages -> Int]
           /\ \A m \in Held(a) : age[a][m] \in 0..axe_length /\ age[a][m] <= now[m]
<1>1. Held(a) \in SUBSET Messages /\ IsFiniteSet(Messages)
  BY Sizes DEF Held
<1>2. IsFiniteSet(Held(a)) /\ Cardinality(Held(a)) \in Nat
  BY <1>1, FS_Subset, FS_CardinalityType
<1>3. \A m \in Held(a) : age[a][m] >= 0 /\ age[a][m] \in -1..now[m] /\ now[m] \in -1..axe_length
  BY <1>1 DEF CopyInv, Held
<1>4. \A m \in Held(a) : age[a][m] \in 0..axe_length /\ age[a][m] <= now[m]
  BY <1>3, Sizes
<1> QED  BY <1>1, <1>2, <1>4 DEF CopyInv

\* Ages that are brought up to date.
LEMMA AgedLemma ==
    ASSUME CopyInv, NEW a \in Nodes, NEW h \in Ages(a), NEW f, f = Aged(a, h)
    PROVE  /\ DOMAIN h = Held(a)
           /\ \A m \in DOMAIN h : h[m] \in 0..axe_length
           /\ f \in [Messages -> Int]
           /\ \A m \in Messages : f[m] \in -1..now[m]
           /\ {m \in Messages : f[m] >= 0} = Held(a)
<1>1. /\ h \in [Held(a) -> 0..axe_length]
      /\ \A m \in Held(a) : age[a][m] <= h[m] /\ h[m] <= now[m]
  BY DEF Ages
<1>2. f = [m \in Messages |-> IF m \in DOMAIN h THEN h[m] ELSE age[a][m]]
  BY DEF Aged
<1>3. \A m \in Messages : age[a][m] \in Int /\ age[a][m] \in -1..now[m] /\ now[m] \in Int
  BY Sizes DEF CopyInv
<1>4. \A m \in Messages : m \in Held(a) <=> age[a][m] >= 0
  BY DEF Held
<1>5. \A m \in Messages : /\ f[m] \in Int /\ f[m] \in -1..now[m]
                          /\ (f[m] >= 0 <=> m \in Held(a))
  <2> TAKE m \in Messages
  <2>1. CASE m \in Held(a)
    <3>1. f[m] = h[m] /\ h[m] \in 0..axe_length /\ h[m] <= now[m] /\ now[m] \in Int
      BY <1>1, <1>2, <1>3, <2>1
    <3> QED  BY <2>1, <3>1, Sizes
  <2>2. CASE m \notin Held(a)
    <3>1. f[m] = age[a][m]
      BY <1>1, <1>2, <2>2
    <3> QED  BY <1>3, <1>4, <2>2, <3>1
  <2> QED  BY <2>1, <2>2
<1>6. f \in [Messages -> Int]
  BY <1>2, <1>5
<1>7. Held(a) \subseteq Messages
  BY DEF Held
<1> QED  BY <1>1, <1>5, <1>6, <1>7

\* The simulation stops.
LEMMA CrashLemma ==
    ASSUME StatInv, Crash, NowGrows, arrivals' \in 0..MaxArrivals, exchanges' \in 0..MaxExchanges
    PROVE  StatInv' /\ Advances
<1> USE DEF StatInv, Crash
<1>1. Advances
  BY AdvancesNone
<1>2. CopyInv'
  BY CopySame
<1>3. MatrixInv' /\ NetInv'
  BY DEF MatrixInv, NetInv
<1>4. RestInv'
  BY DEF RestInv
<1> QED  BY <1>1, <1>2, <1>3, <1>4

-----------------------------------------------------------------------------
(* The actions of one agent. *)

LEMMA TouchedLemma ==
    ASSUME RestInv, NEW a \in Nodes, NEW P, Touched(a, P)
    PROVE  DOMAIN updatedSince' = Nodes /\ \A b \in Nodes : updatedSince'[b] \subseteq Junior(b)
<1> DEFINE v == IF P THEN Junior(a) ELSE updatedSince[a]
<1>1. updatedSince' = [updatedSince EXCEPT ![a] = v]
  BY DEF Touched
<1>2. v \subseteq Junior(a)
  BY DEF RestInv
<1> HIDE DEF v
<1> QED  BY <1>1, <1>2 DEF RestInv

LEMMA SeenLemma ==
    ASSUME RestInv, NEW a \in Nodes, NEW S \in SUBSET Messages,
           bundlesSeen' = [bundlesSeen EXCEPT ![a] = S]
    PROVE  DOMAIN bundlesSeen' = Nodes /\ \A b \in Nodes : bundlesSeen'[b] \subseteq Messages
BY DEF RestInv

LEMMA StoredLemma ==
    ASSUME StatInv, NowGrows, NEW a \in Nodes, NEW m \in Messages, NEW T, NEW mx1, NEW mx,
           NEW f \in [Messages -> Int], \A k \in Messages : f[k] \in -1..now'[k],
           Cardinality({k \in Messages : f[k] >= 0}) <= max_number_of_bundles,
           OwnStep(a, messagesMatrix[a], mx1), OwnStep(a, mx1, mx),
           Stored(a, m, f, T, mx1, mx),
           arrivals' \in 0..MaxArrivals, exchanges' \in 0..MaxExchanges
    PROVE  StatInv' /\ Advances
<1>1. CASE Crash
  BY <1>1, CrashLemma
<1>2. CASE /\ Becomes(a, {mx1, mx}, mx) /\ Touched(a, T # {}) /\ Copies(a, f)
           /\ bundlesSeen' = [bundlesSeen EXCEPT ![a] = @ \cup {m}]
           /\ UNCHANGED net
  <2>1. MatrixEffect(mx1)
    BY <1>2, OwnEffect DEF StatInv
  <2>2. NetInv'
    BY <1>2, <2>1, NetLemma DEF StatInv, MatrixEffect
  <2>3. CopyInv'
    BY <1>2, CopyLemma DEF StatInv
  <2>4. DOMAIN updatedSince' = Nodes /\ \A b \in Nodes : updatedSince'[b] \subseteq Junior(b)
    BY <1>2, TouchedLemma DEF StatInv
  <2>5. DOMAIN bundlesSeen' = Nodes /\ \A b \in Nodes : bundlesSeen'[b] \subseteq Messages
    BY <1>2 DEF StatInv, RestInv
  <2>6. stat_sprying_policy' = stat_sprying_policy /\ crashed' = crashed
    BY <1>2 DEF Becomes
  <2>7. RestInv'
    BY <2>4, <2>5, <2>6 DEF StatInv, RestInv
  <2> QED  BY <2>1, <2>2, <2>3, <2>7 DEF StatInv, MatrixEffect
<1> QED  BY <1>1, <1>2 DEF Stored

\* A copy comes into a buffer, or comes and goes.
LEMMA AddBundleLemma ==
    ASSUME StatInv, NowGrows, NEW a \in Nodes, NEW m \in Messages, m \notin Held(a),
           NEW g \in 0..axe_length, g <= now'[m], NEW mine, add_bundle(a, m, g, mine),
           arrivals' \in 0..MaxArrivals, exchanges' \in 0..MaxExchanges
    PROVE  StatInv' /\ Advances
<1> DEFINE mx == messagesMatrix[a]
           full == Cardinality(Held(a)) = max_number_of_bundles
           checks == full \/ stat_sprying_policy = 2
           new(late) == IF checks THEN Checked(mx, a, DOMAIN mx, late) ELSE mx
<1>1. PICK late, mx1, T :
        /\ mx1 = new(late)
        /\ T = IF MayAdd(mx1) THEN {m} ELSE {}
        /\ \/ Crash
           \/ ~full /\ Stored(a, m, [age[a] EXCEPT ![m] = g], T, mx1, stat_add_bundle(mx1, a, m, g))
           \/ /\ full
              /\ \E v \in Held(a) :
                    Stored(a, m, [age[a] EXCEPT ![v] = -1, ![m] = g], T \cup {v}, mx1,
                           stat_add_bundle(update_bundle_status(mx1, a,
                                               [x \in {v} |-> age[a][v]], 0), a, m, g))
           \/ /\ full
              /\ \/ Stored(a, m, age[a], {m}, mx1,
                           update_bundle_status(stat_add_bundle(mx1, a, m, g), a,
                                                [x \in {m} |-> g], 0))
                 \/ Stored(a, m, age[a], {}, mx1, mx1)
  BY DEF add_bundle
<1>2. /\ mx \in MatrixOf(a) /\ IsFiniteSet(Held(a)) /\ Held(a) \subseteq Messages
      /\ Cardinality(Held(a)) \in Nat /\ Cardinality(Held(a)) <= max_number_of_bundles
      /\ age[a] \in [Messages -> Int]
      /\ \A v \in Held(a) : age[a][v] \in 0..axe_length
      /\ CopyInv /\ MatrixInv
  BY HeldLemma DEF StatInv, MatrixInv
<1>3. OwnStep(a, mx, mx1)
  BY <1>1, <1>2, CheckedLemma, OwnStepNone
<1>4. mx1 \in MatrixOf(a)
  BY <1>3 DEF OwnStep
<1>5. \A k \in Messages : age[a][k] \in -1..now'[k]
  <2> TAKE k \in Messages
  <2>1. age[a][k] \in -1..now[k] /\ now[k] \in Int /\ now'[k] \in Int /\ now[k] <= now'[k]
    BY <1>2, Sizes DEF CopyInv, NowGrows
  <2> QED  BY <2>1
<1>6. g \in -1..now'[m] /\ g \in Int /\ g >= 0 /\ now'[m] \in Int /\ max_number_of_bundles \in Nat
  BY Sizes DEF NowGrows
<1>7. \A k \in Messages : k \in Held(a) <=> age[a][k] >= 0
  BY DEF Held
<1>8. CASE Crash
  BY <1>8, CrashLemma
<1>9. CASE ~full /\ Stored(a, m, [age[a] EXCEPT ![m] = g], T, mx1, stat_add_bundle(mx1, a, m, g))
  <2> DEFINE f == [age[a] EXCEPT ![m] = g]
             mx2 == stat_add_bundle(mx1, a, m, g)
  <2>1. OwnStep(a, mx1, mx2)
    BY <1>4, StatAddLemma
  <2>2. /\ f \in [Messages -> Int] /\ \A k \in Messages : f[k] \in -1..now'[k]
        /\ {k \in Messages : f[k] >= 0} = Held(a) \cup {m}
    BY <1>2, <1>5, <1>6, <1>7
  <2>3. Cardinality(Held(a) \cup {m}) <= max_number_of_bundles
    <3>1. Cardinality(Held(a) \cup {m}) = Cardinality(Held(a)) + 1
      BY <1>2, FS_AddElement
    <3>2. Cardinality(Held(a)) # max_number_of_bundles
      BY <1>9
    <3> QED  BY <1>2, <1>6, <3>1, <3>2
  <2> HIDE DEF f, mx2, mx
  <2>4. Stored(a, m, f, T, mx1, mx2)
    BY <1>9 DEF f, mx2
  <2>5. OwnStep(a, messagesMatrix[a], mx1)
    BY <1>3 DEF mx
  <2> QED  BY <2>1, <2>2, <2>3, <2>4, <2>5, StoredLemma
<1>10. CASE /\ full
            /\ \E v \in Held(a) :
                  Stored(a, m, [age[a] EXCEPT ![v] = -1, ![m] = g], T \cup {v}, mx1,
                         stat_add_bundle(update_bundle_status(mx1, a,
                                             [x \in {v} |-> age[a][v]], 0), a, m, g))
  <2>0. PICK v \in Held(a) :
           Stored(a, m, [age[a] EXCEPT ![v] = -1, ![m] = g], T \cup {v}, mx1,
                  stat_add_bundle(update_bundle_status(mx1, a,
                                      [x \in {v} |-> age[a][v]], 0), a, m, g))
    BY <1>10
  <2> DEFINE f == [age[a] EXCEPT ![v] = -1, ![m] = g]
             one == [x \in {v} |-> age[a][v]]
             gone == update_bundle_status(mx1, a, one, 0)
             mx2 == stat_add_bundle(gone, a, m, g)
  <2>1. OwnStep(a, mx1, gone)
    <3>1. \A k \in DOMAIN one : one[k] \in 0..axe_length
      BY <1>2
    <3> HIDE DEF one
    <3> QED  BY <1>4, <3>1, UpdateStatusLemma
  <2> HIDE DEF gone
  <2>2. gone \in MatrixOf(a)
    BY <2>1 DEF OwnStep
  <2>3. OwnStep(a, gone, mx2)
    BY <2>2, StatAddLemma
  <2> HIDE DEF mx2
  <2>4. OwnStep(a, mx1, mx2)
    BY <2>1, <2>3, OwnStepTwo
  <2>5. v \in Messages /\ v # m
    BY <1>2
  <2>6. /\ f \in [Messages -> Int] /\ f[m] = g /\ f[v] = -1
        /\ \A k \in Messages : k # v /\ k # m => f[k] = age[a][k]
    BY <1>2, <1>6, <2>5
  <2>7. -1 \in -1..now'[v]
    <3>1. now'[v] \in Int /\ now'[v] >= -1
      BY <2>5, Sizes DEF NowGrows
    <3> QED  BY <3>1
  <2> HIDE DEF f
  <2>8. \A k \in Messages : f[k] \in -1..now'[k]
    <3> TAKE k \in Messages
    <3>1. CASE k = m
      BY <1>6, <2>6, <3>1
    <3>2. CASE k = v
      BY <2>6, <2>7, <3>2
    <3>3. CASE k # v /\ k # m
      BY <1>5, <2>6, <3>3
    <3> QED  BY <3>1, <3>2, <3>3
  <2>9. {k \in Messages : f[k] >= 0} = (Held(a) \ {v}) \cup {m}
    BY <1>2, <1>6, <1>7, <2>5, <2>6
  <2>10. Cardinality((Held(a) \ {v}) \cup {m}) <= max_number_of_bundles
    <3>1. IsFiniteSet(Held(a) \ {v}) /\ Cardinality(Held(a) \ {v}) = Cardinality(Held(a)) - 1
      BY <1>2, FS_RemoveElement
    <3>2. Cardinality((Held(a) \ {v}) \cup {m}) = Cardinality(Held(a) \ {v}) + 1
      BY <3>1, FS_AddElement
    <3> QED  BY <1>2, <1>6, <3>1, <3>2
  <2>11. Stored(a, m, f, T \cup {v}, mx1, mx2)
    BY <2>0 DEF f, mx2, gone
  <2> HIDE DEF mx
  <2>12. OwnStep(a, messagesMatrix[a], mx1)
    BY <1>3 DEF mx
  <2> QED  BY <2>4, <2>6, <2>8, <2>9, <2>10, <2>11, <2>12, StoredLemma
<1>11. CASE \/ Stored(a, m, age[a], {m}, mx1,
                      update_bundle_status(stat_add_bundle(mx1, a, m, g), a, [x \in {m} |-> g], 0))
            \/ Stored(a, m, age[a], {}, mx1, mx1)
  <2> DEFINE one == [x \in {m} |-> g]
             mx2 == stat_add_bundle(mx1, a, m, g)
             mx3 == update_bundle_status(mx2, a, one, 0)
  <2>1. OwnStep(a, mx1, mx2)
    BY <1>4, StatAddLemma
  <2> HIDE DEF mx2
  <2>2. mx2 \in MatrixOf(a)
    BY <2>1 DEF OwnStep
  <2>3. OwnStep(a, mx2, mx3)
    <3>1. \A k \in DOMAIN one : one[k] \in 0..axe_length
      OBVIOUS
    <3> HIDE DEF one
    <3> QED  BY <2>2, <3>1, UpdateStatusLemma
  <2>4. OwnStep(a, mx1, mx3)
    <3> HIDE DEF mx3
    <3> QED  BY <2>1, <2>3, OwnStepTwo
  <2>5. OwnStep(a, mx1, mx1)
    BY <1>4, OwnStepNone
  <2>6. Cardinality({k \in Messages : age[a][k] >= 0}) <= max_number_of_bundles
    BY <1>2 DEF Held
  <2>7. Stored(a, m, age[a], {m}, mx1, mx3) \/ Stored(a, m, age[a], {}, mx1, mx1)
    BY <1>11 DEF mx2
  <2> HIDE DEF mx3, mx
  <2>8. OwnStep(a, messagesMatrix[a], mx1)
    BY <1>3 DEF mx
  <2>9. age[a] \in [Messages -> Int] /\ \A k \in Messages : age[a][k] \in -1..now'[k]
    BY <1>2, <1>5
  <2>10. CASE Stored(a, m, age[a], {m}, mx1, mx3)
    BY <2>4, <2>6, <2>8, <2>9, <2>10, StoredLemma
  <2>11. CASE Stored(a, m, age[a], {}, mx1, mx1)
    BY <2>5, <2>6, <2>8, <2>9, <2>11, StoredLemma
  <2> QED  BY <2>7, <2>10, <2>11
<1> QED  BY <1>1, <1>8, <1>9, <1>10, <1>11

LEMMA NewBundleLemma ==
    ASSUME StatInv, NEW a \in Nodes, NEW m \in Messages, newBundle(a, m)
    PROVE  StatInv' /\ Advances
<1>0. CopyInv /\ RestInv /\ axe_length \in Nat \ {0} /\ MaxArrivals \in Nat
  BY Sizes DEF StatInv
<1>1. /\ now[m] = -1 /\ now' = [now EXCEPT ![m] = 0] /\ add_bundle(a, m, 0, TRUE)
      /\ arrivals < MaxArrivals /\ arrivals' = arrivals + 1 /\ exchanges' = exchanges
  BY DEF newBundle
<1>2. \A k \in Messages : now[k] \in Int
  BY <1>0 DEF CopyInv
<1>3. NowGrows
  <2>1. now' \in [Messages -> -1..axe_length]
    BY <1>0, <1>1 DEF CopyInv
  <2>2. \A k \in Messages : now[k] <= now'[k]
    BY <1>0, <1>1, <1>2 DEF CopyInv
  <2> QED  BY <2>1, <2>2 DEF NowGrows
<1>4. m \notin Held(a)
  <2>1. age[a][m] \in -1..(-1)
    BY <1>0, <1>1 DEF CopyInv
  <2> QED  BY <2>1 DEF Held
<1>5. 0 \in 0..axe_length /\ 0 <= now'[m]
  BY <1>0, <1>1 DEF CopyInv
<1>6. arrivals' \in 0..MaxArrivals /\ exchanges' \in 0..MaxExchanges
  BY <1>0, <1>1 DEF RestInv
<1> QED  BY <1>1, <1>3, <1>4, <1>5, <1>6, AddBundleLemma

LEMMA RecvBundleLemma ==
    ASSUME StatInv, NEW a \in Nodes, NEW b \in Nodes, NEW m \in Messages, recv_bundle(a, b, m)
    PROVE  StatInv' /\ Advances
<1>0. CopyInv /\ RestInv /\ MaxArrivals \in Nat
  BY Sizes DEF StatInv
<1>1. /\ m \in Held(b) /\ m \notin Held(a) /\ add_bundle(a, m, age[b][m], FALSE)
      /\ arrivals < MaxArrivals /\ arrivals' = arrivals + 1 /\ exchanges' = exchanges
      /\ now' = now
  BY DEF recv_bundle
<1>2. NowGrows
  BY <1>0, <1>1, NowSame
<1>3. age[b][m] \in 0..axe_length /\ age[b][m] <= now'[m]
  BY <1>0, <1>1, HeldLemma
<1>4. arrivals' \in 0..MaxArrivals /\ exchanges' \in 0..MaxExchanges
  BY <1>0, <1>1 DEF RestInv
<1> QED  BY <1>1, <1>2, <1>3, <1>4, AddBundleLemma

\* Copies that are among those of before.
LEMMA FewerCopies ==
    ASSUME CopyInv, NEW a \in Nodes, NEW S \in SUBSET Held(a)
    PROVE  Cardinality(S) <= max_number_of_bundles
<1>1. /\ IsFiniteSet(Held(a)) /\ Cardinality(Held(a)) \in Nat
      /\ Cardinality(Held(a)) <= max_number_of_bundles /\ max_number_of_bundles \in Nat
  BY HeldLemma, Sizes
<1>2. IsFiniteSet(S) /\ Cardinality(S) <= Cardinality(Held(a)) /\ Cardinality(S) \in Nat
  BY <1>1, FS_Subset, FS_CardinalityType
<1> QED  BY <1>1, <1>2

LEMMA MakeCleanLemma ==
    ASSUME StatInv, NEW a \in Nodes, make_clean(a)
    PROVE  StatInv' /\ Advances
<1>0. /\ CopyInv /\ RestInv /\ MatrixInv /\ NetInv /\ now' = now
      /\ arrivals' = arrivals /\ exchanges' = exchanges
  BY DEF StatInv, make_clean
<1>1. NowGrows /\ arrivals' \in 0..MaxArrivals /\ exchanges' \in 0..MaxExchanges
  BY <1>0, NowSame DEF RestInv
<1> DEFINE mx == messagesMatrix[a]
           old(h) == {m \in Held(a) : h[m] >= ttl_bin}
           aged(h) == Aged(a, h)
           wiped(h) == update_bundle_status(mx, a, [m \in old(h) |-> h[m]], 0)
<1>2. PICK h \in Ages(a) :
         \/ Crash
         \/ /\ Becomes(a, {wiped(h)}, wiped(h))
            /\ Copies(a, [m \in Messages |-> IF m \in old(h) THEN -1 ELSE aged(h)[m]])
            /\ Touched(a, old(h) \cap Known(a) # {})
            /\ UNCHANGED <<bundlesSeen, net>>
  BY DEF make_clean
<1>3. CASE Crash
  BY <1>1, <1>3, CrashLemma
<1>4. CASE /\ Becomes(a, {wiped(h)}, wiped(h))
           /\ Copies(a, [m \in Messages |-> IF m \in old(h) THEN -1 ELSE aged(h)[m]])
           /\ Touched(a, old(h) \cap Known(a) # {})
           /\ UNCHANGED <<bundlesSeen, net>>
  <2> DEFINE f == [m \in Messages |-> IF m \in old(h) THEN -1 ELSE aged(h)[m]]
             gone == [m \in old(h) |-> h[m]]
             mx2 == update_bundle_status(mx, a, gone, 0)
  <2>0. mx \in MatrixOf(a)
    BY <1>0 DEF MatrixInv
  <2>1. /\ DOMAIN h = Held(a)
        /\ \A m \in DOMAIN h : h[m] \in 0..axe_length
        /\ aged(h) \in [Messages -> Int]
        /\ \A m \in Messages : aged(h)[m] \in -1..now[m]
        /\ {m \in Messages : aged(h)[m] >= 0} = Held(a)
    BY <1>0, AgedLemma
  <2>2. OwnStep(a, mx, mx2)
    <3>1. \A m \in DOMAIN gone : gone[m] \in 0..axe_length
      BY <2>1
    <3> HIDE DEF gone
    <3> QED  BY <2>0, <3>1, UpdateStatusLemma
  <2>4. Becomes(a, {mx2}, mx2)
    BY <1>4
  <2> HIDE DEF mx2
  <2>5. MatrixEffect(mx2)
    BY <1>0, <2>2, <2>4, OneEffect
  <2> HIDE DEF old, aged, wiped
  <2>6. \A m \in Messages : f[m] \in Int /\ f[m] \in -1..now'[m]
                            /\ (f[m] >= 0 => aged(h)[m] >= 0)
    <3> TAKE m \in Messages
    <3>1. now'[m] \in Int /\ now'[m] >= -1 /\ now[m] = now'[m]
      BY <1>0, <1>1, Sizes DEF NowGrows
    <3>2. CASE m \in old(h)
      BY <3>1, <3>2
    <3>3. CASE m \notin old(h)
      BY <2>1, <3>1, <3>3
    <3> QED  BY <3>2, <3>3
  <2>7. f \in [Messages -> Int] /\ {m \in Messages : f[m] >= 0} \in SUBSET Held(a)
    BY <2>1, <2>6
  <2>8. Copies(a, f)
    BY <1>4
  <2> HIDE DEF f
  <2>9. Cardinality({m \in Messages : f[m] >= 0}) <= max_number_of_bundles
    BY <1>0, <2>7, FewerCopies
  <2>10. CopyInv'
    BY <1>0, <1>1, <2>6, <2>7, <2>8, <2>9, CopyLemma
  <2>11. NetInv'
    BY <1>0, <1>4, <2>5, NetLemma DEF MatrixEffect
  <2>12. DOMAIN updatedSince' = Nodes /\ \A b \in Nodes : updatedSince'[b] \subseteq Junior(b)
    BY <1>0, <1>4, TouchedLemma
  <2>13. stat_sprying_policy' = stat_sprying_policy /\ crashed' = crashed
    BY <2>4 DEF Becomes
  <2>14. RestInv'
    BY <1>0, <1>4, <2>12, <2>13 DEF RestInv
  <2> QED  BY <2>5, <2>10, <2>11, <2>14 DEF StatInv, MatrixEffect
<1> QED  BY <1>2, <1>3, <1>4

LEMMA DeleteLemma ==
    ASSUME StatInv, NEW a \in Nodes, NEW m \in Messages, delete_delivred_bundles(a, m)
    PROVE  StatInv' /\ Advances
<1> DEFINE f == [age[a] EXCEPT ![m] = -1]
<1>0. /\ CopyInv /\ RestInv /\ MatrixInv /\ NetInv /\ now' = now /\ Copies(a, f)
      /\ UNCHANGED <<stat_sprying_policy, messagesMatrix, bundlesSeen, updatedSince,
                     arrivals, exchanges, net, crashed, past>>
  BY DEF StatInv, delete_delivred_bundles
<1>1. NowGrows
  BY <1>0, NowSame
<1>2. /\ f \in [Messages -> Int] /\ f[m] = -1
      /\ \A k \in Messages : k # m => f[k] = age[a][k]
  BY <1>0, HeldLemma
<1> HIDE DEF f
<1>3. \A k \in Messages : f[k] \in -1..now'[k] /\ (f[k] >= 0 => k \in Held(a))
  <2> TAKE k \in Messages
  <2>1. now'[k] \in Int /\ now'[k] >= -1 /\ now[k] = now'[k]
    BY <1>0, <1>1, Sizes DEF NowGrows
  <2>2. CASE k = m
    BY <1>2, <2>1, <2>2
  <2>3. CASE k # m
    BY <1>0, <1>2, <2>1, <2>3 DEF CopyInv, Held
  <2> QED  BY <2>2, <2>3
<1>4. {k \in Messages : f[k] >= 0} \in SUBSET Held(a)
  BY <1>3
<1>5. Cardinality({k \in Messages : f[k] >= 0}) <= max_number_of_bundles
  BY <1>0, <1>4, FewerCopies
<1>6. CopyInv'
  BY <1>0, <1>1, <1>2, <1>3, <1>5, CopyLemma
<1>7. MatrixInv' /\ NetInv'
  BY <1>0 DEF MatrixInv, NetInv
<1>8. Advances
  BY <1>0, AdvancesNone
<1>9. RestInv'
  BY <1>0 DEF RestInv
<1> QED  BY <1>6, <1>7, <1>8, <1>9 DEF StatInv

LEMMA ReadLemma ==
    ASSUME StatInv, NEW a \in Nodes, get_stat_from_axe(a)
    PROVE  StatInv' /\ Advances
<1>0. /\ CopyInv /\ RestInv /\ MatrixInv /\ NetInv /\ now' = now
      /\ arrivals' = arrivals /\ exchanges' = exchanges
  BY DEF StatInv, get_stat_from_axe
<1>1. NowGrows /\ arrivals' \in 0..MaxArrivals /\ exchanges' \in 0..MaxExchanges
  BY <1>0, NowSame DEF RestInv
<1>2. PICK late, mx :
         /\ mx = Checked(messagesMatrix[a], a, Known(a), late)
         /\ \/ Crash
            \/ /\ Becomes(a, {mx}, mx)
               /\ UNCHANGED <<age, original, bundlesSeen, updatedSince, net>>
  BY DEF get_stat_from_axe
<1>3. CASE Crash
  BY <1>1, <1>3, CrashLemma
<1>4. CASE /\ Becomes(a, {mx}, mx)
           /\ UNCHANGED <<age, original, bundlesSeen, updatedSince, net>>
  <2>0. messagesMatrix[a] \in MatrixOf(a)
    BY <1>0 DEF MatrixInv
  <2>1. OwnStep(a, messagesMatrix[a], mx)
    BY <1>2, <2>0, CheckedLemma
  <2>3. MatrixEffect(mx)
    BY <1>0, <1>4, <2>1, OneEffect
  <2>4. CopyInv'
    BY <1>0, <1>1, <1>4, CopySame
  <2>5. NetInv'
    BY <1>0, <1>4, <2>3, NetLemma DEF MatrixEffect
  <2>6. RestInv'
    BY <1>0, <1>4 DEF RestInv, Becomes
  <2> QED  BY <2>3, <2>4, <2>5, <2>6 DEF StatInv, MatrixEffect
<1> QED  BY <1>2, <1>3, <1>4

-----------------------------------------------------------------------------
(* The exchange. *)

LEMMA SendRows ==
    ASSUME NEW a \in Nodes, NEW b \in Nodes, a # b, NEW conv \in {6, 7}, NEW p \in Pasts,
           NEW mx \in MatrixOf(a), Sourced(mx, p), NEW body, Describes(mx, body),
           NEW r \in Sent(a, b, conv, body)
    PROVE  ReportOf(r, p)
<1>1. /\ r.from = a /\ r.to = b /\ r.conv = conv /\ r.body = body
      /\ \A m \in DOMAIN body : \A e \in ToSet(body[m]) : e.name \in Names
  BY SentFields
<1>2. BodyOf(body, p)
  BY <1>1, SentLemma
<1> QED  BY <1>1, <1>2 DEF ReportOf

LEMMA SendVersions ==
    ASSUME NEW a \in Nodes, NEW b \in Nodes, a # b, NEW conv \in {8, 9}, NEW p, NEW body,
           NEW r \in Sent(a, b, conv, body)
    PROVE  ReportOf(r, p)
<1>1. r.from = a /\ r.to = b /\ r.conv = conv
  BY SentFields
<1> QED  BY <1>1 DEF ReportOf

\* The ages are brought up to date, in the buffer and in the statistics.
LEMMA AgedCopies ==
    ASSUME CopyInv, now' = now, NEW a \in Nodes, NEW h \in Ages(a), Copies(a, Aged(a, h))
    PROVE  CopyInv'
<1>1. PICK f : f = Aged(a, h)
  OBVIOUS
<1>2. /\ f \in [Messages -> Int]
      /\ \A m \in Messages : f[m] \in -1..now[m]
      /\ {m \in Messages : f[m] >= 0} = Held(a)
  BY <1>1, AgedLemma
<1>3. Cardinality({m \in Messages : f[m] >= 0}) <= max_number_of_bundles
  BY <1>2, HeldLemma
<1>4. NowGrows
  BY NowSame
<1>5. Copies(a, f) /\ \A m \in Messages : f[m] \in -1..now'[m]
  BY <1>1, <1>2
<1> QED  BY <1>2, <1>3, <1>4, <1>5, CopyLemma

LEMMA AgedRows ==
    ASSUME CopyInv, NEW a \in Nodes, NEW h \in Ages(a), NEW mx \in MatrixOf(a),
           NEW new, new = UpdateLocalMessagesStat(mx, a, h)
    PROVE  /\ OwnStep(a, mx, new) /\ DOMAIN new = DOMAIN mx /\ RowsKept(mx, new)
           /\ \A m \in DOMAIN mx : ~HasNull(mx[m]) => ~HasNull(new[m])
<1>1. \A m \in DOMAIN h : h[m] \in 0..axe_length
  BY AgedLemma
<1>2. new = update_bundle_status(mx, a, h, 1)
  BY DEF UpdateLocalMessagesStat
<1> QED  BY <1>1, <1>2, UpdateStatusLemma

LEMMA HelloLemma ==
    ASSUME StatInv, NEW a \in Nodes, NEW b \in Nodes, a # b, recvHello(a, b)
    PROVE  StatInv' /\ Advances
<1>0. /\ CopyInv /\ RestInv /\ MatrixInv /\ NetInv /\ now' = now
      /\ arrivals' = arrivals /\ messagesMatrix[a] \in MatrixOf(a)
      /\ MaxExchanges \in Nat
  BY Sizes DEF StatInv, recvHello, MatrixInv
<1>1. NowGrows /\ arrivals' \in 0..MaxArrivals
  BY <1>0, NowSame DEF RestInv
<1> DEFINE mx == messagesMatrix[a]
           silent == updatedSince' = [updatedSince EXCEPT ![a] = @ \ {b}]
           starts == /\ b \in updatedSince[a]
                     /\ exchanges < MaxExchanges /\ arrivals + exchanges < MaxEvents
                     /\ exchanges' = exchanges + 1
           told == updatedSince' = [updatedSince EXCEPT ![a] = Junior(a) \ {b}]
<1>2. ASSUME silent \/ told
      PROVE  DOMAIN updatedSince' = Nodes /\ \A c \in Nodes : updatedSince'[c] \subseteq Junior(c)
  <2>1. PICK S : S \subseteq Junior(a) /\ updatedSince' = [updatedSince EXCEPT ![a] = S]
    BY <1>0, <1>2 DEF RestInv
  <2> QED  BY <1>0, <2>1 DEF RestInv
<1>3. CASE /\ silent
           /\ UNCHANGED <<stat_sprying_policy, age, original, messagesMatrix,
                          bundlesSeen, exchanges, net, crashed, past>>
  <2>1. Advances
    BY <1>0, <1>3, AdvancesNone
  <2>2. CopyInv'
    BY <1>0, <1>1, <1>3, CopySame
  <2>3. MatrixInv' /\ NetInv'
    BY <1>0, <1>3 DEF MatrixInv, NetInv
  <2>4. RestInv'
    BY <1>0, <1>2, <1>3 DEF RestInv
  <2> QED  BY <2>1, <2>2, <2>3, <2>4 DEF StatInv
<1>4. ASSUME starts PROVE exchanges' \in 0..MaxExchanges
  BY <1>0, <1>4 DEF RestInv
<1>5. ASSUME starts, NEW h \in Ages(a), NEW mx1, mx1 = UpdateLocalMessagesStat(mx, a, h),
             \A m \in Known(a) : ~HasNull(mx[m]),
             Becomes(a, {mx1}, mx1), Copies(a, Aged(a, h)), told,
             NEW out \in get_stat_to_send(mx1),
             net' = InBound(net \cup Sent(a, b, 6, out)),
             bundlesSeen' = bundlesSeen
      PROVE  StatInv' /\ Advances
  <2>1. /\ OwnStep(a, mx, mx1) /\ DOMAIN mx1 = DOMAIN mx
        /\ \A m \in DOMAIN mx : ~HasNull(mx[m]) => ~HasNull(mx1[m])
    BY <1>0, <1>5, AgedRows
  <2>2. mx1 \in MatrixOf(a)
    BY <2>1 DEF OwnStep
  <2>3. MatrixEffect(mx1)
    BY <1>0, <1>5, <2>1, OneEffect
  <2>4. Describes(mx1, out)
    BY <1>5, <2>1, WholeDescribed DEF Known
  <2>5. \A r \in Sent(a, b, 6, out) : ReportOf(r, past')
    BY <2>2, <2>3, <2>4, SendRows DEF MatrixEffect, MatrixInv
  <2>6. \A r \in net' : r \in net \/ ReportOf(r, past')
    BY <1>5, <2>5, InBoundLemma
  <2>7. NetInv'
    BY <1>0, <2>3, <2>6, NetLemma DEF MatrixEffect
  <2>8. CopyInv'
    BY <1>0, <1>5, AgedCopies
  <2>9. stat_sprying_policy' = stat_sprying_policy /\ crashed' = crashed
    BY <1>5 DEF Becomes
  <2>10. RestInv'
    BY <1>0, <1>2, <1>4, <1>5, <2>9 DEF RestInv
  <2> QED  BY <2>3, <2>7, <2>8, <2>10 DEF StatInv, MatrixEffect
<1>6. ASSUME starts, NEW late, NEW S \in SUBSET bundlesSeen[a], NEW mx1, NEW T,
             mx1 = Checked(mx, a, S, late), Becomes(a, {mx1}, mx1),
             bundlesSeen' = [bundlesSeen EXCEPT ![a] = @ \ (S \ T)],
             silent \/ told,
             NEW out, net' = InBound(net \cup Sent(a, b, 8, out)),
             age' = age, original' = original
      PROVE  StatInv' /\ Advances
  <2>1. OwnStep(a, mx, mx1)
    BY <1>0, <1>6, CheckedLemma
  <2>3. MatrixEffect(mx1)
    BY <1>0, <1>6, <2>1, OneEffect
  <2>4. \A r \in Sent(a, b, 8, out) : ReportOf(r, past')
    BY SendVersions
  <2>5. \A r \in net' : r \in net \/ ReportOf(r, past')
    BY <1>6, <2>4, InBoundLemma
  <2>6. NetInv'
    BY <1>0, <2>3, <2>5, NetLemma DEF MatrixEffect
  <2>7. CopyInv'
    BY <1>0, <1>1, <1>6, CopySame
  <2>8. stat_sprying_policy' = stat_sprying_policy /\ crashed' = crashed
    BY <1>6 DEF Becomes
  <2>9. DOMAIN bundlesSeen' = Nodes /\ \A c \in Nodes : bundlesSeen'[c] \subseteq Messages
    BY <1>0, <1>6 DEF RestInv
  <2>10. RestInv'
    BY <1>0, <1>2, <1>4, <1>6, <2>8, <2>9 DEF RestInv
  <2> QED  BY <2>3, <2>6, <2>7, <2>10 DEF StatInv, MatrixEffect
<1>7. CASE /\ starts
           /\ \E h \in Ages(a) :
                    LET mx1 == UpdateLocalMessagesStat(mx, a, h)
                    IN  IF \E m \in Known(a) : HasNull(mx[m]) THEN Crash
                        ELSE /\ Becomes(a, {mx1}, mx1)
                             /\ Copies(a, Aged(a, h))
                             /\ told
                             /\ \E out \in get_stat_to_send(mx1) :
                                   net' = InBound(net \cup Sent(a, b, 6, out))
                             /\ UNCHANGED bundlesSeen
  <2>1. CASE Crash
    BY <1>1, <1>4, <1>7, <2>1, CrashLemma
  <2>2. CASE ~Crash
    <3> HIDE DEF mx, silent, starts, told
    <3> QED  BY <1>5, <1>7, <2>2
  <2> QED  BY <2>1, <2>2
<1>8. CASE /\ starts
           /\ \E late \in Late(a), S \in SUBSET bundlesSeen[a] :
                    LET mx1 == Checked(mx, a, S, late)
                        T == Asked(mx1, S)
                    IN  IF RequestCrashes(a, S, late) THEN Crash
                        ELSE /\ Walked(a, mx1, S)
                             /\ Becomes(a, {mx1}, mx1)
                             /\ bundlesSeen' = [bundlesSeen EXCEPT ![a] =
                                                   @ \ (S \ T)]
                             /\ IF T = {} THEN silent ELSE told
                             /\ \E out \in Versions(mx1, T) :
                                   net' = InBound(net \cup Sent(a, b, 8, out))
                             /\ UNCHANGED <<age, original>>
  <2>1. CASE Crash
    BY <1>1, <1>4, <1>8, <2>1, CrashLemma
  <2>2. CASE ~Crash
    <3> HIDE DEF mx, silent, starts, told
    <3>1. PICK late, S, mx1, T, out :
             /\ S \in SUBSET bundlesSeen[a]
             /\ mx1 = Checked(mx, a, S, late)
             /\ Becomes(a, {mx1}, mx1)
             /\ bundlesSeen' = [bundlesSeen EXCEPT ![a] = @ \ (S \ T)]
             /\ silent \/ told
             /\ net' = InBound(net \cup Sent(a, b, 8, out))
             /\ UNCHANGED <<age, original>>
      BY <1>8, <2>2
    <3> QED  BY <1>6, <1>8, <3>1
  <2> QED  BY <2>1, <2>2
<1> QED  BY <1>3, <1>7, <1>8 DEF recvHello

\* What is common to the four reports that may come in.
LEMMA RecvFacts ==
    ASSUME StatInv, NEW r \in net, now' = now, arrivals' = arrivals, exchanges' = exchanges
    PROVE  /\ CopyInv /\ RestInv /\ MatrixInv /\ NetInv /\ NowGrows
           /\ r.to \in Nodes /\ r.from \in Nodes /\ r.to # r.from
           /\ messagesMatrix[r.to] \in MatrixOf(r.to)
           /\ arrivals' \in 0..MaxArrivals /\ exchanges' \in 0..MaxExchanges
           /\ r.conv \in {6, 7} => BodyOf(r.body, past)
<1>1. CopyInv /\ RestInv /\ MatrixInv /\ NetInv
  BY DEF StatInv
<1>2. NowGrows
  BY <1>1, NowSame
<1>3. ReportOf(r, past)
  BY <1>1 DEF NetInv
<1> QED  BY <1>1, <1>2, <1>3 DEF MatrixInv, RestInv, ReportOf

LEMMA RecvFirst ==
    ASSUME StatInv, NEW r \in net, r.conv = 6, stat_matrix_recived_first(r),
           now' = now, arrivals' = arrivals, exchanges' = exchanges
    PROVE  StatInv' /\ Advances
<1>0. PICK a, b, body, mx :
        a = r.to /\ b = r.from /\ body = r.body /\ mx = messagesMatrix[a]
  OBVIOUS
<1>1. /\ CopyInv /\ RestInv /\ MatrixInv /\ NetInv /\ NowGrows
      /\ a \in Nodes /\ b \in Nodes /\ a # b /\ mx \in MatrixOf(a)
      /\ arrivals' \in 0..MaxArrivals /\ exchanges' \in 0..MaxExchanges
      /\ BodyOf(body, past)
  BY <1>0, RecvFacts
<1>2. CASE Crash
  BY <1>1, <1>2, CrashLemma
<1>3. CASE ~Crash
  <2>1. PICK h \in Ages(a) :
          LET mx1 == UpdateLocalMessagesStat(mx, a, h)
          IN  /\ \A m \in Known(a) : ~HasNull(mx[m])
              /\ Becomes(a, {mx1}, update_network_stat(mx1, body))
              /\ Copies(a, Aged(a, h))
              /\ Touched(a, TRUE)
              /\ \E out \in get_stat_to_send(mx1) :
                    net' = InBound((net \ {r}) \cup Sent(a, b, 7, out))
              /\ UNCHANGED bundlesSeen
    BY <1>0, <1>3 DEF stat_matrix_recived_first
  <2>2. PICK mx1 : mx1 = UpdateLocalMessagesStat(mx, a, h)
    OBVIOUS
  <2>3. /\ OwnStep(a, mx, mx1) /\ DOMAIN mx1 = DOMAIN mx /\ RowsKept(mx, mx1)
        /\ \A m \in DOMAIN mx : ~HasNull(mx[m]) => ~HasNull(mx1[m])
    BY <1>1, <2>2, AgedRows
  <2>15. PICK out \in get_stat_to_send(mx1) :
            net' = InBound((net \ {r}) \cup Sent(a, b, 7, out))
    BY <2>1, <2>2
  <2>4. Becomes(a, {mx1}, update_network_stat(mx1, body))
    BY <2>1, <2>2
  <2>5. MatrixEffect(mx1)
    <3>1. PICK W : W = {mx1}
      OBVIOUS
    <3>2. W \in SUBSET {mx1} /\ mx1 \in W /\ Becomes(a, W, update_network_stat(mx1, body))
      BY <2>4, <3>1
    <3> QED  BY <1>0, <1>1, <2>3, <3>2, ReportEffect
  <2>6. Describes(mx1, out)
    BY <1>0, <2>1, <2>3, WholeDescribed DEF Known
  <2>7. mx1 \in MatrixOf(a)
    BY <2>3 DEF OwnStep
  <2>8. \A q \in Sent(a, b, 7, out) : ReportOf(q, past')
    BY <1>1, <2>5, <2>6, <2>7, SendRows DEF MatrixEffect, MatrixInv
  <2>9. \A q \in net' : q \in net \/ ReportOf(q, past')
    BY <2>15, <2>8, InBoundLemma
  <2>10. NetInv'
    BY <1>1, <2>5, <2>9, NetLemma DEF MatrixEffect
  <2>11. CopyInv'
    BY <1>1, <2>1, AgedCopies
  <2>12. DOMAIN updatedSince' = Nodes /\ \A c \in Nodes : updatedSince'[c] \subseteq Junior(c)
    BY <1>1, <2>1, TouchedLemma
  <2>13. stat_sprying_policy' = stat_sprying_policy /\ crashed' = crashed
    BY <2>4 DEF Becomes
  <2>14. RestInv'
    BY <1>1, <2>1, <2>12, <2>13 DEF RestInv
  <2> QED  BY <2>5, <2>10, <2>11, <2>14 DEF StatInv, MatrixEffect
<1> QED  BY <1>2, <1>3

LEMMA RecvLast ==
    ASSUME StatInv, NEW r \in net, r.conv = 7, stat_matrix_recived_last(r),
           now' = now, arrivals' = arrivals, exchanges' = exchanges
    PROVE  StatInv' /\ Advances
<1>0. PICK a, body, mx : a = r.to /\ body = r.body /\ mx = messagesMatrix[a]
  OBVIOUS
<1>1. /\ CopyInv /\ RestInv /\ MatrixInv /\ NetInv /\ NowGrows
      /\ a \in Nodes /\ mx \in MatrixOf(a)
      /\ arrivals' \in 0..MaxArrivals /\ exchanges' \in 0..MaxExchanges
      /\ BodyOf(body, past)
  BY <1>0, RecvFacts
<1>2. CASE Crash
  BY <1>1, <1>2, CrashLemma
<1>3. CASE ~Crash
  <2>1. /\ Becomes(a, {}, update_network_stat(mx, body))
        /\ Touched(a, ~(DOMAIN body \subseteq Known(a)))
        /\ net' = net \ {r}
        /\ UNCHANGED <<age, original, bundlesSeen>>
    BY <1>0, <1>3 DEF stat_matrix_recived_last
  <2>2. OwnStep(a, mx, mx) /\ RowsKept(mx, mx)
    BY <1>1, OwnStepNone DEF RowsKept
  <2>3. MatrixEffect(mx)
    <3>1. PICK W : W = {}
      OBVIOUS
    <3>2. W \in SUBSET {mx} /\ Becomes(a, W, update_network_stat(mx, body))
      BY <2>1, <3>1
    <3> QED  BY <1>0, <1>1, <2>2, <3>2, ReportEffect
  <2>4. NetInv'
    BY <1>1, <2>1, <2>3, NetLemma DEF MatrixEffect
  <2>5. CopyInv'
    BY <1>1, <2>1, CopySame
  <2>6. DOMAIN updatedSince' = Nodes /\ \A c \in Nodes : updatedSince'[c] \subseteq Junior(c)
    BY <1>1, <2>1, TouchedLemma
  <2>7. stat_sprying_policy' = stat_sprying_policy /\ crashed' = crashed
    BY <2>1 DEF Becomes
  <2>8. RestInv'
    BY <1>1, <2>1, <2>6, <2>7 DEF RestInv
  <2> QED  BY <2>3, <2>4, <2>5, <2>8 DEF StatInv, MatrixEffect
<1> QED  BY <1>2, <1>3

LEMMA RecvVersionsFirst ==
    ASSUME StatInv, NEW r \in net, versions_based_reverse_schema_first(r),
           now' = now, arrivals' = arrivals, exchanges' = exchanges
    PROVE  StatInv' /\ Advances
<1> DEFINE a == r.to
           b == r.from
           body == r.body
           mx == messagesMatrix[a]
           Nulls(mx1) == \E m \in (Held(a) \cup Answered(mx1, body)) \cap Known(a) :
                            HasNull(mx1[m])
           Effect(mx1, T, mx2, S, h) ==
              /\ Becomes(a, {mx1, mx2}, mx2)
              /\ Copies(a, Aged(a, h))
              /\ bundlesSeen' = [bundlesSeen EXCEPT ![a] = @ \ (S \ T)]
              /\ Touched(a, T # {} \/ Held(a) \cap Known(a) # {})
              /\ \E out \in Versions(mx1, T),
                    new \in get_stat_to_send_based_on_versions(mx2, body) :
                    net' = InBound((net \ {r}) \cup Sent(a, b, 9, out)
                                              \cup Sent(a, b, 7, new))
           Step(mx1, T, mx2, S, late, h) ==
              IF RequestCrashes(a, S, late) \/ Nulls(mx1) THEN Crash
              ELSE Walked(a, mx1, S) /\ Effect(mx1, T, mx2, S, h)
<1>00. \E S \in SUBSET bundlesSeen[a], late \in Late(a), h \in Ages(a) :
          LET mx1 == Checked(mx, a, S, late)
              T == Asked(mx1, S)
              mx2 == UpdateLocalMessagesStat(mx1, a, h)
          IN  Step(mx1, T, mx2, S, late, h)
  BY DEF versions_based_reverse_schema_first
<1> HIDE DEF Nulls, Effect, a, b, body, mx
<1>0. a = r.to /\ b = r.from /\ body = r.body /\ mx = messagesMatrix[a]
  BY DEF a, b, body, mx
<1>1. /\ CopyInv /\ RestInv /\ MatrixInv /\ NetInv /\ NowGrows
      /\ a \in Nodes /\ b \in Nodes /\ a # b /\ mx \in MatrixOf(a)
      /\ arrivals' \in 0..MaxArrivals /\ exchanges' \in 0..MaxExchanges
  BY <1>0, RecvFacts
<1>2. CASE Crash
  BY <1>1, <1>2, CrashLemma
<1>3. CASE ~Crash
  <2>0. PICK S \in SUBSET bundlesSeen[a], late \in Late(a), h \in Ages(a) :
          LET mx1 == Checked(mx, a, S, late)
              T == Asked(mx1, S)
              mx2 == UpdateLocalMessagesStat(mx1, a, h)
          IN  ~Nulls(mx1) /\ Effect(mx1, T, mx2, S, h)
    BY <1>3, <1>00
  <2>1. PICK mx1, T, mx2, out, new :
          /\ mx1 = Checked(mx, a, S, late)
          /\ T = Asked(mx1, S)
          /\ mx2 = UpdateLocalMessagesStat(mx1, a, h)
          /\ \A m \in (Held(a) \cup Answered(mx1, body)) \cap Known(a) : ~HasNull(mx1[m])
          /\ Becomes(a, {mx1, mx2}, mx2)
          /\ Copies(a, Aged(a, h))
          /\ bundlesSeen' = [bundlesSeen EXCEPT ![a] = @ \ (S \ T)]
          /\ Touched(a, T # {} \/ Held(a) \cap Known(a) # {})
          /\ new \in get_stat_to_send_based_on_versions(mx2, body)
          /\ net' = InBound((net \ {r}) \cup Sent(a, b, 9, out) \cup Sent(a, b, 7, new))
    BY <2>0 DEF Nulls, Effect
  <2>2. OwnStep(a, mx, mx1) /\ DOMAIN mx1 = DOMAIN mx
    BY <1>1, <2>1, CheckedLemma
  <2>3. mx1 \in MatrixOf(a)
    BY <2>2 DEF OwnStep
  <2>4. /\ OwnStep(a, mx1, mx2) /\ DOMAIN mx2 = DOMAIN mx1
        /\ \A m \in DOMAIN mx1 : ~HasNull(mx1[m]) => ~HasNull(mx2[m])
    BY <1>1, <2>1, <2>3, AgedRows
  <2>5. mx2 \in MatrixOf(a)
    BY <2>4 DEF OwnStep
  <2>6. MatrixEffect(mx1) /\ Sourced(mx2, past')
    BY <1>0, <1>1, <2>1, <2>2, <2>4, OwnEffect
  <2>7. Describes(mx2, new)
    <3>1. ASSUME NEW m \in Answered(mx2, body) PROVE ~HasNull(mx2[m])
      <4>1. m \in DOMAIN mx1 /\ m \in Answered(mx1, body) /\ m \in Known(a)
        BY <1>0, <2>2, <2>4 DEF Answered, Known
      <4> QED  BY <2>1, <2>4, <4>1
    <3> QED  BY <2>1, <3>1, NewerDescribed
  <2>8. \A q \in Sent(a, b, 7, new) : ReportOf(q, past')
    BY <1>1, <2>5, <2>6, <2>7, SendRows DEF MatrixEffect, MatrixInv
  <2>9. \A q \in Sent(a, b, 9, out) : ReportOf(q, past')
    BY <1>1, SendVersions
  <2>10. \A q \in net' : q \in net \/ ReportOf(q, past')
    BY <2>1, <2>8, <2>9, InBoundLemma
  <2>11. NetInv'
    BY <1>1, <2>6, <2>10, NetLemma DEF MatrixEffect
  <2>12. CopyInv'
    BY <1>1, <2>1, AgedCopies
  <2>13. DOMAIN updatedSince' = Nodes /\ \A c \in Nodes : updatedSince'[c] \subseteq Junior(c)
    BY <1>1, <2>1, TouchedLemma
  <2>14. DOMAIN bundlesSeen' = Nodes /\ \A c \in Nodes : bundlesSeen'[c] \subseteq Messages
    BY <1>1, <2>1 DEF RestInv
  <2>15. stat_sprying_policy' = stat_sprying_policy /\ crashed' = crashed
    BY <2>1 DEF Becomes
  <2>16. RestInv'
    BY <1>1, <2>13, <2>14, <2>15 DEF RestInv
  <2> QED  BY <2>6, <2>11, <2>12, <2>16 DEF StatInv, MatrixEffect
<1> QED  BY <1>2, <1>3

LEMMA RecvVersionsLast ==
    ASSUME StatInv, NEW r \in net, versions_based_reverse_schema_last(r),
           now' = now, arrivals' = arrivals, exchanges' = exchanges
    PROVE  StatInv' /\ Advances
<1>0. PICK a, b, body, mx :
        a = r.to /\ b = r.from /\ body = r.body /\ mx = messagesMatrix[a]
  OBVIOUS
<1>1. /\ CopyInv /\ RestInv /\ MatrixInv /\ NetInv /\ NowGrows
      /\ a \in Nodes /\ b \in Nodes /\ a # b /\ mx \in MatrixOf(a)
      /\ arrivals' \in 0..MaxArrivals /\ exchanges' \in 0..MaxExchanges
  BY <1>0, RecvFacts
<1>2. CASE Crash
  BY <1>1, <1>2, CrashLemma
<1>3. CASE ~Crash
  <2>1. PICK h, mx1, new :
          /\ h \in Ages(a)
          /\ mx1 = UpdateLocalMessagesStat(mx, a, h)
          /\ \A m \in (Held(a) \cup Answered(mx, body)) \cap Known(a) : ~HasNull(mx[m])
          /\ Becomes(a, {mx1}, mx1)
          /\ Copies(a, Aged(a, h))
          /\ Touched(a, Held(a) \cap Known(a) # {})
          /\ new \in get_stat_to_send_based_on_versions(mx1, body)
          /\ net' = InBound((net \ {r}) \cup Sent(a, b, 7, new))
          /\ UNCHANGED bundlesSeen
    BY <1>0, <1>3 DEF versions_based_reverse_schema_last
  <2>2. /\ OwnStep(a, mx, mx1) /\ DOMAIN mx1 = DOMAIN mx
        /\ \A m \in DOMAIN mx : ~HasNull(mx[m]) => ~HasNull(mx1[m])
    BY <1>1, <2>1, AgedRows
  <2>3. mx1 \in MatrixOf(a)
    BY <2>2 DEF OwnStep
  <2>4. MatrixEffect(mx1)
    BY <1>0, <1>1, <2>1, <2>2, OneEffect
  <2>5. Describes(mx1, new)
    <3>1. ASSUME NEW m \in Answered(mx1, body) PROVE ~HasNull(mx1[m])
      <4>1. m \in DOMAIN mx /\ m \in Answered(mx, body) /\ m \in Known(a)
        BY <1>0, <2>2 DEF Answered, Known
      <4> QED  BY <2>1, <2>2, <4>1
    <3> QED  BY <2>1, <3>1, NewerDescribed
  <2>6. \A q \in Sent(a, b, 7, new) : ReportOf(q, past')
    BY <1>1, <2>3, <2>4, <2>5, SendRows DEF MatrixEffect, MatrixInv
  <2>7. \A q \in net' : q \in net \/ ReportOf(q, past')
    BY <2>1, <2>6, InBoundLemma
  <2>8. NetInv'
    BY <1>1, <2>4, <2>7, NetLemma DEF MatrixEffect
  <2>9. CopyInv'
    BY <1>1, <2>1, AgedCopies
  <2>10. DOMAIN updatedSince' = Nodes /\ \A c \in Nodes : updatedSince'[c] \subseteq Junior(c)
    BY <1>1, <2>1, TouchedLemma
  <2>11. stat_sprying_policy' = stat_sprying_policy /\ crashed' = crashed
    BY <2>1 DEF Becomes
  <2>12. RestInv'
    BY <1>1, <2>1, <2>10, <2>11 DEF RestInv
  <2> QED  BY <2>4, <2>8, <2>9, <2>12 DEF StatInv, MatrixEffect
<1> QED  BY <1>2, <1>3

-----------------------------------------------------------------------------
(* The steps together. *)

LEMMA LoseLemma ==
    ASSUME StatInv, NEW r \in net, lose(r)
    PROVE  StatInv' /\ Advances
<1>0. /\ CopyInv /\ RestInv /\ MatrixInv /\ NetInv
      /\ net' = net \ {r}
      /\ UNCHANGED <<stat_sprying_policy, now, age, original, messagesMatrix,
                     bundlesSeen, updatedSince, arrivals, exchanges, crashed, past>>
  BY DEF StatInv, lose
<1>1. NowGrows
  BY <1>0, NowSame
<1>2. CopyInv'
  BY <1>0, <1>1, CopySame
<1>3. MatrixInv' /\ NetInv' /\ RestInv'
  BY <1>0 DEF MatrixInv, NetInv, RestInv
<1>4. Advances
  BY <1>0, AdvancesNone
<1> QED  BY <1>2, <1>3, <1>4 DEF StatInv

LEMMA TickLemma ==
    ASSUME StatInv, NEW m \in Messages, Tick(m)
    PROVE  StatInv' /\ Advances
<1>0. /\ CopyInv /\ RestInv /\ MatrixInv /\ NetInv /\ axe_length \in Nat
      /\ now[m] \in 0..(MaxAge[m] - 1) /\ now' = [now EXCEPT ![m] = @ + 1]
      /\ UNCHANGED <<stat_sprying_policy, age, original, messagesMatrix,
                     bundlesSeen, updatedSince, arrivals, exchanges, net, crashed, past>>
  BY Sizes DEF StatInv, Tick
<1>1. NowGrows
  <2>1. \A k \in Messages : now[k] \in Int
    BY <1>0 DEF CopyInv
  <2>2. now[m] + 1 \in -1..axe_length
    <3>1. MaxAge[m] \in 0..axe_length
      BY Sizes
    <3> QED  BY <1>0, <3>1
  <2>3. now' \in [Messages -> -1..axe_length]
    BY <1>0, <2>2 DEF CopyInv
  <2>4. \A k \in Messages : now[k] <= now'[k]
    BY <1>0, <2>1 DEF CopyInv
  <2> QED  BY <2>3, <2>4 DEF NowGrows
<1>2. CopyInv'
  BY <1>0, <1>1, CopySame
<1>3. MatrixInv' /\ NetInv' /\ RestInv'
  BY <1>0 DEF MatrixInv, NetInv, RestInv
<1>4. Advances
  BY <1>0, AdvancesNone
<1> QED  BY <1>2, <1>3, <1>4 DEF StatInv

LEMMA RecvLemma ==
    ASSUME StatInv, NEW r \in net, recv(r)
    PROVE  StatInv' /\ Advances
<1>1. now' = now /\ arrivals' = arrivals /\ exchanges' = exchanges
  BY DEF recv
<1>2. CASE r.conv = 6 /\ stat_matrix_recived_first(r)
  BY <1>1, <1>2, RecvFirst
<1>3. CASE r.conv = 7 /\ stat_matrix_recived_last(r)
  BY <1>1, <1>3, RecvLast
<1>4. CASE r.conv = 8 /\ versions_based_reverse_schema_first(r)
  BY <1>1, <1>4, RecvVersionsFirst
<1>5. CASE r.conv = 9 /\ versions_based_reverse_schema_last(r)
  BY <1>1, <1>5, RecvVersionsLast
<1> QED  BY <1>2, <1>3, <1>4, <1>5 DEF recv

LEMMA NextLemma ==
    ASSUME StatInv, Next
    PROVE  StatInv' /\ Advances
<1>1. CASE \E a \in Nodes : make_clean(a)
  BY <1>1, MakeCleanLemma
<1>2. CASE \E a \in Nodes : get_stat_from_axe(a)
  BY <1>2, ReadLemma
<1>3. CASE \E a \in Nodes, m \in Messages : newBundle(a, m)
  BY <1>3, NewBundleLemma
<1>4. CASE \E a \in Nodes, m \in Messages : delete_delivred_bundles(a, m)
  BY <1>4, DeleteLemma
<1>5. CASE \E a \in Nodes, b \in Nodes : a # b /\ recvHello(a, b)
  BY <1>5, HelloLemma
<1>6. CASE \E a \in Nodes, b \in Nodes, m \in Messages : recv_bundle(a, b, m)
  BY <1>6, RecvBundleLemma
<1>7. CASE \E r \in net : recv(r)
  BY <1>7, RecvLemma
<1>8. CASE \E r \in net : lose(r)
  BY <1>8, LoseLemma
<1>9. CASE \E m \in Messages : Tick(m)
  BY <1>9, TickLemma
<1> QED  BY <1>1, <1>2, <1>3, <1>4, <1>5, <1>6, <1>7, <1>8, <1>9 DEF Next

LEMMA InitLemma ==
    ASSUME Init
    PROVE  StatInv
<1> USE DEF Init
<1>1. MatrixInv
  <2> DEFINE empty == [m \in {} |-> NoRows]
  <2>1. \A a \in Nodes : empty \in MatrixOf(a) /\ Sourced(empty, past)
    <3> TAKE a \in Nodes
    <3>1. empty \in [{} -> MessageOf(a)]
      OBVIOUS
    <3>2. empty \in MatrixOf(a)
      BY <3>1, MatrixIntro
    <3> QED  BY <3>2 DEF Sourced
  <2>2. past \in Pasts
    BY DEF Pasts
  <2> HIDE DEF empty
  <2>3. DOMAIN messagesMatrix = Nodes /\ \A a \in Nodes : messagesMatrix[a] = empty
    BY DEF empty
  <2> QED  BY <2>1, <2>2, <2>3 DEF MatrixInv
<1>2. NetInv
  BY DEF NetInv
<1>3. CopyInv
  <2>1. \A a \in Nodes : Held(a) = {}
    BY DEF Held
  <2>2. \A a \in Nodes : Cardinality(Held(a)) <= max_number_of_bundles
    <3>1. Cardinality({}) = 0 /\ 0 <= max_number_of_bundles
      BY FS_EmptySet, Sizes
    <3> QED  BY <2>1, <3>1
  <2>3. -1 \in -1..axe_length /\ -1 \in -1..(-1)
    BY Sizes
  <2>4. now \in [Messages -> -1..axe_length] /\ age \in [Nodes -> [Messages -> Int]]
        /\ \A a \in Nodes : \A m \in Messages : age[a][m] \in -1..now[m]
    BY <2>3
  <2> QED  BY <2>2, <2>4 DEF CopyInv
<1>4. RestInv
  <2>1. 0 \in 0..MaxArrivals /\ 0 \in 0..MaxExchanges
    BY Sizes
  <2>2. DOMAIN bundlesSeen = Nodes /\ \A a \in Nodes : bundlesSeen[a] \subseteq Messages
    OBVIOUS
  <2>3. DOMAIN updatedSince = Nodes /\ \A a \in Nodes : updatedSince[a] \subseteq Junior(a)
    OBVIOUS
  <2> QED  BY <2>1, <2>2, <2>3 DEF RestInv
<1> QED  BY <1>1, <1>2, <1>3, <1>4 DEF StatInv

\* StatInv is an invariant: matrices and reports in flight keep their shape, and
\* every row in them about a node is the beginning of one that node wrote about
\* itself (get_node_from_stat may cut the first row of a description).
THEOREM StatSound == Spec => []StatInv
<1>1. Init => StatInv
  BY InitLemma
<1>2. StatInv /\ [Next]_vars => StatInv'
  <2>1. StatInv /\ Next => StatInv'
    BY NextLemma
  <2>2. ASSUME StatInv, UNCHANGED vars PROVE StatInv'
    BY <2>2 DEF vars, StatInv, MatrixInv, NetInv, CopyInv, RestInv, Held
  <2> QED  BY <2>1, <2>2
<1> QED  BY <1>1, <1>2, PTL DEF Spec

\* Type correctness: the matrices of Network_Stat_Bloom have rows of messages
\* under names, only the own row of an agent may be a NULL pointer, no copy is
\* older than its message and no buffer holds more than its capacity.
THEOREM StatTyped == Spec => []TypeOK
<1>1. StatInv => TypeOK
  <2> SUFFICES ASSUME StatInv PROVE TypeOK
    OBVIOUS
  <2>0. CopyInv /\ RestInv /\ MatrixInv /\ NetInv
    BY DEF StatInv
  <2>1. ASSUME NEW a \in Nodes
        PROVE  /\ Known(a) \subseteq Messages
               /\ \A m \in Known(a) :
                     LET dm == messagesMatrix[a][m]
                     IN  /\ dm.message_status \in {0, 1}
                         /\ DOMAIN dm.rows \subseteq Names
                         /\ \A x \in DOMAIN dm.rows :
                               dm.rows[x] \in Row \cup (IF x = Name(a) THEN {NULL} ELSE {})
    <3>1. messagesMatrix[a] \in MatrixOf(a)
      BY <2>0 DEF MatrixInv
    <3>2. /\ Known(a) \subseteq Messages
          /\ \A m \in Known(a) : /\ messagesMatrix[a][m].rows \in RowsOf(a)
                                 /\ messagesMatrix[a][m].message_status \in {0, 1}
      BY <3>1, MatrixLemma DEF Known
    <3>3. ASSUME NEW m \in Known(a)
          PROVE  /\ DOMAIN messagesMatrix[a][m].rows \subseteq Names
                 /\ \A x \in DOMAIN messagesMatrix[a][m].rows :
                       messagesMatrix[a][m].rows[x]
                           \in Row \cup (IF x = Name(a) THEN {NULL} ELSE {})
      <4>1. PICK f : f = messagesMatrix[a][m].rows /\ f \in RowsOf(a)
        BY <3>2
      <4>2. DOMAIN f \subseteq Names /\ f \in [DOMAIN f -> Row \cup {NULL}]
            /\ \A x \in DOMAIN f : x # Name(a) => f[x] \in Row
        BY <4>1, RowsLemma
      <4>3. \A x \in DOMAIN f : f[x] \in Row \cup (IF x = Name(a) THEN {NULL} ELSE {})
        BY <4>2
      <4> QED  BY <4>1, <4>2, <4>3
    <3> QED  BY <3>2, <3>3
  <2>2. /\ stat_sprying_policy \in Policies /\ now \in [Messages -> -1..axe_length]
        /\ original \subseteq Messages /\ arrivals \in 0..MaxArrivals
        /\ exchanges \in 0..MaxExchanges /\ crashed \in BOOLEAN
    BY <2>0 DEF CopyInv, RestInv
  <2>3. \A a \in Nodes : /\ \A m \in Messages : age[a][m] \in -1..now[m]
                         /\ Cardinality(Held(a)) <= max_number_of_bundles
                         /\ bundlesSeen[a] \subseteq Messages
                         /\ updatedSince[a] \subseteq {b \in Nodes : a > b}
    BY <2>0 DEF CopyInv, RestInv, Junior
  <2>4. \A r \in net : r.conv \in 6..9 /\ r.from # r.to
    BY <2>0 DEF NetInv, ReportOf
  <2> QED  BY <2>1, <2>2, <2>3, <2>4 DEF TypeOK
<1> QED  BY <1>1, StatSound, PTL

\* What an agent believes about a node is the beginning of what that node once
\* wrote about itself, for any number of nodes, messages, bins and reports in
\* flight, and however reports are cut, parsed, read again, lost and reordered
\* (get_node_from_stat, update_network_stat).
THEOREM BeliefsSourced == Spec => []RowsFromOwner
<1>1. StatInv => RowsFromOwner
  BY DEF StatInv, MatrixInv, Sourced, Told, RowsFromOwner, Known
<1> QED  BY <1>1, StatSound, PTL

\* A report that arrives late never replaces a newer one (addNode of a reported
\* row compares versions), until IsValid ends the message.
THEOREM BeliefsAdvance == Spec => NeverOlder
<1>1. StatInv /\ [Next]_vars => [Advances]_vars
  BY NextLemma
<1>2. Advances => \A a \in Nodes : \A m \in Known(a) :
          \A x \in DOMAIN messagesMatrix[a][m].rows \ {Name(a)} :
              x \in DOMAIN messagesMatrix'[a][m].rows =>
                  messagesMatrix'[a][m].rows[x].version
                      >= messagesMatrix[a][m].rows[x].version
  BY DEF Advances
<1> QED  BY <1>1, <1>2, StatSound, PTL DEF Spec, NeverOlder
=============================================================================
