----------------------------- MODULE StatMatrix -----------------------------
(***************************************************************************)
(* The network statistics (Network_Stat_Bloom), in use when maintain_stat  *)
(* is 1.  Every agent keeps a matrix with, for each bundle ("message") and *)
(* each node, one row: the age bins in which the node had a copy and the   *)
(* version of the row, which is the age bin of its last change.  An agent  *)
(* writes its own rows as copies come and go, and gets the rows of others  *)
(* from its neighbors:                                                     *)
(*                                                                         *)
(*   - policy 0 pushes the whole matrix (conversation 6), and the receiver *)
(*     answers with its own (conversation 7);                              *)
(*   - policy 2 sends the versions it has of the bundles it has seen       *)
(*     (conversations 8 and 9) and is answered with newer rows (7).        *)
(*                                                                         *)
(* The age a buffered copy carries (elapsed_time) is brought up to date    *)
(* now and then only, and a copy that is sent carries it as it stands, so  *)
(* the copies of a bundle differ in age and lag behind its real age.       *)
(* Reports travel over the radio, which may lose or delay them; an agent   *)
(* that no longer has the sender as a neighbor deletes what it sent.       *)
(*                                                                         *)
(* Left out: meeting times and the maps mi, dr and dd, which are computed  *)
(* from the rows and feed the metrics of module BundleBuffer.              *)
(***************************************************************************)
EXTENDS Integers, Sequences, FiniteSets, SequencesExt, FiniteSetsExt

CONSTANTS
    Nodes,                        \* numbers, in the order of their names
    Messages,
    Src,                          \* the node each message is sent by
    Policies,                     \* values of stat_sprying_policy to explore
    axe_length,                   \* number of bins
    ttl_bin,                      \* the bin in which a bundle reaches its ttl
    max_number_of_stat_messages,
    max_number_of_bundles,        \* capacity of a buffer
    MaxArrivals,                  \* bound: copies that reach a buffer
    MaxExchanges,                 \* bound: exchanges that are started
    MaxEvents,                    \* bound: both together
    MaxAge,                       \* bound: the bin a message's age gets to
    MaxReports,                   \* bound: reports in flight
    MaxMarks                      \* bound: separators in front of a name

ASSUME StatMatrixAssumption ==
    /\ Nodes \subseteq Nat /\ IsFiniteSet(Nodes)
    /\ IsFiniteSet(Messages)
    /\ Src \in [Messages -> Nodes]
    /\ Policies \subseteq {0, 2}
    /\ axe_length \in Nat \ {0}
    /\ ttl_bin \in 0..axe_length
    /\ max_number_of_stat_messages \in Nat
    /\ max_number_of_bundles \in Nat \ {0}
    /\ MaxArrivals \in Nat /\ MaxExchanges \in Nat /\ MaxEvents \in Nat
    /\ MaxAge \in [Messages -> 0..axe_length]
    /\ MaxReports \in Nat /\ MaxMarks \in Nat

VARIABLES
    stat_sprying_policy,
    now,                \* the bin of each message's real age, -1 before it
    age,                \* the bin of elapsed_time of each copy, -1 if none
    original,           \* messages whose first copy never left its source
    messagesMatrix,     \* each agent's messages, each with its rows and status
    bundlesSeen,        \* messages an agent asks statistics about
    updatedSince,       \* juniors last heard before an agent's stat_last_update
    arrivals,           \* copies that reached a buffer so far
    exchanges,          \* exchanges started so far
    net,                \* reports and requests in flight
    crashed,            \* a NULL row was dereferenced
    past                \* every row each node wrote about itself

vars == <<stat_sprying_policy, now, age, original, messagesMatrix,
          bundlesSeen, updatedSince, arrivals, exchanges, net, crashed, past>>

Bins == 0..(axe_length - 1)
Row == [version : 0..axe_length, bits : SUBSET Bins]
NULL == [version |-> -1, bits |-> {}]       \* an entry without a row

\* A name in the matrix is the id of a node after a number of '$' marks.
Names == (0..MaxMarks) \X Nodes
Name(n) == <<0, n>>

Message == [rows : UNION {[S -> Row \cup {NULL}] : S \in SUBSET Names},
            message_status : {0, 1}]

NoRows == [x \in {} |-> NULL]

Known(a) == DOMAIN messagesMatrix[a]
Held(a) == {m \in Messages : age[a][m] >= 0}

\* The payload of a report lists rows, that of a request lists versions.
TypeOK ==
    /\ stat_sprying_policy \in Policies
    /\ now \in [Messages -> -1..axe_length]
    /\ \A a \in Nodes :
          /\ Known(a) \subseteq Messages
          /\ \A m \in Known(a) :
                LET dm == messagesMatrix[a][m]
                IN  /\ dm.message_status \in {0, 1}
                    /\ DOMAIN dm.rows \subseteq Names
                    /\ \A x \in DOMAIN dm.rows :
                          dm.rows[x] \in Row \cup (IF x = Name(a) THEN {NULL}
                                                ELSE {})
          /\ \A m \in Messages : age[a][m] \in -1..now[m]
          /\ original \subseteq Messages
          /\ Cardinality(Held(a)) <= max_number_of_bundles
          /\ bundlesSeen[a] \subseteq Messages
          /\ updatedSince[a] \subseteq {b \in Nodes : a > b}
    /\ arrivals \in 0..MaxArrivals
    /\ exchanges \in 0..MaxExchanges
    /\ \A r \in net : r.conv \in 6..9 /\ r.from # r.to
    /\ crashed \in BOOLEAN

Init ==
    /\ stat_sprying_policy \in Policies
    /\ now = [m \in Messages |-> -1]
    /\ age = [a \in Nodes |-> [m \in Messages |-> -1]]
    /\ original = {}
    /\ messagesMatrix = [a \in Nodes |-> [m \in {} |-> NoRows]]
    /\ bundlesSeen = [a \in Nodes |-> {}]
    /\ updatedSince = [a \in Nodes |-> {}]
    /\ arrivals = 0
    /\ exchanges = 0
    /\ net = {}
    /\ crashed = FALSE
    /\ past = [a \in Nodes |-> [m \in Messages |-> {}]]

-----------------------------------------------------------------------------
(* Rows. A matrix is passed as mx; dm is one of its messages. *)

New == [rows |-> NoRows, message_status |-> 0]

Put(f, x, v) == [y \in DOMAIN f \cup {x} |-> IF y = x THEN v ELSE f[y]]

\* The own row says that there is (1) or is no longer (0) a copy of age bin.
SetTimeBinValue(r, bin, value) ==
    [version |-> bin,
     bits |-> IF value = 1 THEN r.bits \cup ({bin} \cap Bins)
              ELSE {j \in r.bits : j <= bin}]

\* addNode of the agent a itself.
addNode(dm, a, bin, value) ==
    LET r == IF Name(a) \in DOMAIN dm.rows THEN dm.rows[Name(a)]
             ELSE [version |-> 0, bits |-> {}]
    IN  [dm EXCEPT !.rows = Put(@, Name(a), SetTimeBinValue(r, bin, value))]

\* Faulty variant of addNode_report: any report is taken.
addNode_report_any(dm, entry) ==
    [dm EXCEPT !.rows = Put(@, entry.name, entry.row)]

\* addNode of a reported row: it is taken unless its version is smaller.
addNode_report(dm, entry) ==
    IF /\ entry.name \in DOMAIN dm.rows
       /\ dm.rows[entry.name].version > entry.row.version
    THEN dm
    ELSE [dm EXCEPT !.rows = Put(@, entry.name, entry.row)]

\* update_bundle_status, for the messages of f, which maps them to age bins.
update_bundle_status(mx, a, f, value) ==
    [m \in DOMAIN mx |-> IF m \in DOMAIN f THEN addNode(mx[m], a, f[m], value)
                         ELSE mx[m]]

\* The rows of a list are added one after the other.
update_message(dm, list) ==
    LET after[i \in 0..Len(list)] ==
            IF i = 0 THEN dm ELSE addNode_report(after[i - 1], list[i])
    IN  after[Len(list)]
add_message(list) == update_message(New, list)

\* Every message of a report is added or updated.
update_network_stat(mx, body) ==
    [m \in DOMAIN mx \cup DOMAIN body |->
        IF m \notin DOMAIN body THEN mx[m]
        ELSE IF m \in DOMAIN mx THEN update_message(mx[m], body[m])
        ELSE add_message(body[m])]

HasNull(dm) == \E x \in DOMAIN dm.rows : dm.rows[x] = NULL

-----------------------------------------------------------------------------
(* IsValid: whether the rows of a message are recent enough, and the end of *)
(* a message whose rows all have the last version. late says that the       *)
(* statistics' own clock of the message has reached its ttl.                *)

\* Faulty variant of TtlVersion: the last version is one too large.
TtlVersion_too_large(dm, a, late) ==
    IF ~late \/ Name(a) \notin DOMAIN dm.rows THEN dm.rows
    ELSE [dm.rows EXCEPT ![Name(a)].version = axe_length + 1]

\* The row a gets at the ttl. operator[] enters a NULL row for an agent that
\* has none.
TtlVersion(dm, a, late) ==
    IF ~late THEN dm.rows
    ELSE IF Name(a) \notin DOMAIN dm.rows THEN Put(dm.rows, Name(a), NULL)
    ELSE IF dm.rows[Name(a)] = NULL THEN dm.rows
    ELSE [dm.rows EXCEPT ![Name(a)].version = axe_length]

\* GetMaxVersion: the smallest version of the rows.
smallerVersion(rows) ==
    LET vs == {rows[x].version : x \in {y \in DOMAIN rows : rows[y] # NULL}}
    IN  IF vs = {} THEN 10 * axe_length ELSE Min(vs)

Complete(rows) ==
    /\ smallerVersion(rows) >= axe_length
    /\ Cardinality(DOMAIN rows) >= 2

IsValid(dm, a, late) ==
    LET rows == TtlVersion(dm, a, late)
    IN  IF dm.message_status = 1 THEN dm
        ELSE IF Complete(rows) THEN [rows |-> NoRows, message_status |-> 1]
        ELSE [dm EXCEPT !.rows = rows]

IsMessageValid(dm) ==
    dm.message_status = 1 \/ smallerVersion(dm.rows) >= axe_length

\* The maps of a complete message are computed for the last time, which reads
\* every row.
IsValidCrashes(dm, a, late) ==
    LET rows == TtlVersion(dm, a, late)
    IN  dm.message_status = 0 /\ Complete(rows)
        /\ \E x \in DOMAIN rows : rows[x] = NULL

\* The possible readings of a's clocks of the messages it knows.
Late(a) == {late \in [Known(a) -> BOOLEAN] : \A m \in Known(a) :
                                             late[m] => now[m] >= ttl_bin}

\* IsValid of the messages of S.
Checked(mx, a, S, late) ==
    [m \in DOMAIN mx |-> IF m \in S THEN IsValid(mx[m], a, late[m]) ELSE mx[m]]
CheckCrashes(mx, a, S, late) ==
    \E m \in DOMAIN mx \cap S : IsValidCrashes(mx[m], a, late[m])

-----------------------------------------------------------------------------
(* Reports. *)

\* The order of names in the map: '$' comes before any other character.
Before(x, y) == x[1] > y[1] \/ (x[1] = y[1] /\ x[2] < y[2])

InOrder(S) ==
    [k \in 1..Cardinality(S) |->
        CHOOSE x \in S : Cardinality({y \in S : Before(y, x)}) = k - 1]

\* The number of '$' in front of the first row a description of sel has: a row
\* gets one unless its name is the first of the map.
Marks(rows, sel) ==
    IF InOrder(DOMAIN rows)[1] \in sel THEN 0 ELSE 1

\* What may be read of the text of a row that is cut: the version without some
\* of its last digits and no bin, or the version and the first bins; a bin that
\* is not read counts as 0.
Leading(v) == {u \in 0..v : \E d \in 0..v : u = v \div 10^d}
Beginnings(r) ==
    {[version |-> r.version, bits |-> {j \in r.bits : j < k}] :
        k \in 0..axe_length}
    \cup {[version |-> u, bits |-> {}] : u \in Leading(r.version)}

\* Faulty variant of get_node_from_stat: a row is read one place too early.
get_node_from_stat_early(rows, s, marks) ==
    {[i \in 1..Len(s) |->
        [name |-> s[i], row |-> rows[s[IF i = 1 THEN 1 ELSE i - 1]]]]}

\* The parser, for the rows s of a description that starts with marks '$'. The
\* first name is read as it is written, marks included; after each '$' the
\* parser skips to the next node id and reads its row. It takes the position of
\* the first '$' for the length of the first text: if the description starts
\* with one, that text is cut to the length of the message's id, which may be
\* anywhere after the name.
get_node_from_stat(rows, s, marks) ==
    LET read(x, d, r) == [name |-> <<d, x[2]>>, row |-> r]
        d1 == s[1][1] + marks
        others == [i \in 1..(Len(s) - 1) |-> read(s[i + 1], 0, rows[s[i + 1]])]
    IN  IF d1 = 0 THEN {<<read(s[1], 0, rows[s[1]])>> \o others}
        ELSE {<<read(s[1], d1, r), read(s[1], 0, rows[s[1]])>> \o others :
                 r \in Beginnings(rows[s[1]])}

\* What may be read of the rows of sel, written in the order of the map.
GetSubSetDescription(rows, sel) ==
    IF sel = {} THEN {<<>>}
    ELSE get_node_from_stat(rows, InOrder(sel), Marks(rows, sel))

GetDescription(rows) == GetSubSetDescription(rows, DOMAIN rows)

\* The bodies with, for each message, one of the readings f has for it.
Readings(f) ==
    {body \in [DOMAIN f -> UNION {f[m] : m \in DOMAIN f}] :
        \A m \in DOMAIN f : body[m] \in f[m]}

\* The whole matrix.
get_stat_to_send(mx) ==
    Readings([m \in DOMAIN mx |-> GetDescription(mx[m].rows)])

\* The rows a request lists older versions of, or does not list.
Newer(rows, list) ==
    LET known(x) == SelectInSeq(list, LAMBDA e : e.name = x)
    IN  {x \in DOMAIN rows : \/ known(x) = 0
                             \/ rows[x].version > list[known(x)].row.version}

Answered(mx, body) == {m \in DOMAIN mx \cap DOMAIN body : body[m] # <<>>}

get_stat_to_send_based_on_versions(mx, body) ==
    LET sel(m) == Newer(mx[m].rows, body[m])
        ms == {m \in Answered(mx, body) : sel(m) # {}}
    IN  Readings([m \in ms |-> GetSubSetDescription(mx[m].rows, sel(m))])

\* GetVersionBasedDescription of the messages of T, as it may be read.
Versions(mx, T) ==
    LET listed(list) == [i \in DOMAIN list |->
                            [list[i] EXCEPT !.row = [version |-> @.version]]]
    IN  Readings([m \in T \cap DOMAIN mx |->
            {listed(list) : list \in GetDescription(mx[m].rows)}])

\* A bundle of a to b for each non-empty body, if the bounds allow it.
Sent(a, b, conv, body) ==
    IF /\ DOMAIN body # {}
       /\ \A m \in DOMAIN body : \A e \in ToSet(body[m]) : e.name \in Names
    THEN {[from |-> a, to |-> b, conv |-> conv, body |-> body]}
    ELSE {}

InBound(S) == IF Cardinality(S) <= MaxReports THEN S ELSE net \cap S

-----------------------------------------------------------------------------
(* The agent a. *)

\* The ages update_elapsed_time may find for the copies of a: the real age of an
\* original; a copy that was sent has lost some time.
Ages(a) == {h \in [Held(a) -> 0..axe_length] :
               \A m \in Held(a) :
                  /\ age[a][m] <= h[m] /\ h[m] <= now[m]
                  /\ a = Src[m] /\ m \in original => h[m] = now[m]}

\* The copies of a are those of f. A new message is an original until it leaves
\* the buffer of its source.
Copies(a, f) ==
    /\ age' = [age EXCEPT ![a] = f]
    /\ original' = {m \in Messages :
                       IF a = Src[m] THEN f[m] >= 0 /\ (m \in original \/ now[m] = -1)
                       ELSE m \in original}

Aged(a, h) == [m \in Messages |-> IF m \in DOMAIN h THEN h[m] ELSE age[a][m]]

UpdateLocalMessagesStat(mx, a, h) == update_bundle_status(mx, a, h, 1)

\* The matrix of a becomes mx. On the way it was that of written, matrices in
\* which the rows of a about itself are those it wrote.
Becomes(a, written, mx) ==
    LET own(x, m) == IF m \in DOMAIN x /\ Name(a) \in DOMAIN x[m].rows
                     THEN {x[m].rows[Name(a)]} \ {NULL} ELSE {}
        new(m) == (UNION {own(x, m) : x \in written}) \ own(messagesMatrix[a], m)
    IN  /\ messagesMatrix' = [messagesMatrix EXCEPT ![a] = mx]
        /\ past' = [past EXCEPT ![a] = [m \in Messages |-> @[m] \cup new(m)]]
        /\ UNCHANGED <<stat_sprying_policy, crashed>>

\* The nodes with which a starts the exchanges: a node's rule is its number.
Junior(a) == {b \in Nodes : a > b}

\* stat_last_update, if P, is now, later than any hello.
Touched(a, P) == updatedSince' = [updatedSince EXCEPT ![a] =
                                     IF P THEN Junior(a) ELSE @]

\* The simulation ends in a NULL row.
Crash == crashed' = TRUE /\ UNCHANGED <<stat_sprying_policy, age, original,
            messagesMatrix, bundlesSeen, updatedSince, net, past>>

\* Network_Stat_Bloom::add_bundle of a copy of age bin g. The limit is on the
\* known messages under policy 0, on those that are not valid under policy 2.
MayAdd(mx) ==
    Cardinality(IF stat_sprying_policy = 0 THEN DOMAIN mx
                ELSE {m \in DOMAIN mx : ~IsMessageValid(mx[m])})
        < max_number_of_stat_messages

stat_add_bundle(mx, a, m, g) ==
    IF MayAdd(mx)
    THEN Put(mx, m, addNode(IF m \in DOMAIN mx THEN mx[m] ELSE New, a, g, 1))
    ELSE mx

\* The outcome of add_bundle of m at a: f are the copies a has then, mx1 and mx
\* the matrix before and after it is told, T the messages whose rows it writes.
Stored(a, m, f, T, mx1, mx) ==
    IF \E x \in T \cap DOMAIN mx1 : HasNull(mx1[x]) THEN Crash
    ELSE /\ Becomes(a, {mx1, mx}, mx)
         /\ Touched(a, T # {})
         /\ Copies(a, f)
         /\ bundlesSeen' = [bundlesSeen EXCEPT ![a] = @ \cup {m}]
         /\ UNCHANGED net

\* A copy of m, of age bin g, reaches the buffer of a. When it is full, the
\* policies that use the statistics (7 and 8) consult them, and evict a copy v
\* or refuse m; policy 7 then records that m came and went.
add_bundle(a, m, g, mine) ==
    \E late \in Late(a) :
        LET full == Cardinality(Held(a)) = max_number_of_bundles
            mx == messagesMatrix[a]
            checks == full \/ stat_sprying_policy = 2
            mx1 == IF checks THEN Checked(mx, a, DOMAIN mx, late) ELSE mx
            added(x) == stat_add_bundle(x, a, m, g)
            T == IF MayAdd(mx1) THEN {m} ELSE {}
        IN  IF checks /\ CheckCrashes(mx, a, DOMAIN mx, late) THEN Crash
            ELSE \/ /\ ~full
                    /\ Stored(a, m, [age[a] EXCEPT ![m] = g], T, mx1, added(mx1))
                 \/ /\ full
                    /\ \E v \in Held(a) :
                          LET gone == update_bundle_status(mx1, a,
                                          [x \in {v} |-> age[a][v]], 0)
                          IN  Stored(a, m, [age[a] EXCEPT ![v] = -1, ![m] = g],
                                     T \cup {v}, mx1, added(gone))
                 \/ /\ full /\ ~mine
                    /\ \/ Stored(a, m, age[a], {m}, mx1,
                                 update_bundle_status(added(mx1), a,
                                                      [x \in {m} |-> g], 0))
                       \/ Stored(a, m, age[a], {}, mx1, mx1)

\* An application sends m at a.
newBundle(a, m) ==
    /\ a = Src[m] /\ now[m] = -1
    /\ arrivals < MaxArrivals /\ arrivals + exchanges < MaxEvents
    /\ arrivals' = arrivals + 1
    /\ now' = [now EXCEPT ![m] = 0]
    /\ add_bundle(a, m, 0, TRUE)
    /\ UNCHANGED exchanges

\* The copy of b, with the age it has in the buffer of b, reaches a.
recv_bundle(a, b, m) ==
    /\ m \in Held(b) \ Held(a)
    /\ arrivals < MaxArrivals /\ arrivals + exchanges < MaxEvents
    /\ arrivals' = arrivals + 1
    /\ add_bundle(a, m, age[b][m], FALSE)
    /\ UNCHANGED <<now, exchanges>>

\* The cleaning timer brings the ages up to date and removes old copies.
make_clean(a) ==
    /\ Held(a) # {}
    /\ \E h \in Ages(a) :
          LET mx == messagesMatrix[a]
              old == {m \in Held(a) : h[m] >= ttl_bin}
          IN  IF \E m \in old \cap Known(a) : HasNull(mx[m]) THEN Crash
              ELSE /\ LET mx1 == update_bundle_status(mx, a,
                                                      [m \in old |-> h[m]], 0)
                      IN  Becomes(a, {mx1}, mx1)
                   /\ Copies(a, [m \in Messages |-> IF m \in old THEN -1
                                                   ELSE Aged(a, h)[m]])
                   /\ Touched(a, old \cap Known(a) # {})
                   /\ UNCHANGED <<bundlesSeen, net>>
    /\ UNCHANGED <<now, arrivals, exchanges>>

\* An anti-packet removes a copy; the statistics are not told.
delete_delivred_bundles(a, m) ==
    /\ m \in Held(a)
    /\ Copies(a, [age[a] EXCEPT ![m] = -1])
    /\ UNCHANGED <<stat_sprying_policy, now, messagesMatrix, bundlesSeen,
                   updatedSince, arrivals, exchanges, net, crashed,
                   past>>

\* The trace timer or a metric reads the averages at a bin, at bin 0 those of
\* every message. The map of a message is computed again, over all its rows, if
\* it changed since it was.
get_stat_from_axe(a) ==
    /\ \E late \in Late(a) :
          LET mx == Checked(messagesMatrix[a], a, Known(a), late)
          IN  \/ /\ \/ CheckCrashes(messagesMatrix[a], a, Known(a), late)
                    \/ \E m \in DOMAIN mx : /\ mx[m].message_status = 0
                                            /\ HasNull(mx[m])
                 /\ Crash
              \/ /\ ~CheckCrashes(messagesMatrix[a], a, Known(a), late)
                 /\ Becomes(a, {mx}, mx)
                 /\ UNCHANGED <<age, original, bundlesSeen, updatedSince, net>>
    /\ UNCHANGED <<now, arrivals, exchanges>>

-----------------------------------------------------------------------------
(* The exchange between two neighbors. *)

\* A request walks the messages seen, S of them: those that are valid leave
\* bundlesSeen, the versions of the others (at most
\* max_number_of_stat_messages) are asked about.
Asked(mx, S) == {m \in S : m \notin DOMAIN mx \/ ~IsMessageValid(mx[m])}

Walked(a, mx1, S) ==
    /\ Cardinality(Asked(mx1, S)) <= max_number_of_stat_messages
    /\ \/ S = bundlesSeen[a]
       \/ Cardinality(Asked(mx1, S)) = max_number_of_stat_messages

RequestCrashes(a, S, late) ==
    LET mx == messagesMatrix[a]
        mx1 == Checked(mx, a, S, late)
    IN  \/ CheckCrashes(mx, a, S, late)
        \/ \E m \in Asked(mx1, S) \cap DOMAIN mx1 : HasNull(mx1[m])

\* a hears b. At a first meeting nothing is sent (b's arrival date is now);
\* later, the agent of the larger rule starts an exchange if its statistics
\* changed since the last hello.
recvHello(a, b) ==
    LET mx == messagesMatrix[a]
        silent == updatedSince' = [updatedSince EXCEPT ![a] = @ \ {b}]
        starts == /\ b \in updatedSince[a]
                  /\ exchanges < MaxExchanges /\ arrivals + exchanges < MaxEvents
                  /\ exchanges' = exchanges + 1
        told == updatedSince' = [updatedSince EXCEPT ![a] = Junior(a) \ {b}]
    IN  /\ \/ /\ silent
              /\ UNCHANGED <<stat_sprying_policy, age, original, messagesMatrix,
                             bundlesSeen, exchanges, net, crashed, past>>
           \/ /\ starts
              /\ stat_sprying_policy = 0
              /\ \E h \in Ages(a) :
                    LET mx1 == UpdateLocalMessagesStat(mx, a, h)
                    IN  IF \E m \in Known(a) : HasNull(mx[m]) THEN Crash
                        ELSE /\ Becomes(a, {mx1}, mx1)
                             /\ Copies(a, Aged(a, h))
                             /\ told
                             /\ \E body \in get_stat_to_send(mx1) :
                                   net' = InBound(net \cup Sent(a, b, 6, body))
                             /\ UNCHANGED bundlesSeen
           \/ /\ starts
              /\ stat_sprying_policy = 2
              /\ \E late \in Late(a), S \in SUBSET bundlesSeen[a] :
                    LET mx1 == Checked(mx, a, S, late)
                        T == Asked(mx1, S)
                    IN  IF RequestCrashes(a, S, late) THEN Crash
                        ELSE /\ Walked(a, mx1, S)
                             /\ Becomes(a, {mx1}, mx1)
                             /\ bundlesSeen' = [bundlesSeen EXCEPT ![a] =
                                                   @ \ (S \ T)]
                             /\ IF T = {} THEN silent ELSE told
                             /\ \E body \in Versions(mx1, T) :
                                   net' = InBound(net \cup Sent(a, b, 8, body))
                             /\ UNCHANGED <<age, original>>
        /\ UNCHANGED <<now, arrivals>>

\* A pushed matrix is answered with the own one before it is read.
stat_matrix_recived_first(r) ==
    LET a == r.to
        mx == messagesMatrix[a]
    IN  \E h \in Ages(a) :
            LET mx1 == UpdateLocalMessagesStat(mx, a, h)
            IN  IF \E m \in Known(a) : HasNull(mx[m]) THEN Crash
                ELSE /\ Becomes(a, {mx1}, update_network_stat(mx1, r.body))
                     /\ Copies(a, Aged(a, h))
                     /\ Touched(a, TRUE)
                     /\ \E body \in get_stat_to_send(mx1) :
                           net' = InBound((net \ {r}) \cup
                                      Sent(a, r.from, 7, body))
                     /\ UNCHANGED bundlesSeen

\* Rows are read.
stat_matrix_recived_last(r) ==
    LET a == r.to
        mx == messagesMatrix[a]
    IN  IF \E m \in DOMAIN r.body \cap Known(a) :
              HasNull(mx[m]) /\ \E e \in ToSet(r.body[m]) : e.name = Name(a)
        THEN Crash
        ELSE /\ Becomes(a, {}, update_network_stat(mx, r.body))
             /\ Touched(a, ~(DOMAIN r.body \subseteq Known(a)))
             /\ net' = net \ {r}
             /\ UNCHANGED <<age, original, bundlesSeen>>

\* A request is answered with an own one, of which S is walked, and with the
\* newer rows.
versions_based_reverse_schema_first(r) ==
    LET a == r.to
        mx == messagesMatrix[a]
    IN  \E S \in SUBSET bundlesSeen[a], late \in Late(a), h \in Ages(a) :
            LET mx1 == Checked(mx, a, S, late)
                T == Asked(mx1, S)
                mx2 == UpdateLocalMessagesStat(mx1, a, h)
            IN  IF \/ RequestCrashes(a, S, late)
                   \/ \E m \in (Held(a) \cup Answered(mx1, r.body))
                                 \cap Known(a) : HasNull(mx1[m])
                THEN Crash
                ELSE /\ Walked(a, mx1, S)
                     /\ Becomes(a, {mx1, mx2}, mx2)
                     /\ Copies(a, Aged(a, h))
                     /\ bundlesSeen' = [bundlesSeen EXCEPT ![a] = @ \ (S \ T)]
                     /\ Touched(a, T # {} \/ Held(a) \cap Known(a) # {})
                     /\ \E asked \in Versions(mx1, T),
                           told \in get_stat_to_send_based_on_versions(mx2, r.body) :
                           net' = InBound((net \ {r}) \cup
                                      Sent(a, r.from, 9, asked) \cup
                                      Sent(a, r.from, 7, told))

\* The second request is answered with the newer rows only.
versions_based_reverse_schema_last(r) ==
    LET a == r.to
        mx == messagesMatrix[a]
    IN  \E h \in Ages(a) :
            LET mx1 == UpdateLocalMessagesStat(mx, a, h)
            IN  IF \E m \in (Held(a) \cup Answered(mx, r.body)) \cap Known(a) :
                      HasNull(mx[m])
                THEN Crash
                ELSE /\ Becomes(a, {mx1}, mx1)
                     /\ Copies(a, Aged(a, h))
                     /\ Touched(a, Held(a) \cap Known(a) # {})
                     /\ \E told \in get_stat_to_send_based_on_versions(mx1, r.body) :
                           net' = InBound((net \ {r}) \cup
                                      Sent(a, r.from, 7, told))
                     /\ UNCHANGED bundlesSeen

recv(r) ==
    /\ \/ r.conv = 6 /\ stat_matrix_recived_first(r)
       \/ r.conv = 7 /\ stat_matrix_recived_last(r)
       \/ r.conv = 8 /\ versions_based_reverse_schema_first(r)
       \/ r.conv = 9 /\ versions_based_reverse_schema_last(r)
    /\ UNCHANGED <<now, arrivals, exchanges>>

\* The radio loses r, or its receiver no longer has the sender as a neighbor.
lose(r) ==
    /\ net' = net \ {r}
    /\ UNCHANGED <<stat_sprying_policy, now, age, original, messagesMatrix,
                   bundlesSeen, updatedSince, arrivals, exchanges, crashed, past>>

\* m enters the next bin.
Tick(m) ==
    /\ now[m] \in 0..(MaxAge[m] - 1)
    /\ now' = [now EXCEPT ![m] = @ + 1]
    /\ UNCHANGED <<stat_sprying_policy, age, original, messagesMatrix,
                   bundlesSeen, updatedSince, arrivals, exchanges, net, crashed,
                   past>>

Next ==
    /\ ~crashed
    /\ \/ \E a \in Nodes :
             \/ make_clean(a) \/ get_stat_from_axe(a)
             \/ \E m \in Messages : newBundle(a, m) \/ delete_delivred_bundles(a, m)
             \/ \E b \in Nodes \ {a} :
                   recvHello(a, b) \/ \E m \in Messages : recv_bundle(a, b, m)
       \/ \E r \in net : recv(r) \/ lose(r)
       \/ \E m \in Messages : Tick(m)

Spec == Init /\ [][Next]_vars

-----------------------------------------------------------------------------
(* Properties. *)

\* The row r is w, or what is left of w when its text is cut, once or repeatedly.
BeginningOf(r, w) ==
    \/ r.version = w.version
       /\ \E k \in 0..axe_length : r.bits = {j \in w.bits : j < k}
    \/ r.version <= w.version /\ r.bits = {}

\* What an agent believes about a node (itself too, for its own rows come back),
\* that node once wrote, up to an end that the parser cut off: however reports
\* are delayed, reordered and read again, no row gets a bin, a later version or
\* the name of another node. Marked names stand for the same node.
RowsFromOwner ==
    \A a \in Nodes : \A m \in Known(a) :
        \A x \in DOMAIN messagesMatrix[a][m].rows :
            LET r == messagesMatrix[a][m].rows[x]
            IN  r # NULL => \E w \in past[x[2]][m] : BeginningOf(r, w)

\* A report that arrives late never replaces a newer one: what an agent
\* believes about another node only advances, until the message is complete.
NeverOlder ==
    [][\A a \in Nodes : \A m \in Known(a) :
          \A x \in DOMAIN messagesMatrix[a][m].rows \ {Name(a)} :
              x \in DOMAIN messagesMatrix'[a][m].rows =>
                  messagesMatrix'[a][m].rows[x].version
                      >= messagesMatrix[a][m].rows[x].version]_vars

\* Only an agent that had a copy has a row of its own.
OwnRowOfHolder ==
    \A a \in Nodes : \A m \in Known(a) :
        Name(a) \in DOMAIN messagesMatrix[a][m].rows => past[a][m] # {}

=============================================================================
