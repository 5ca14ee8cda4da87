------------------------------ MODULE BlockAck ------------------------------
(***************************************************************************)
(* The block acknowledgement mechanism of EpidemicRouting, in use when     *)
(* activate_ack_mechanism is 1.  A receiver asks its neighbors for blocks  *)
(* of bundles; each side then keeps a list:                                *)
(*                                                                         *)
(*   - the receiver, of the blocks it has to acknowledge (BundlesToAck):   *)
(*     it counts the bundles of a block as they arrive and sends one block *)
(*     ack when the count is complete;                                     *)
(*   - a sender, of the blocks it waits an ack for (ListWaitingAck): each  *)
(*     has a ResendListTimer that sends the block again, at most           *)
(*     max_block_retransmission_number times.                              *)
(*                                                                         *)
(* The messages travel over one radio hop, which keeps their order but may *)
(* lose or delay any of them: a timer may expire at any time, and a        *)
(* handler that asks whether its peer is still a neighbor may get either   *)
(* answer.                                                                 *)
(* A bundle that is buffered may leave the buffer at any time (module      *)
(* BundleBuffer), which is the action forget.                              *)
(***************************************************************************)
EXTENDS Integers, Sequences, FiniteSets, SequencesExt

CONSTANTS
    Senders,          \* the neighbors the receiver asks
    Bundles,          \* the ids of the bundles they hold
    ForMe,            \* those of them whose destination is the receiver
    MaxRet,           \* max_block_retransmission_number
    AckModulus,       \* 2^8: nb_to_ack and current_ack are of type u_int8_t
    MayForget,        \* bundles that may leave a buffer
    MaxAsks           \* bound: blocks asked from each sender

ASSUME BlockAckAssumption ==
    /\ IsFiniteSet(Bundles)
    /\ ForMe \subseteq Bundles
    /\ MaxRet \in Nat
    /\ AckModulus \in Nat \ {0}
    /\ MayForget \subseteq Bundles
    /\ MaxAsks \in Nat

VARIABLES
    b_to_ack,                          \* the receiver's list of BundlesToAck
    number_of_blocks_to_ack,
    lw_ack,                            \* each sender's list of ListWaitingAck
    number_of_blocks_waiting_for_ack,
    received,                          \* ids in the receiver's buffer
    held,                              \* ids in each sender's buffer
    up,                                \* messages on their way to a sender
    down,                              \* bundles on their way from a sender
    asks,                              \* blocks asked so far from each sender
    acks,                              \* block acks sent so far to each sender
    got                                \* ids that ever reached the receiver

vars == <<b_to_ack, number_of_blocks_to_ack, lw_ack,
          number_of_blocks_waiting_for_ack, received, held, up, down, asks,
          acks, got>>

\* The messages: what the receiver wants (in c2 or c3), a block ack
\* (conversation 4), and a bundle (send_type 1 when it is sent again).
Wanted == [type : {"want"}, list : SUBSET Bundles \ {{}}]
Ack == [type : {"ack"}]
Data == [id : Bundles, send_type : {0, 1}]

BundlesToAck == [dest : Senders, l_to_ack : SUBSET Bundles,
                 nb_to_ack : 0..(AckModulus - 1),
                 current_ack : 0..(AckModulus - 1), ready : BOOLEAN]
ListWaitingAck == [list : SUBSET Bundles, number_of_ret : 0..MaxRet]

TypeOK ==
    /\ b_to_ack \in Seq(BundlesToAck)
    /\ number_of_blocks_to_ack \in Int
    /\ lw_ack \in [Senders -> Seq(ListWaitingAck)]
    /\ number_of_blocks_waiting_for_ack \in [Senders -> Int]
    /\ received \subseteq Bundles
    /\ held \in [Senders -> SUBSET Bundles]
    /\ up \in [Senders -> Seq(Wanted \cup Ack)]
    /\ down \in [Senders -> Seq(Data)]
    /\ asks \in [Senders -> 0..MaxAsks]
    /\ acks \in [Senders -> Nat]
    /\ got \subseteq Bundles

Init ==
    /\ b_to_ack = <<>>
    /\ number_of_blocks_to_ack = 0
    /\ lw_ack = [s \in Senders |-> <<>>]
    /\ number_of_blocks_waiting_for_ack = [s \in Senders |-> 0]
    /\ received = {}
    /\ held = [s \in Senders |-> Bundles]
    /\ up = [s \in Senders |-> <<>>]
    /\ down = [s \in Senders |-> <<>>]
    /\ asks = [s \in Senders |-> 0]
    /\ acks = [s \in Senders |-> 0]
    /\ got = {}

Receiver == <<b_to_ack, number_of_blocks_to_ack, received, asks, acks, got>>
Sending == <<lw_ack, number_of_blocks_waiting_for_ack, held>>

-----------------------------------------------------------------------------
(* The receiver. *)

\* The bundles list_diff does not ask for: they are buffered, or delivered.
Known == received \cup (got \cap ForMe)

\* Faulty variant of add_bl_toack: only the first block is counted.
add_bl_toack_uncounted(s, l) ==
    /\ asks[s] < MaxAsks
    /\ asks' = [asks EXCEPT ![s] = @ + 1]
    /\ b_to_ack' = Append(b_to_ack,
           [dest |-> s, l_to_ack |-> l,
            nb_to_ack |-> Cardinality(l) % AckModulus,
            current_ack |-> 0, ready |-> FALSE])
    /\ number_of_blocks_to_ack' = 1
    /\ up' = [up EXCEPT ![s] = Append(@, [type |-> "want", list |-> l])]
    /\ UNCHANGED <<Sending, down, received, acks, got>>

\* recv_c1 or recv_c2 wants the bundles l of s: it has seen their ids in the
\* list of s and has none of them.
add_bl_toack(s, l) ==
    /\ asks[s] < MaxAsks
    /\ asks' = [asks EXCEPT ![s] = @ + 1]
    /\ b_to_ack' = Append(b_to_ack,
           [dest |-> s, l_to_ack |-> l,
            nb_to_ack |-> Cardinality(l) % AckModulus,
            current_ack |-> 0, ready |-> FALSE])
    /\ number_of_blocks_to_ack' = number_of_blocks_to_ack + 1
    /\ up' = [up EXCEPT ![s] = Append(@, [type |-> "want", list |-> l])]
    /\ UNCHANGED <<Sending, down, received, acks, got>>

\* A bundle id of the block b has arrived. The id stays in l_to_ack.
exist_bundle(b, id) ==
    IF id \in b.l_to_ack
    THEN LET c == (b.current_ack + 1) % AckModulus
         IN  [b EXCEPT !.current_ack = c,
                       !.ready = @ \/ c = b.nb_to_ack]
    ELSE b

\* The list after the first acked block of s has been deleted, when n blocks
\* are counted after it: a block at the head takes the whole list with it when
\* one block should be left.
delete_bta_block(blocks, n, s) ==
    LET acked == {i \in DOMAIN blocks : blocks[i].dest = s /\ blocks[i].ready}
        k == Min(acked)
    IN  IF k = 1 /\ n = 1 THEN <<>> ELSE RemoveAt(blocks, k)

\* A block of s is complete: send the block ack.
send_ack(s) ==
    /\ up' = [up EXCEPT ![s] = Append(@, [type |-> "ack"])]
    /\ acks' = [acks EXCEPT ![s] = @ + 1]

\* Faulty variant of update_bta_list: the block is acked at every bundle.
update_bta_list_too_early(s, id) ==
    /\ send_ack(s)
    /\ UNCHANGED <<b_to_ack, number_of_blocks_to_ack>>

\* The blocks asked from s are told of id one after the other, until one is
\* complete; that one is acked and deleted.
update_bta_list(s, id) ==
    LET told == [i \in DOMAIN b_to_ack |->
                    IF b_to_ack[i].dest = s
                    THEN exist_bundle(b_to_ack[i], id) ELSE b_to_ack[i]]
        complete == {i \in DOMAIN told : told[i].dest = s /\ told[i].ready}
        upto == [i \in DOMAIN told |->
                    IF i > Min(complete) THEN b_to_ack[i] ELSE told[i]]
        n == number_of_blocks_to_ack - 1
    IN  \/ /\ complete = {}
           /\ b_to_ack' = told
           /\ UNCHANGED <<up, number_of_blocks_to_ack, acks>>
        \/ /\ complete # {}
           /\ send_ack(s)
           /\ number_of_blocks_to_ack' = n
           /\ b_to_ack' = delete_bta_block(upto, n, s)

\* A retransmission of a bundle that is buffered is not counted again.
counted(m) == m.id \in ForMe \/ m.id \notin received \/ m.send_type = 0

\* A bundle arrives from s: one for the receiver is delivered, another is
\* buffered. It is not counted if s is no longer a neighbor.
recv_bundle(s) ==
    /\ down[s] # <<>>
    /\ LET m == Head(down[s])
       IN  /\ \/ counted(m) /\ update_bta_list(s, m.id)
              \/ UNCHANGED <<b_to_ack, number_of_blocks_to_ack, up, acks>>
           /\ received' = IF m.id \in ForMe THEN received
                                            ELSE received \cup {m.id}
           /\ got' = got \cup {m.id}
    /\ down' = [down EXCEPT ![s] = Tail(@)]
    /\ UNCHANGED <<Sending, asks>>

-----------------------------------------------------------------------------
(* A sender. *)

\* The bundles of the list that are still buffered are sent, in the order of
\* their schedule.
send_bundles_list(s, l, type) ==
    \E order \in SetToSeqs([id : l \cap held[s], send_type : {type}]) :
        down' = [down EXCEPT ![s] = @ \o order]

\* recv_c2 or recv_c3: the block is remembered, with a timer, and sent. If the
\* receiver is no longer a neighbor nothing happens.
recv_wanted(s, l) ==
    \/ /\ lw_ack' = [lw_ack EXCEPT ![s] =
               Append(@, [list |-> l, number_of_ret |-> 0])]
       /\ number_of_blocks_waiting_for_ack' =
               [number_of_blocks_waiting_for_ack EXCEPT ![s] = @ + 1]
       /\ send_bundles_list(s, l, 0)
    \/ UNCHANGED <<lw_ack, number_of_blocks_waiting_for_ack, down>>

\* Faulty variant of delete_ret_list: the counter is forgotten.
delete_ret_list_uncounted(s, i) ==
    /\ lw_ack' = [lw_ack EXCEPT ![s] = RemoveAt(@, i)]
    /\ UNCHANGED number_of_blocks_waiting_for_ack

delete_ret_list(s, i) ==
    /\ lw_ack' = [lw_ack EXCEPT ![s] = RemoveAt(@, i)]
    /\ number_of_blocks_waiting_for_ack' =
           [number_of_blocks_waiting_for_ack EXCEPT ![s] = @ - 1]

\* The ack names its sender only: the first list that waits for it is taken to
\* be the acked one. A late ack finds no list.
recv_block_ack(s) ==
    /\ \/ lw_ack[s] # <<>> /\ delete_ret_list(s, 1)
       \/ /\ lw_ack[s] = <<>>
          /\ UNCHANGED <<lw_ack, number_of_blocks_waiting_for_ack>>
    /\ UNCHANGED down

\* A message of the receiver reaches s.
recv_control(s) ==
    /\ up[s] # <<>>
    /\ LET m == Head(up[s])
       IN  \/ m.type = "want" /\ recv_wanted(s, m.list)
           \/ m.type = "ack" /\ recv_block_ack(s)
    /\ up' = [up EXCEPT ![s] = Tail(@)]
    /\ UNCHANGED <<Receiver, held>>

\* Faulty variant of resend_bundles_block: one retransmission too many.
resend_bundles_block_off_by_one(s, i) ==
    /\ i \in DOMAIN lw_ack[s]
    /\ lw_ack[s][i].number_of_ret <= MaxRet
    /\ send_bundles_list(s, lw_ack[s][i].list, 1)
    /\ lw_ack' = [lw_ack EXCEPT ![s][i].number_of_ret = @ + 1]
    /\ UNCHANGED <<number_of_blocks_waiting_for_ack, Receiver, held, up>>

\* Faulty variant of resend_bundles_block: a failed block is not deleted.
resend_bundles_block_kept(s, i) ==
    /\ i \in DOMAIN lw_ack[s]
    /\ lw_ack[s][i].number_of_ret < MaxRet
    /\ send_bundles_list(s, lw_ack[s][i].list, 1)
    /\ lw_ack' = [lw_ack EXCEPT ![s][i].number_of_ret = @ + 1]
    /\ UNCHANGED <<number_of_blocks_waiting_for_ack, Receiver, held, up>>

\* The timer of a waiting list expires: the block is sent again if the receiver
\* is still a neighbor and the list has retransmissions left.
resend_bundles_block(s, i) ==
    /\ i \in DOMAIN lw_ack[s]
    /\ \/ /\ lw_ack[s][i].number_of_ret < MaxRet
          /\ send_bundles_list(s, lw_ack[s][i].list, 1)
          /\ lw_ack' = [lw_ack EXCEPT ![s][i].number_of_ret = @ + 1]
          /\ UNCHANGED number_of_blocks_waiting_for_ack
       \/ /\ delete_ret_list(s, i)
          /\ UNCHANGED down
    /\ UNCHANGED <<Receiver, held, up>>

-----------------------------------------------------------------------------
(* The environment. *)

\* A bundle is dropped, expires or is reported delivered.
forget(id) ==
    /\ id \in MayForget
    /\ \/ /\ id \in received
          /\ received' = received \ {id}
          /\ UNCHANGED held
       \/ \E s \in Senders :
             /\ id \in held[s]
             /\ held' = [held EXCEPT ![s] = @ \ {id}]
             /\ UNCHANGED received
    /\ UNCHANGED <<b_to_ack, number_of_blocks_to_ack, lw_ack,
                   number_of_blocks_waiting_for_ack, up, down, asks, acks,
                   got>>

\* The radio loses a message.
lose(s) ==
    /\ \/ up[s] # <<>> /\ up' = [up EXCEPT ![s] = Tail(@)] /\ UNCHANGED down
       \/ down[s] # <<>> /\ down' = [down EXCEPT ![s] = Tail(@)]
          /\ UNCHANGED up
    /\ UNCHANGED <<Receiver, Sending>>

Next ==
    \/ \E s \in Senders :
          \/ \E l \in SUBSET (Bundles \ Known) \ {{}} : add_bl_toack(s, l)
          \/ recv_bundle(s)
          \/ recv_control(s)
          \/ \E i \in 1..MaxAsks : resend_bundles_block(s, i)
          \/ lose(s)
    \/ \E id \in MayForget : forget(id)

Spec == Init /\ [][Next]_vars

\* The scheduler of ns-2 fires every timer that stays pending, so a list that
\* keeps waiting is eventually looked at. Nothing is assumed of the radio.
Fairness ==
    \A s \in Senders : WF_vars(\E i \in 1..MaxAsks : resend_bundles_block(s, i))

FairSpec == Spec /\ Fairness

-----------------------------------------------------------------------------
(* Properties. *)

\* number_of_blocks_waiting_for_ack is the length of the list, whatever mix of
\* acks, failed retransmissions and departures shortens it.
WaitingCounted ==
    \A s \in Senders :
        number_of_blocks_waiting_for_ack[s] = Len(lw_ack[s])

\* The receiver never counts fewer blocks than it has: delete_bta_block never
\* takes a list with several blocks for a list with one.
ToAckCounted == number_of_blocks_to_ack >= Len(b_to_ack)

\* The receiver never acks more blocks than it asked.
AcksMatchAsks == \A s \in Senders : acks[s] <= asks[s]

\* A block leaves the receiver's list only when it is acked: at most one block
\* for each ack that is sent.
OneBlockPerAck ==
    [][Len(b_to_ack') < Len(b_to_ack) =>
          /\ Len(b_to_ack') = Len(b_to_ack) - 1
          /\ acks' # acks]_vars

\* No block waits for ever: it is acked, or given up after MaxRet
\* retransmissions or when the receiver has left.
WaitingResolved ==
    \A s \in Senders : []<>(lw_ack[s] = <<>>)

=============================================================================
