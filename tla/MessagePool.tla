---------------------------- MODULE MessagePool ----------------------------
(***************************************************************************)
(* The two pools every thread of the board draws from, and its mailboxes.  *)
(*                                                                         *)
(* msg_factory keeps MSG_NUM_MAX messages on a list under list_mutex, and  *)
(* buf_factory keeps its buffers likewise; which element of a list is      *)
(* taken makes no difference, so that a pool is the number of its free     *)
(* elements.  A mailbox is a POSIX queue of at most MSG_NUM_MAX messages,  *)
(* ordered by priority and, within one priority, by arrival.  A message is *)
(* a record: its kind, its priority, and what its payload points to.       *)
(***************************************************************************)
EXTENDS Naturals, Sequences, FiniteSets

CONSTANTS
  MSG_NUM_MAX,
  BufNum,          \* what create_buf_factory is called with
  Mailboxes

ASSUME MessagePoolAssumption ==
  MSG_NUM_MAX \in Nat \ {0} /\ BufNum \in Nat \ {0} /\ IsFiniteSet(Mailboxes)

VARIABLES
  free,            \* messages on the list of msg_factory
  bufs,            \* buffers on the list of buf_factory
  box              \* the mailboxes

poolVars == <<free, bufs, box>>

PoolTypeOK(kinds) ==
  /\ free \in 0 .. MSG_NUM_MAX /\ bufs \in 0 .. BufNum
  /\ DOMAIN box = Mailboxes
  /\ \A b \in Mailboxes : box[b] \in Seq([kind : kinds, prio : {0, 1, 3, 5},
                                         ref : Nat, id : Nat])

CreateFactories ==
  free = MSG_NUM_MAX /\ bufs = BufNum /\ box = [b \in Mailboxes |-> <<>>]

Message(kind, prio, ref, id) == [kind |-> kind, prio |-> prio, ref |-> ref, id |-> id]

\* msg_factory_produce: guarded by its caller, who may or may not test for NULL.
Empty == free = 0
Produced == free' = free - 1

\* The part of msg_factory_recycle that concerns the pool.
Recycled == free' = free + 1

BufProduced == bufs' = bufs - 1
BufRecycled == bufs' = bufs + 1

Room(b) == Len(box[b]) < MSG_NUM_MAX

\* What mq_send and mq_timedsend do when there is room.
Queued(b, m) ==
  LET ahead == {i \in DOMAIN box[b] : box[b][i].prio >= m.prio}
      k == Cardinality(ahead)
  IN  box' = [box EXCEPT ![b] = SubSeq(@, 1, k) \o <<m>> \o SubSeq(@, k + 1, Len(@))]

\* A message is produced and queued by one thread with nothing in between that
\* another thread could notice.
Posted(b, m) == Produced /\ Queued(b, m)

\* mailbox_pend
Pending(b) == box[b] # <<>>
Received(b) == box' = [box EXCEPT ![b] = Tail(@)]

InBox(b, kinds) == {i \in DOMAIN box[b] : box[b][i].kind \in kinds}

\* Messages in mailboxes.
Waiting == Cardinality(UNION {{b} \X DOMAIN box[b] : b \in Mailboxes})
=============================================================================
