----------------------------- MODULE FifoQueue -----------------------------
(***************************************************************************)
(* What a blocking queue promises to the threads that share it: a value    *)
(* offered by a producer joins the queue in one instant, a consumer takes  *)
(* the oldest value in one instant, nothing is lost, made up or delivered  *)
(* twice, and values do not stay while a consumer is calling for one.      *)
(***************************************************************************)
EXTENDS Sequences

CONSTANTS Producers, Consumers, Values, NoValue

VARIABLES items,    \* the values in the queue, oldest first
          offered,  \* of a producer: the value it is about to put
          calling,  \* the consumers whose call has not taken a value yet
          taken     \* of a consumer: the value its call is about to return

fifoVars == <<items, offered, calling, taken>>

FifoInit ==
    /\ items = <<>>
    /\ offered = [p \in Producers |-> NoValue]
    /\ calling = {}
    /\ taken = [c \in Consumers |-> NoValue]

Offer(p, v) ==
    /\ offered[p] = NoValue
    /\ offered' = [offered EXCEPT ![p] = v]
    /\ UNCHANGED <<items, calling, taken>>

Put(p) ==
    /\ offered[p] # NoValue
    /\ items' = Append(items, offered[p])
    /\ offered' = [offered EXCEPT ![p] = NoValue]
    /\ UNCHANGED <<calling, taken>>

Call(c) ==
    /\ c \notin calling /\ taken[c] = NoValue
    /\ calling' = calling \cup {c}
    /\ UNCHANGED <<items, offered, taken>>

Get(c) ==
    /\ c \in calling /\ items # <<>>
    /\ taken' = [taken EXCEPT ![c] = Head(items)]
    /\ items' = Tail(items)
    /\ calling' = calling \ {c}
    /\ UNCHANGED offered

Return(c) ==
    /\ taken[c] # NoValue
    /\ taken' = [taken EXCEPT ![c] = NoValue]
    /\ UNCHANGED <<items, offered, calling>>

FifoNext ==
    \/ \E p \in Producers : Put(p) \/ \E v \in Values : Offer(p, v)
    \/ \E c \in Consumers : Call(c) \/ Get(c) \/ Return(c)

FifoSpec == /\ FifoInit /\ [][FifoNext]_fifoVars
            /\ WF_fifoVars(\E c \in Consumers : Get(c))
=============================================================================
