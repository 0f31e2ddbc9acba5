--------------------------- MODULE AgentLifecycle ---------------------------
(***************************************************************************)
(* What the reactor promises about the objects it manages, without saying  *)
(* how: a connection belongs to exactly one agent from the moment it is    *)
(* accepted until it is closed, an agent that lost its connection does     *)
(* nothing more, and its memory is taken back once, later, together with   *)
(* that of every other agent in that state.                                *)
(***************************************************************************)
CONSTANTS Agents, Fds, Nobody

VARIABLES phase,   \* of an agent: "free", "serving" or "retired"
          owner    \* of a descriptor: the agent it belongs to, or Nobody

lifeVars == <<phase, owner>>

LifeInit ==
    /\ phase = [a \in Agents |-> "free"]
    /\ owner = [f \in Fds |-> Nobody]

\* A connection is accepted on a free descriptor, by a free slot.
Open(a, f) ==
    /\ phase[a] = "free" /\ owner[f] = Nobody
    /\ phase' = [phase EXCEPT ![a] = "serving"]
    /\ owner' = [owner EXCEPT ![f] = a]

\* The connection is closed by its owner and by nobody else.
Close(a, f) ==
    /\ phase[a] = "serving" /\ owner[f] = a
    /\ phase' = [phase EXCEPT ![a] = "retired"]
    /\ owner' = [owner EXCEPT ![f] = Nobody]

\* Every retired agent is deleted.
Reclaim ==
    /\ \E a \in Agents : phase[a] = "retired"
    /\ phase' = [a \in Agents |->
                    IF phase[a] = "retired" THEN "free" ELSE phase[a]]
    /\ UNCHANGED owner

LifeNext == (\E a \in Agents, f \in Fds : Open(a, f) \/ Close(a, f)) \/ Reclaim
LifeSpec == LifeInit /\ [][LifeNext]_lifeVars /\ WF_lifeVars(Reclaim)
=============================================================================
