-------------------------- MODULE ValidatorAnnounce ------------------------
(***************************************************************************)
(* How validators tell where their checkpoints are: the Sealevel program   *)
(* sealevel/programs/validator-announce, and the announce function of the  *)
(* validator agent (agents/validator/src/validator.rs), which is all that  *)
(* the agent of this repository runs.                                      *)
(***************************************************************************)
EXTENDS Naturals, Sequences, SequencesExt

CONSTANTS
    Announcers,   \* validators
    Locations,    \* storage locations
    MaxMoves      \* bound: starts of agents

VARIABLES
    announced,    \* announced[v]: the storage locations account
    replay,       \* the replay protection accounts, by validator and location
    agent,        \* agent[v]: where the agent is in announce
    signed,       \* the announcements signed so far
    moves

announceVars == <<announced, replay, agent, signed, moves>>

AnnounceInit ==
    /\ announced = [v \in Announcers |-> <<>>]
    /\ replay = {}
    /\ agent = [v \in Announcers |-> [pc |-> "off", location |-> ""]]
    /\ signed = {}
    /\ moves = 0

(* An agent is started, with the location its settings name, and signs.    *)
StartAgent(v, location) ==
    /\ moves < MaxMoves
    /\ moves' = moves + 1
    /\ signed' = signed \cup {<<v, location>>}
    /\ agent' = [agent EXCEPT ![v] = [pc |-> "check", location |-> location]]
    /\ UNCHANGED <<announced, replay>>

(* get_announced_storage_locations reads a finalized, maybe older, state.  *)
CheckAnnounced(v) ==
    /\ agent[v].pc = "check"
    /\ \E n \in 0..Len(announced[v]) :
        agent' = [agent EXCEPT ![v].pc =
            IF Contains(SubSeq(announced[v], 1, n), agent[v].location)
            THEN "announced" ELSE "announce"]
    /\ UNCHANGED <<announced, replay, signed, moves>>

(* verify_validator_signed_announcement *)
VerifySigned(v, location, signer) == <<signer, location>> \in signed /\ signer = v

(* update_validator_storage_locations *)
UpdateLocations(v, location) ==
    announced' = [announced EXCEPT ![v] = Append(@, location)]

(* process_announce *)
ProcessAnnounce(v, location, signer) ==
    /\ <<v, location>> \notin replay
    /\ VerifySigned(v, location, signer)
    /\ UpdateLocations(v, location)
    /\ replay' = replay \cup {<<v, location>>}

(* The agent, or an operator for it, submits the announcement; it fails    *)
(* when it was made before, and the agent checks again.                    *)
SelfAnnounce(v) ==
    /\ agent[v].pc = "announce"
    /\ \/ ProcessAnnounce(v, agent[v].location, v)
       \/ UNCHANGED <<announced, replay>>
    /\ agent' = [agent EXCEPT ![v].pc = "check"]
    /\ UNCHANGED <<signed, moves>>

\* Anyone submits an announcement, under any validator's name.
AnyoneAnnounces ==
    /\ \E v \in Announcers, a \in signed : ProcessAnnounce(v, a[2], a[1])
    /\ UNCHANGED <<agent, signed, moves>>

AnnounceNext ==
    \/ \E v \in Announcers :
        \/ \E l \in Locations : StartAgent(v, l)
        \/ CheckAnnounced(v) \/ SelfAnnounce(v)
    \/ AnyoneAnnounces

AnnounceSpec == AnnounceInit /\ [][AnnounceNext]_announceVars
----------------------------------------------------------------------------
(* A validator's list has only locations it signed, none of them twice     *)
(* although attempts are repeated by agents that read an old list and by   *)
(* others who saw the signature, and an agent that stops announcing is in  *)
(* the list.                                                               *)
AnnouncedOnce ==
    \A v \in Announcers :
        /\ IsInjective(announced[v])
        /\ \A i \in 1..Len(announced[v]) : <<v, announced[v][i]>> \in signed
        /\ agent[v].pc = "announced" => Contains(announced[v], agent[v].location)
============================================================================
