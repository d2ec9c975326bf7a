------------------------------ MODULE MCAccess ------------------------------
(***************************************************************************)
(* What several clients ask of one record: the branches of a repository,   *)
(* the trackers of a workspace, the tokens of the phones and the rate      *)
(* limiter.  They share no state: each behaviour is of one of them, and    *)
(* the others stay as they are.                                            *)
(*                                                                         *)
(* The repository has a second branch and two stash entries, or a second   *)
(* branch and a remote that Main follows; or it has but one branch and a   *)
(* remote that nothing follows yet.                                        *)
(***************************************************************************)
EXTENDS GitBranches, GitTrackers, DeviceAccess, RateLimiter, TLC

CONSTANTS main, topic, p, q

VARIABLE part

MCInit ==
    /\ Init /\ TrackersInit /\ AccessInit /\ RateInit
    /\ part \in {"branches", "trackers", "access", "rate"}
    /\ origin <=> stash = <<>>
    /\ (origin /\ upstream = {}) <=> tips[topic] = None
    /\ part # "branches" => stash = <<2, 1>>
    /\ part # "trackers" => (configured = p /\ disk = [d \in Paths |-> "git"])

MCNext ==
    /\ UNCHANGED part
    /\ \/ part = "branches" /\ Next /\ UNCHANGED <<trackerVars, accessVars, rateVars>>
       \/ part = "trackers" /\ TrackersNext /\ UNCHANGED <<vars, accessVars, rateVars>>
       \/ part = "access" /\ AccessNext /\ UNCHANGED <<vars, trackerVars, rateVars>>
       \/ part = "rate" /\ RateNext /\ UNCHANGED <<vars, trackerVars, accessVars>>

MCSpec == MCInit /\ [][MCNext]_<<vars, trackerVars, accessVars, rateVars, part>>
\* Clients = Phones, Changes = Requests and Callers = Keys: one pair of names for each two.
Symmetry == Permutations(Clients) \cup Permutations(Changes) \cup Permutations(Paths) \cup Permutations(Callers)
=============================================================================
