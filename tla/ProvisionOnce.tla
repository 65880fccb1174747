---------------------------- MODULE ProvisionOnce ----------------------------
(***************************************************************************)
(* What the provisioning workflow promises its callers, without requests,  *)
(* attempts, locks or failures: a tenant is registered once, becomes ready *)
(* once, and from that step on the password its login role accepts and the *)
(* password the secret store serves for it are the same and never change.  *)
(***************************************************************************)
CONSTANTS Slugs, Passwords, None

VARIABLES
    status,     \* [Slugs -> {"absent", "building", "ready"}]
    login,      \* [Slugs -> what the role of a ready tenant accepts]
    served      \* [Slugs -> what its secret reference leads to]

Init ==
    /\ status = [t \in Slugs |-> "absent"]
    /\ login = [t \in Slugs |-> None]
    /\ served = [t \in Slugs |-> None]

Register(t) ==
    /\ status[t] = "absent"
    /\ status' = [status EXCEPT ![t] = "building"]
    /\ UNCHANGED <<login, served>>

Finish(t) ==
    /\ status[t] = "building"
    /\ status' = [status EXCEPT ![t] = "ready"]
    /\ login'[t] \in Passwords /\ login'[t] = served'[t]
    /\ login' = [login EXCEPT ![t] = login'[t]]
    /\ served' = [served EXCEPT ![t] = served'[t]]

Next == \E t \in Slugs : Register(t) \/ Finish(t)

Spec == Init /\ [][Next]_<<status, login, served>>

=============================================================================
